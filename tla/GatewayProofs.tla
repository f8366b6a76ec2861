---------------------------- MODULE GatewayProofs -----------------------------
(***************************************************************************)
(* Proofs about the gateway's session protocol for any connections, any    *)
(* number of requests, and any timeouts, interrupts and stops.             *)
(***************************************************************************)
EXTENDS Gateway, SequenceTheorems, TLAPS

Entries == [id : Ids, method : Methods, ending : Endings, of : Works \cup {None}]
Requests == [id : Ids, method : Methods]

ClientTypes ==
  /\ cState \in [Clients -> {"start", "waiting", "ready", "closed"}]
  /\ waitFor \in [Clients -> [id : Ids \cup {0}, method : Methods]]
  /\ nextId \in [Clients -> 1..(MaxRequests + 1)]
  /\ latched \in [Clients -> BOOLEAN]
  /\ results \in [Clients -> Seq(Entries)]

LinkTypes ==
  /\ up \in [Clients -> Seq(Requests)]
  /\ down \in [Clients -> Seq(Messages)]
  /\ cOpen \in [Clients -> BOOLEAN]
  /\ sOpen \in [Clients -> BOOLEAN]

HandlerTypes ==
  /\ hState \in [Clients -> {"none", "reading", "executing", "gone"}]
  /\ session \in [Clients -> BOOLEAN]
  /\ hId \in [Clients -> Ids \cup {0}]
  /\ connected \in [Clients -> BOOLEAN]

WorkStates == {"none", "queued", "executing", "result", "error", "refused"}

OwnerTypes ==
  /\ queue \in Seq(Works \cup {Stop})
  /\ running \in Works \cup {None}
  /\ workState \in [Clients -> WorkStates]
  /\ ownerUp \in BOOLEAN
  /\ executorOpen \in BOOLEAN
  /\ executed \in Seq(Works)

ServerTypes == server \in {"serving", "stopping", "closing", "exited"}

\* What a client waits for, a handler executes and a response says is there.
Waits    == \A c \in Clients : cState[c] = "waiting" => waitFor[c].id \in Ids
Executes == \A c \in Clients : hState[c] = "executing" => hId[c] \in Ids
Answered == {"result", "error", "refused", "rejected"}
Says(m)  == m.kind = "response" => m.ending \in Answered
Responds == \A c \in Clients : \A k \in DOMAIN down[c] : Says(down[c][k])

TypeInv ==
  /\ ClientTypes /\ LinkTypes /\ HandlerTypes /\ OwnerTypes /\ ServerTypes
  /\ Waits /\ Executes /\ Responds

\* The parts are those of the type invariant.
LEMMA TypeInvType == TypeInv => TypeOK
  BY DEF TypeInv, ClientTypes, LinkTypes, HandlerTypes, OwnerTypes, ServerTypes, TypeOK,
         Entries, Requests, WorkStates

-------------------------------------------------------------------------------
(* A message put into a channel, and one taken from it.                    *)
LEMMA PutDown ==
  ASSUME TypeInv, NEW c \in Clients, NEW m \in Messages, Says(m),
         down' = [down EXCEPT ![c] = Append(@, m)]
  PROVE  down' \in [Clients -> Seq(Messages)] /\ Responds'
  <1>1. down[c] \in Seq(Messages)
    BY DEF TypeInv, LinkTypes
  <1>2. /\ Append(down[c], m) \in Seq(Messages)
        /\ Len(Append(down[c], m)) = Len(down[c]) + 1
        /\ \A k \in 1..Len(down[c]) : Append(down[c], m)[k] = down[c][k]
        /\ Append(down[c], m)[Len(down[c]) + 1] = m
    BY <1>1, AppendProperties
  <1>3. /\ DOMAIN down[c] = 1..Len(down[c]) /\ Len(down[c]) \in Nat
        /\ DOMAIN Append(down[c], m) = 1..(Len(down[c]) + 1)
    BY <1>1, <1>2, LenProperties
  <1>4. \A k \in DOMAIN Append(down[c], m) : Says(Append(down[c], m)[k])
    <2>1. \A k \in 1..Len(down[c]) : Says(down[c][k])
      BY <1>3 DEF TypeInv, Responds
    <2>2. \A k \in 1..(Len(down[c]) + 1) : k \in 1..Len(down[c]) \/ k = Len(down[c]) + 1
      BY <1>3
    <2> QED BY <1>2, <1>3, <2>1, <2>2
  <1>5. down' \in [Clients -> Seq(Messages)]
    BY <1>2 DEF TypeInv, LinkTypes
  <1>6. \A d \in Clients : down'[d] = IF d = c THEN Append(down[c], m) ELSE down[d]
    BY DEF TypeInv, LinkTypes
  <1> QED BY <1>4, <1>5, <1>6 DEF TypeInv, Responds

\* Reading a message leaves messages of the same kind.
LEMMA TakeDown ==
  ASSUME TypeInv, NEW c \in Clients, down[c] # <<>>, down' = [down EXCEPT ![c] = Tail(@)]
  PROVE  /\ down' \in [Clients -> Seq(Messages)] /\ Responds'
         /\ Head(down[c]) \in Messages /\ Says(Head(down[c]))
  <1>1. down[c] \in Seq(Messages)
    BY DEF TypeInv, LinkTypes
  <1>2. /\ Head(down[c]) \in Messages /\ Tail(down[c]) \in Seq(Messages)
        /\ Len(Tail(down[c])) = Len(down[c]) - 1
        /\ \A k \in 1..Len(Tail(down[c])) : Tail(down[c])[k] = down[c][k + 1]
    BY <1>1, HeadTailProperties
  <1>3. /\ DOMAIN down[c] = 1..Len(down[c]) /\ Len(down[c]) \in Nat \ {0}
        /\ DOMAIN Tail(down[c]) = 1..(Len(down[c]) - 1)
    BY <1>1, <1>2, LenProperties, EmptySeq
  <1>4. \A k \in DOMAIN Tail(down[c]) : Says(Tail(down[c])[k])
    <2> TAKE k \in DOMAIN Tail(down[c])
    <2>1. k + 1 \in DOMAIN down[c] /\ Tail(down[c])[k] = down[c][k + 1]
      BY <1>2, <1>3
    <2> QED BY <2>1 DEF TypeInv, Responds
  <1>5. Says(Head(down[c]))
    <2>1. Head(down[c]) = down[c][1] /\ 1 \in DOMAIN down[c]
      BY <1>1, <1>3
    <2> QED BY <2>1 DEF TypeInv, Responds
  <1>6. down' \in [Clients -> Seq(Messages)]
    BY <1>2 DEF TypeInv, LinkTypes
  <1>7. \A d \in Clients : down'[d] = IF d = c THEN Tail(down[c]) ELSE down[d]
    BY DEF TypeInv, LinkTypes
  <1> QED BY <1>2, <1>4, <1>5, <1>6, <1>7 DEF TypeInv, Responds

\* The request that a handler reads.
LEMMA IncomingTyped ==
  ASSUME TypeInv, NEW c \in Clients, NEW request \in Incoming(c),
         up' = [up EXCEPT ![c] = Tail(@)]
  PROVE  /\ request \in Requests /\ hState[c] = "reading"
         /\ up' \in [Clients -> Seq(Requests)]
  <1>1. up[c] \in Seq(Requests) /\ up[c] # <<>> /\ request = Head(up[c])
        /\ hState[c] = "reading"
    BY DEF TypeInv, LinkTypes, Incoming
  <1>2. Head(up[c]) \in Requests /\ Tail(up[c]) \in Seq(Requests)
    BY <1>1, HeadTailProperties
  <1> QED BY <1>1, <1>2 DEF TypeInv, LinkTypes

\* A handler that writes a response goes on reading, or is gone.
LEMMA RespondTyped ==
  ASSUME TypeInv, NEW c \in Clients, NEW m \in Messages, Says(m), Respond(c, m),
         UNCHANGED hId
  PROVE  /\ down' \in [Clients -> Seq(Messages)] /\ Responds'
         /\ hState' \in [Clients -> {"none", "reading", "executing", "gone"}]
         /\ sOpen' \in [Clients -> BOOLEAN]
         /\ Executes'
  <1>1. /\ hState' \in [Clients -> {"none", "reading", "executing", "gone"}]
        /\ sOpen' \in [Clients -> BOOLEAN]
    BY DEF TypeInv, LinkTypes, HandlerTypes, Respond, HandlerGone
  <1>2. Executes'
    BY DEF TypeInv, HandlerTypes, Executes, Respond, HandlerGone
  <1>3. down' \in [Clients -> Seq(Messages)] /\ Responds'
    <2>1. CASE cOpen[c]
      BY <2>1, PutDown DEF Respond
    <2>2. CASE ~cOpen[c]
      BY <2>2 DEF Respond, TypeInv, LinkTypes, Responds
    <2> QED BY <2>1, <2>2
  <1> QED BY <1>1, <1>2, <1>3

\* The beginning and the end of a request.
LEMMA SendTyped ==
  ASSUME TypeInv, NEW c \in Clients, NEW method \in Methods, SendRequest(c, method),
         UNCHANGED <<latched, results>>
  PROVE  ClientTypes' /\ Waits' /\ nextId[c] \in Ids
  <1>1. nextId[c] \in Ids /\ nextId[c] + 1 \in 1..(MaxRequests + 1)
    BY BoundsAssumption DEF SendRequest, Ids
  <1>2. nextId' \in [Clients -> 1..(MaxRequests + 1)]
    BY <1>1 DEF SendRequest, TypeInv, ClientTypes
  <1>3. waitFor' \in [Clients -> [id : Ids \cup {0}, method : Methods]]
    BY <1>1 DEF SendRequest, Numbered, TypeInv, ClientTypes
  <1>4. cState' \in [Clients -> {"start", "waiting", "ready", "closed"}]
    BY DEF SendRequest, TypeInv, ClientTypes
  <1>5. Waits'
    <2>1. \A d \in Clients \ {c} : waitFor'[d] = waitFor[d] /\ cState'[d] = cState[d]
      BY DEF SendRequest, TypeInv, ClientTypes
    <2>2. waitFor'[c].id = nextId[c]
      BY DEF SendRequest, Numbered, TypeInv, ClientTypes
    <2> QED BY <1>1, <2>1, <2>2 DEF TypeInv, Waits
  <1> QED BY <1>1, <1>2, <1>3, <1>4, <1>5 DEF TypeInv, ClientTypes

\* The end of a request adds one entry to the history.
LEMMA CompleteTyped ==
  ASSUME TypeInv, NEW c \in Clients, cState[c] = "waiting", NEW ending \in Endings,
         NEW of \in Works \cup {None}, Complete(c, ending, of)
  PROVE  /\ results' \in [Clients -> Seq(Entries)]
         /\ cState' \in [Clients -> {"start", "waiting", "ready", "closed"}]
         /\ cOpen' \in [Clients -> BOOLEAN]
         /\ UNCHANGED <<waitFor, nextId>>
         /\ Waits'
  <1> DEFINE e == [id |-> waitFor[c].id, method |-> waitFor[c].method, ending |-> ending,
                   of |-> of]
  <1>1. e \in Entries
    BY DEF TypeInv, ClientTypes, Waits, Entries
  <1>2. Append(results[c], e) \in Seq(Entries)
    BY <1>1, AppendProperties DEF TypeInv, ClientTypes
  <1>3. results' = [results EXCEPT ![c] = Append(@, e)]
    BY DEF Complete
  <1> HIDE DEF e
  <1>4. results' \in [Clients -> Seq(Entries)]
    BY <1>2, <1>3 DEF TypeInv, ClientTypes
  <1>5. /\ cState' \in [Clients -> {"start", "waiting", "ready", "closed"}]
        /\ cState'[c] # "waiting"
        /\ \A d \in Clients \ {c} : cState'[d] = cState[d]
        /\ UNCHANGED <<waitFor, nextId>>
    BY DEF Complete, TypeInv, ClientTypes
  <1>6. cOpen' \in [Clients -> BOOLEAN]
    BY DEF Complete, TypeInv, LinkTypes
  <1>7. Waits'
    BY <1>5 DEF TypeInv, Waits
  <1> QED BY <1>4, <1>5, <1>6, <1>7

\* The messages that handlers write.
LEMMA ResponseTyped ==
  ASSUME NEW id \in Ids, NEW ending \in Answered, NEW of \in Works \cup {None}
  PROVE  Response(id, ending, of) \in Messages /\ Says(Response(id, ending, of))
  BY DEF Response, Messages, Answered, Endings, Says

\* A heartbeat names the state of a work that is not finished.
LEMMA HeartbeatTyped ==
  ASSUME NEW id \in Ids, NEW state \in {"queued", "executing"}
  PROVE  Heartbeat(id, state) \in Messages /\ Says(Heartbeat(id, state))
  BY DEF Heartbeat, Messages, Says

-------------------------------------------------------------------------------
(* One lemma for each part of the system that takes a step.                *)
LEMMA ClientTyped ==
  ASSUME TypeInv, NEW c \in Clients,
         \/ Connect(c) \/ \E method \in Methods : Request(c, method)
         \/ ClientReads(c) \/ Timeout(c) \/ Interrupt(c)
  PROVE  TypeInv'
  <1>t. ClientTypes /\ LinkTypes /\ HandlerTypes /\ OwnerTypes /\ ServerTypes
        /\ Waits /\ Executes /\ Responds
    BY DEF TypeInv
  <1>1. CASE Connect(c)
    <2>1. PICK method \in Methods : SendRequest(c, method) /\
            up' = [up EXCEPT ![c] = <<[id |-> Numbered(c), method |-> method]>>]
      BY <1>1 DEF Connect, Methods
    <2>2. ClientTypes' /\ Waits' /\ nextId[c] \in Ids
      BY <1>1, <2>1, SendTyped DEF Connect
    <2>3. up' \in [Clients -> Seq(Requests)]
      <3>1. [id |-> Numbered(c), method |-> method] \in Requests
        BY <2>2 DEF Numbered, Requests
      <3>2. <<[id |-> Numbered(c), method |-> method]>> \in Seq(Requests)
        BY <3>1
      <3> QED BY <1>t, <2>1, <3>2 DEF LinkTypes
    <2>4. LinkTypes' /\ Responds'
      BY <1>1, <1>t, <2>3 DEF Connect, LinkTypes, Responds
    <2>5. HandlerTypes' /\ Executes'
      BY <1>1, <1>t DEF Connect, HandlerTypes, Executes
    <2>6. OwnerTypes' /\ ServerTypes'
      BY <1>1, <1>t DEF Connect, ownerVars, OwnerTypes, ServerTypes
    <2> QED BY <2>2, <2>4, <2>5, <2>6 DEF TypeInv
  <1>2. ASSUME NEW method \in Methods, Request(c, method) PROVE TypeInv'
    <2>1. ClientTypes' /\ Waits' /\ nextId[c] \in Ids
      BY <1>2, SendTyped DEF Request
    <2>2. up' \in [Clients -> Seq(Requests)]
      <3>1. [id |-> Numbered(c), method |-> method] \in Requests
        BY <2>1 DEF Numbered, Requests
      <3>2. Append(up[c], [id |-> Numbered(c), method |-> method]) \in Seq(Requests)
        BY <1>t, <3>1, AppendProperties DEF LinkTypes
      <3> QED BY <1>2, <1>t, <3>2 DEF Request, LinkTypes
    <2>3. LinkTypes' /\ Responds'
      BY <1>2, <1>t, <2>2 DEF Request, LinkTypes, Responds
    <2>4. HandlerTypes' /\ Executes' /\ OwnerTypes' /\ ServerTypes'
      BY <1>2, <1>t DEF Request, handlerVars, ownerVars, HandlerTypes, Executes, OwnerTypes,
                        ServerTypes
    <2> QED BY <2>1, <2>3, <2>4 DEF TypeInv
  <1>3. ASSUME NEW ending \in Endings, NEW of \in Works \cup {None}, cState[c] = "waiting",
               Complete(c, ending, of), latched' \in [Clients -> BOOLEAN],
               down' \in [Clients -> Seq(Messages)], Responds',
               UNCHANGED <<up, sOpen, handlerVars, ownerVars, server>>
        PROVE  TypeInv'
    <2>1. /\ results' \in [Clients -> Seq(Entries)]
          /\ cState' \in [Clients -> {"start", "waiting", "ready", "closed"}]
          /\ cOpen' \in [Clients -> BOOLEAN]
          /\ UNCHANGED <<waitFor, nextId>>
          /\ Waits'
      BY <1>3, CompleteTyped
    <2>2. ClientTypes'
      BY <1>3, <1>t, <2>1 DEF ClientTypes
    <2>3. LinkTypes'
      BY <1>3, <1>t, <2>1 DEF LinkTypes
    <2>4. HandlerTypes' /\ Executes' /\ OwnerTypes' /\ ServerTypes'
      BY <1>3, <1>t DEF handlerVars, ownerVars, HandlerTypes, Executes, OwnerTypes, ServerTypes
    <2> QED BY <1>3, <2>1, <2>2, <2>3, <2>4 DEF TypeInv
  <1>n. None \in Works \cup {None}
    OBVIOUS
  <1>4. CASE Receive(c)
    <2> DEFINE m == Head(down[c])
    <2>1. /\ down' \in [Clients -> Seq(Messages)] /\ Responds'
          /\ m \in Messages /\ Says(m)
      BY <1>4, TakeDown DEF Receive
    <2> HIDE DEF m
    <2>2. latched' \in [Clients -> BOOLEAN] /\ cState[c] = "waiting"
          /\ UNCHANGED <<up, sOpen, handlerVars, ownerVars, server>>
      BY <1>4, <1>t DEF Receive, ClientTypes
    <2>3. \/ Complete(c, "protocol", None)
          \/ m.kind = "response" /\ Complete(c, m.ending, m.of)
          \/ UNCHANGED <<cState, waitFor, nextId, results, cOpen>>
      BY <1>4 DEF Receive, m
    <2>4. CASE Complete(c, "protocol", None)
      <3>1. "protocol" \in Endings
        BY DEF Endings
      <3> QED BY <1>3, <1>n, <2>1, <2>2, <2>4, <3>1
    <2>5. CASE m.kind = "response" /\ Complete(c, m.ending, m.of)
      <3>1. m.ending \in Endings /\ m.of \in Works \cup {None}
        BY <2>1, <2>5 DEF Says, Answered, Endings, Messages
      <3> QED BY <1>3, <2>1, <2>2, <2>5, <3>1
    <2>6. CASE UNCHANGED <<cState, waitFor, nextId, results, cOpen>>
      <3>1. ClientTypes' /\ LinkTypes' /\ Waits'
        BY <1>t, <2>1, <2>2, <2>6 DEF ClientTypes, LinkTypes, Waits
      <3>2. HandlerTypes' /\ Executes' /\ OwnerTypes' /\ ServerTypes'
        BY <2>2, <1>t DEF handlerVars, ownerVars, HandlerTypes, Executes, OwnerTypes,
                          ServerTypes
      <3> QED BY <2>1, <3>1, <3>2 DEF TypeInv
    <2> QED BY <2>3, <2>4, <2>5, <2>6
  <1>5. CASE ReceiveNothing(c) \/ Timeout(c) \/ Interrupt(c)
    <2>1. PICK ending \in Endings : Complete(c, ending, None)
      BY <1>5 DEF ReceiveNothing, Timeout, Interrupt, Endings
    <2>2. latched' \in [Clients -> BOOLEAN]
      BY <1>5, <1>t DEF ReceiveNothing, Timeout, Interrupt, ClientTypes
    <2>3. /\ down' = down /\ cState[c] = "waiting"
          /\ UNCHANGED <<up, sOpen, handlerVars, ownerVars, server>>
      BY <1>5 DEF ReceiveNothing, Timeout, Interrupt
    <2>4. down' \in [Clients -> Seq(Messages)] /\ Responds'
      BY <1>t, <2>3 DEF LinkTypes, Responds
    <2> QED BY <1>3, <1>n, <2>1, <2>2, <2>3, <2>4
  <1> QED BY <1>1, <1>2, <1>4, <1>5 DEF ClientReads

\* A step of the handler of c.
LEMMA HandlerTyped ==
  ASSUME TypeInv, NEW c \in Clients, HandlerStep(c) \/ SendHeartbeat(c)
  PROVE  TypeInv'
  <1>t. ClientTypes /\ LinkTypes /\ HandlerTypes /\ OwnerTypes /\ ServerTypes
        /\ Waits /\ Executes /\ Responds
    BY DEF TypeInv
  <1>c. UNCHANGED clientVars /\ UNCHANGED <<cOpen, server>>
    BY DEF HandlerStep, HandleHandshake, HandleExecute, HandleOther, HandleClose,
           HandlerDisconnected, HandlerAnswers, SendHeartbeat
  <1>u. ClientTypes' /\ Waits' /\ ServerTypes'
    BY <1>c, <1>t DEF clientVars, ClientTypes, Waits, ServerTypes
  <1>n. None \in Works \cup {None}
    OBVIOUS
  <1>1. ASSUME NEW m \in Messages, Says(m), Respond(c, m),
               up' \in [Clients -> Seq(Requests)], session' \in [Clients -> BOOLEAN],
               UNCHANGED <<hId, connected, ownerVars>>
        PROVE  TypeInv'
    <2>1. /\ down' \in [Clients -> Seq(Messages)] /\ Responds'
          /\ hState' \in [Clients -> {"none", "reading", "executing", "gone"}]
          /\ sOpen' \in [Clients -> BOOLEAN]
          /\ Executes'
      BY <1>1, RespondTyped
    <2>2. LinkTypes' /\ HandlerTypes'
      BY <1>1, <1>c, <1>t, <2>1 DEF LinkTypes, HandlerTypes
    <2>3. OwnerTypes'
      BY <1>1, <1>t DEF ownerVars, OwnerTypes
    <2> QED BY <1>u, <2>1, <2>2, <2>3 DEF TypeInv
  <1>2. CASE HandleHandshake(c)
    <2>1. PICK request \in Incoming(c), ok \in BOOLEAN :
            /\ up' = [up EXCEPT ![c] = Tail(@)]
            /\ session' = [session EXCEPT ![c] = ok]
            /\ Respond(c, Response(request.id, IF ok THEN "result" ELSE "rejected", None))
            /\ UNCHANGED <<hId, connected, ownerVars>>
      BY <1>2 DEF HandleHandshake
    <2>2. request \in Requests /\ up' \in [Clients -> Seq(Requests)]
      BY <2>1, IncomingTyped
    <2> DEFINE m == Response(request.id, IF ok THEN "result" ELSE "rejected", None)
    <2>3. m \in Messages /\ Says(m)
      BY <1>n, <2>2, ResponseTyped DEF Requests, Answered
    <2>4. session' \in [Clients -> BOOLEAN]
      BY <2>1, <1>t DEF HandlerTypes
    <2> HIDE DEF m
    <2>5. Respond(c, m)
      BY <2>1 DEF m
    <2> QED BY <1>1, <2>1, <2>2, <2>3, <2>4, <2>5
  <1>3. CASE HandleExecute(c)
    <2>1. PICK request \in Incoming(c) :
            /\ up' = [up EXCEPT ![c] = Tail(@)]
            /\ queue' = Append(queue, <<c, request.id>>)
            /\ hId' = [hId EXCEPT ![c] = request.id]
      BY <1>3 DEF HandleExecute
    <2>2. /\ workState' = [workState EXCEPT ![c] = "queued"]
          /\ connected' = [connected EXCEPT ![c] = TRUE]
          /\ hState' = [hState EXCEPT ![c] = "executing"]
          /\ UNCHANGED <<down, sOpen, session, running, ownerUp, executorOpen, executed>>
      BY <1>3 DEF HandleExecute
    <2>3. request.id \in Ids /\ up' \in [Clients -> Seq(Requests)]
      BY <2>1, IncomingTyped DEF Requests
    <2>4. <<c, request.id>> \in Works
      BY <2>3 DEF Works
    <2>5. queue' \in Seq(Works \cup {Stop})
      BY <1>t, <2>1, <2>4, AppendProperties DEF OwnerTypes
    <2>6. workState' \in [Clients -> WorkStates]
      BY <1>t, <2>2 DEF OwnerTypes, WorkStates
    <2>7. OwnerTypes'
      BY <1>t, <2>2, <2>5, <2>6 DEF OwnerTypes
    <2>8. LinkTypes' /\ Responds'
      BY <1>c, <1>t, <2>2, <2>3 DEF LinkTypes, Responds
    <2>9. HandlerTypes'
      BY <1>t, <2>1, <2>2, <2>3 DEF HandlerTypes
    <2>10. Executes'
      BY <1>t, <2>1, <2>2, <2>3 DEF HandlerTypes, Executes
    <2> QED BY <1>u, <2>7, <2>8, <2>9, <2>10 DEF TypeInv
  <1>4. CASE HandleOther(c)
    <2>1. PICK request \in Incoming(c) :
            /\ up' = [up EXCEPT ![c] = Tail(@)]
            /\ Respond(c, Response(request.id,
                           IF request.method = "ping" THEN "result" ELSE "rejected", None))
            /\ UNCHANGED <<session, hId, connected, ownerVars>>
      BY <1>4 DEF HandleOther
    <2>2. request \in Requests /\ up' \in [Clients -> Seq(Requests)]
      BY <2>1, IncomingTyped
    <2> DEFINE m == Response(request.id,
                             IF request.method = "ping" THEN "result" ELSE "rejected", None)
    <2>3. m \in Messages /\ Says(m)
      BY <1>n, <2>2, ResponseTyped DEF Requests, Answered
    <2>4. session' \in [Clients -> BOOLEAN]
      BY <2>1, <1>t DEF HandlerTypes
    <2> HIDE DEF m
    <2>5. Respond(c, m)
      BY <2>1 DEF m
    <2> QED BY <1>1, <2>1, <2>2, <2>3, <2>4, <2>5
  <1>5. ASSUME HandlerGone(c), UNCHANGED <<session, hId, connected, ownerVars>>,
               up' \in [Clients -> Seq(Requests)],
               down' \in [Clients -> Seq(Messages)], Responds'
        PROVE  TypeInv'
    <2>1. LinkTypes'
      BY <1>5, <1>c, <1>t DEF HandlerGone, LinkTypes
    <2>2. HandlerTypes'
      BY <1>5, <1>t DEF HandlerGone, HandlerTypes
    <2>3. Executes'
      BY <1>5, <1>t DEF HandlerGone, HandlerTypes, Executes
    <2>4. OwnerTypes'
      BY <1>5, <1>t DEF ownerVars, OwnerTypes
    <2> QED BY <1>5, <1>u, <2>1, <2>2, <2>3, <2>4 DEF TypeInv
  <1>6. CASE HandleClose(c)
    <2>1. PICK request \in Incoming(c) :
            /\ up' = [up EXCEPT ![c] = Tail(@)]
            /\ down' = IF cOpen[c]
                       THEN [down EXCEPT ![c] = Append(@, Response(request.id, "result", None))]
                       ELSE down
            /\ HandlerGone(c)
            /\ UNCHANGED <<session, hId, connected, ownerVars>>
      BY <1>6 DEF HandleClose
    <2>2. request \in Requests /\ up' \in [Clients -> Seq(Requests)]
      BY <2>1, IncomingTyped
    <2> DEFINE m == Response(request.id, "result", None)
    <2>3. m \in Messages /\ Says(m)
      BY <1>n, <2>2, ResponseTyped DEF Requests, Answered
    <2> HIDE DEF m
    <2>4. down' \in [Clients -> Seq(Messages)] /\ Responds'
      <3>1. CASE cOpen[c]
        BY <2>1, <2>3, <3>1, PutDown DEF m
      <3>2. CASE ~cOpen[c]
        BY <1>t, <2>1, <3>2 DEF LinkTypes, Responds
      <3> QED BY <3>1, <3>2
    <2> QED BY <1>5, <2>1, <2>2, <2>4
  <1>7. CASE HandlerDisconnected(c)
    <2>1. up' \in [Clients -> Seq(Requests)] /\ down' \in [Clients -> Seq(Messages)]
          /\ Responds'
      BY <1>7, <1>t DEF HandlerDisconnected, LinkTypes, Responds
    <2> QED BY <1>5, <1>7, <2>1 DEF HandlerDisconnected
  <1>8. CASE HandlerAnswers(c)
    <2>1. /\ hState[c] = "executing" /\ workState[c] \in {"result", "error", "refused"}
          /\ UNCHANGED <<up, session, hId, connected, ownerVars>>
      BY <1>8 DEF HandlerAnswers
    <2>2. up' \in [Clients -> Seq(Requests)] /\ session' \in [Clients -> BOOLEAN]
      BY <1>t, <2>1 DEF LinkTypes, HandlerTypes
    <2>3. CASE connected[c]
      <3> DEFINE m == Response(hId[c], workState[c], <<c, hId[c]>>)
      <3>1. hId[c] \in Ids
        BY <1>t, <2>1 DEF Executes
      <3>2. <<c, hId[c]>> \in Works \cup {None}
        BY <3>1 DEF Works
      <3>3. m \in Messages /\ Says(m)
        BY <2>1, <3>1, <3>2, ResponseTyped DEF Answered
      <3> HIDE DEF m
      <3>4. Respond(c, m)
        BY <1>8, <2>3 DEF HandlerAnswers, m
      <3> QED BY <1>1, <2>1, <2>2, <3>3, <3>4
    <2>4. CASE ~connected[c]
      <3>1. HandlerGone(c) /\ UNCHANGED down
        BY <1>8, <2>4 DEF HandlerAnswers
      <3>2. down' \in [Clients -> Seq(Messages)] /\ Responds'
        BY <1>t, <3>1 DEF LinkTypes, Responds
      <3> QED BY <1>5, <2>1, <2>2, <3>1, <3>2
    <2> QED BY <2>3, <2>4
  <1>9. CASE SendHeartbeat(c)
    <2>1. /\ hState[c] = "executing" /\ workState[c] \in {"queued", "executing"}
          /\ UNCHANGED <<up, sOpen, hState, session, hId, ownerVars>>
      BY <1>9 DEF SendHeartbeat
    <2> DEFINE m == Heartbeat(hId[c], workState[c])
    <2>2. m \in Messages /\ Says(m)
      BY <1>t, <2>1, HeartbeatTyped DEF Executes
    <2> HIDE DEF m
    <2>3. down' \in [Clients -> Seq(Messages)] /\ Responds'
      <3>1. CASE cOpen[c]
        <4>1. down' = [down EXCEPT ![c] = Append(@, m)]
          BY <1>9, <3>1 DEF SendHeartbeat, m
        <4> QED BY <2>2, <4>1, PutDown
      <3>2. CASE ~cOpen[c]
        BY <1>9, <1>t, <3>2 DEF SendHeartbeat, LinkTypes, Responds
      <3> QED BY <3>1, <3>2
    <2>4. connected' \in [Clients -> BOOLEAN]
      BY <1>9, <1>t DEF SendHeartbeat, HandlerTypes
    <2>5. LinkTypes' /\ HandlerTypes'
      BY <1>c, <1>t, <2>1, <2>3, <2>4 DEF LinkTypes, HandlerTypes
    <2>6. Executes' /\ OwnerTypes'
      BY <1>t, <2>1 DEF Executes, ownerVars, OwnerTypes
    <2> QED BY <1>u, <2>3, <2>5, <2>6 DEF TypeInv
  <1> QED BY <1>2, <1>3, <1>4, <1>6, <1>7, <1>8, <1>9 DEF HandlerStep

\* A step of the worker or of a server that stops.
LEMMA OwnerTyped ==
  ASSUME TypeInv, WorkerStep \/ StopServing \/ StopStep
  PROVE  TypeInv'
  <1>t. ClientTypes /\ LinkTypes /\ HandlerTypes /\ OwnerTypes /\ ServerTypes
        /\ Waits /\ Executes /\ Responds
    BY DEF TypeInv
  <1>1. /\ UNCHANGED clientVars /\ UNCHANGED <<up, down, cOpen, session, hId, connected>>
    BY DEF WorkerStep, WorkerTakes, WorkerFinishes, StopServing, StopStep, JoinEnds,
           ExecutorCloses, Exit, linkVars, handlerVars
  <1>2. ClientTypes' /\ Waits' /\ Responds'
    BY <1>1, <1>t DEF clientVars, ClientTypes, Waits, Responds
  <1>3. /\ sOpen' \in [Clients -> BOOLEAN]
        /\ hState' \in [Clients -> {"none", "reading", "executing", "gone"}]
        /\ Executes'
    <2>1. CASE Exit
      BY <1>1, <1>t, <2>1 DEF Exit, Executes, HandlerTypes
    <2>2. CASE ~Exit
      <3>1. UNCHANGED <<sOpen, hState, hId>>
        BY <2>2 DEF WorkerStep, WorkerTakes, WorkerFinishes, StopServing, StopStep, JoinEnds,
                    ExecutorCloses, linkVars, handlerVars
      <3> QED BY <1>t, <3>1 DEF LinkTypes, HandlerTypes, Executes
    <2> QED BY <2>1, <2>2
  <1>4. LinkTypes' /\ HandlerTypes'
    BY <1>1, <1>3, <1>t DEF LinkTypes, HandlerTypes
  <1>5. ServerTypes'
    BY <1>t DEF WorkerStep, WorkerTakes, WorkerFinishes, StopServing, StopStep, JoinEnds,
                ExecutorCloses, Exit, ServerTypes
  <1>6. OwnerTypes'
    <2>1. CASE WorkerTakes
      <3>1. Head(queue) \in Works \cup {Stop} /\ Tail(queue) \in Seq(Works \cup {Stop})
        BY <1>t, <2>1, HeadTailProperties DEF WorkerTakes, OwnerTypes
      <3>2. CASE Head(queue) = Stop
        BY <1>t, <2>1, <3>1, <3>2 DEF WorkerTakes, OwnerTypes
      <3>3. CASE Head(queue) # Stop
        <4>1. /\ running' = Head(queue) /\ queue' = Tail(queue)
              /\ workState' = [workState EXCEPT ![Head(queue)[1]] = "executing"]
              /\ UNCHANGED <<ownerUp, executorOpen, executed>>
          BY <2>1, <3>3 DEF WorkerTakes
        <4>2. workState' \in [Clients -> WorkStates]
          BY <1>t, <4>1 DEF OwnerTypes, WorkStates
        <4> QED BY <1>t, <3>1, <3>3, <4>1, <4>2 DEF OwnerTypes
      <3> QED BY <3>2, <3>3
    <2>2. CASE WorkerFinishes
      <3>1. PICK ending \in {"result", "error", "refused"} :
              /\ workState' = [workState EXCEPT ![running[1]] = ending]
              /\ executed' = IF ending = "refused" THEN executed ELSE Append(executed, running)
        BY <2>2 DEF WorkerFinishes
      <3>2. running \in Works /\ running' = None
            /\ UNCHANGED <<queue, ownerUp, executorOpen>>
        BY <1>t, <2>2 DEF WorkerFinishes, OwnerTypes
      <3>3. workState' \in [Clients -> WorkStates]
        BY <1>t, <3>1 DEF OwnerTypes, WorkStates
      <3>4. executed' \in Seq(Works)
        BY <1>t, <3>1, <3>2, AppendProperties DEF OwnerTypes
      <3> QED BY <1>t, <3>2, <3>3, <3>4 DEF OwnerTypes
    <2>3. CASE StopServing
      <3>1. Stop \in Works \cup {Stop}
        OBVIOUS
      <3>2. queue' \in Seq(Works \cup {Stop})
        BY <1>t, <2>3, <3>1, AppendProperties DEF StopServing, OwnerTypes
      <3> QED BY <1>t, <2>3, <3>2 DEF StopServing, OwnerTypes
    <2>4. CASE JoinEnds \/ ExecutorCloses
      BY <1>t, <2>4 DEF JoinEnds, ExecutorCloses, ownerVars, OwnerTypes
    <2>5. CASE Exit
      <3>1. <<>> \in Seq(Works \cup {Stop})
        BY EmptySeq
      <3> QED BY <1>t, <2>5, <3>1 DEF Exit, OwnerTypes
    <2> QED BY <2>1, <2>2, <2>3, <2>4, <2>5 DEF WorkerStep, StopStep
  <1> QED BY <1>2, <1>3, <1>4, <1>5, <1>6 DEF TypeInv

\* No connection has been made yet.
LEMMA InitTyped == Init => TypeInv
  <1> SUFFICES ASSUME Init PROVE TypeInv
    OBVIOUS
  <1>1. ClientTypes
    <2>1. 1 \in 1..(MaxRequests + 1)
      BY BoundsAssumption
    <2>2. <<>> \in Seq(Entries)
      BY EmptySeq
    <2>3. [id |-> 0, method |-> "ping"] \in [id : Ids \cup {0}, method : Methods]
      BY DEF Methods
    <2> QED BY <2>1, <2>2, <2>3 DEF Init, ClientTypes
  <1>2. LinkTypes
    <2>1. <<>> \in Seq(Requests) /\ <<>> \in Seq(Messages)
      BY EmptySeq
    <2> QED BY <2>1 DEF Init, LinkTypes
  <1>3. HandlerTypes
    BY DEF Init, HandlerTypes
  <1>4. OwnerTypes
    <2>1. <<>> \in Seq(Works) /\ <<>> \in Seq(Works \cup {Stop})
      BY EmptySeq
    <2> QED BY <2>1 DEF Init, OwnerTypes, WorkStates
  <1>5. ServerTypes /\ Waits /\ Executes /\ Responds
    BY DEF Init, ServerTypes, Waits, Executes, Responds
  <1> QED BY <1>1, <1>2, <1>3, <1>4, <1>5 DEF TypeInv

\* All steps.
LEMMA NextTyped == TypeInv /\ [Next]_vars => TypeInv'
  <1> SUFFICES ASSUME TypeInv, [Next]_vars PROVE TypeInv'
    OBVIOUS
  <1>1. ASSUME NEW c \in Clients,
               \/ Connect(c) \/ \E method \in Methods : Request(c, method)
               \/ ClientReads(c) \/ Timeout(c) \/ Interrupt(c)
               \/ HandlerStep(c) \/ SendHeartbeat(c)
        PROVE  TypeInv'
    BY <1>1, ClientTyped, HandlerTyped
  <1>2. CASE WorkerStep \/ StopServing \/ StopStep
    BY <1>2, OwnerTyped
  <1>3. CASE UNCHANGED vars
    <2> USE <1>3 DEF vars, TypeInv
    <2>1. ClientTypes' /\ Waits'
      BY DEF clientVars, ClientTypes, Waits
    <2>2. LinkTypes' /\ Responds'
      BY DEF linkVars, LinkTypes, Responds
    <2>3. HandlerTypes' /\ Executes'
      BY DEF handlerVars, HandlerTypes, Executes
    <2>4. OwnerTypes' /\ ServerTypes'
      BY DEF ownerVars, OwnerTypes, ServerTypes
    <2> QED BY <2>1, <2>2, <2>3, <2>4
  <1> QED BY <1>1, <1>2, <1>3 DEF Next

(* Every variable keeps its type, whatever the clients send and whenever   *)
(* they give up: no step needs a value that may not be there.              *)
THEOREM TypeCorrect == Spec => []TypeOK
  <1> QED BY InitTyped, NextTyped, TypeInvType, PTL DEF Spec

-------------------------------------------------------------------------------
(* The order of the requests of one connection: those that have run, the   *)
(* one the handler executes, those on their way, those not sent yet.       *)
StartOK == \A c \in Clients : cState[c] = "start" => hState[c] = "none"

UpOK ==
  \A c \in Clients :
    /\ hId[c] < nextId[c]
    /\ \A k \in DOMAIN up[c] : hId[c] < up[c][k].id /\ up[c][k].id < nextId[c]
    /\ \A j, k \in DOMAIN up[c] : j < k => up[c][j].id < up[c][k].id

\* The work w is the one that a handler waits for, and has come that far:
\* states, ids and works are hState, hId and workState.
Pending(states, ids, works, w, state) ==
  \E c \in Clients : w = <<c, ids[c]>> /\ states[c] = "executing" /\ works[c] = state

QueueOK ==
  /\ \A k \in DOMAIN queue :
       queue[k] # Stop => Pending(hState, hId, workState, queue[k], "queued")
  /\ \A j, k \in DOMAIN queue : queue[j] = queue[k] /\ queue[k] # Stop => j = k
RunningOK == running # None => Pending(hState, hId, workState, running, "executing")

Unfinished(c) == hState[c] = "executing" /\ workState[c] \in {"queued", "executing"}

\* What has run of c came before the request its handler executes.
ExecutedOK ==
  \A k \in DOMAIN executed : \A c \in Clients :
    executed[k][1] = c =>
      /\ executed[k][2] <= hId[c]
      /\ Unfinished(c) => executed[k][2] < hId[c]
      /\ session[c]

SessionOK == \A c \in Clients : workState[c] # "none" => session[c]

Ordered  == StartOK /\ UpOK /\ QueueOK /\ RunningOK /\ ExecutedOK /\ SessionOK /\ RunOnceInOrder
OrderInv == TypeInv /\ Ordered

\* What no step of a client or of a handler that reads touches.
workVars == <<queue, running, workState, executed>>

-------------------------------------------------------------------------------
(* A step of the handler of c that has no work before it and none after it *)
(* keeps all that is said of works.                                        *)
LEMMA PendingElsewhere ==
  ASSUME NEW c \in Clients, NEW w, NEW state,
         hState[c] # "executing" \/ workState[c] # state,
         \A d \in Clients \ {c} : hState'[d] = hState[d] /\ hId'[d] = hId[d]
                                  /\ workState'[d] = workState[d],
         Pending(hState, hId, workState, w, state)
  PROVE  Pending(hState', hId', workState', w, state)
  BY DEF Pending

\* A handler that has no unfinished work may read, answer or end.
LEMMA IdleHandler ==
  ASSUME OrderInv, NEW c \in Clients, ~Unfinished(c),
         \A d \in Clients \ {c} : hState'[d] = hState[d] /\ session'[d] = session[d],
         hState'[c] # "executing", session[c] => session'[c],
         UNCHANGED workVars, UNCHANGED hId
  PROVE  QueueOK' /\ RunningOK' /\ ExecutedOK' /\ SessionOK' /\ RunOnceInOrder'
  <1>1. QueueOK /\ RunningOK /\ ExecutedOK /\ SessionOK /\ RunOnceInOrder
    BY DEF OrderInv, Ordered
  <1>2. /\ UNCHANGED <<queue, running, executed, workState, hId>>
        /\ \A d \in Clients \ {c} : hState'[d] = hState[d] /\ hId'[d] = hId[d]
                                    /\ workState'[d] = workState[d]
    BY DEF workVars
  <1>3. ASSUME NEW w, NEW state \in {"queued", "executing"},
               Pending(hState, hId, workState, w, state)
        PROVE  Pending(hState', hId', workState', w, state)
    <2>1. hState[c] # "executing" \/ workState[c] # state
      BY DEF Unfinished
    <2> QED BY <1>2, <1>3, <2>1, PendingElsewhere
  <1>4. QueueOK'
    BY <1>1, <1>2, <1>3 DEF QueueOK
  <1>5. RunningOK'
    BY <1>1, <1>2, <1>3 DEF RunningOK
  <1>6. ExecutedOK'
    BY <1>1, <1>2 DEF ExecutedOK, Unfinished
  <1>7. SessionOK'
    BY <1>1, <1>2 DEF SessionOK
  <1>8. RunOnceInOrder'
    BY <1>1, <1>2 DEF RunOnceInOrder
  <1> QED BY <1>4, <1>5, <1>6, <1>7, <1>8

\* A step that leaves the handlers and the works alone.
LEMMA NoHandler ==
  ASSUME OrderInv, UNCHANGED workVars, UNCHANGED <<hState, hId, session>>
  PROVE  QueueOK' /\ RunningOK' /\ ExecutedOK' /\ SessionOK' /\ RunOnceInOrder'
  BY DEF OrderInv, Ordered, workVars, QueueOK, RunningOK, ExecutedOK, SessionOK,
         RunOnceInOrder, Unfinished

\* Taking the first request keeps the others in order behind it.
LEMMA UpTake ==
  ASSUME OrderInv, NEW c \in Clients, NEW request \in Incoming(c),
         up' = [up EXCEPT ![c] = Tail(@)], UNCHANGED nextId,
         hId' = hId \/ hId' = [hId EXCEPT ![c] = request.id]
  PROVE  /\ UpOK'
         /\ hId[c] < request.id /\ request.id < nextId[c]
         /\ \A k \in DOMAIN up'[c] : request.id < up'[c][k].id
         /\ \A k \in DOMAIN up'[c] : k + 1 \in DOMAIN up[c] /\ up'[c][k] = up[c][k + 1]
         /\ request = up[c][1] /\ 1 \in DOMAIN up[c] /\ hState[c] = "reading"
  <1>1. UpOK /\ TypeInv
    BY DEF OrderInv, Ordered
  <1>2. up[c] \in Seq(Requests) /\ up[c] # <<>> /\ request = Head(up[c])
        /\ hState[c] = "reading"
    BY <1>1 DEF TypeInv, LinkTypes, Incoming
  <1>3. /\ Len(Tail(up[c])) = Len(up[c]) - 1
        /\ Tail(up[c]) \in Seq(Requests)
        /\ \A k \in 1..Len(Tail(up[c])) : Tail(up[c])[k] = up[c][k + 1]
    BY <1>2, HeadTailProperties
  <1>4. /\ DOMAIN up[c] = 1..Len(up[c]) /\ Len(up[c]) \in Nat \ {0}
        /\ DOMAIN Tail(up[c]) = 1..(Len(up[c]) - 1)
    BY <1>2, <1>3, LenProperties, EmptySeq
  <1>5. request = up[c][1] /\ 1 \in DOMAIN up[c]
    BY <1>2, <1>4
  <1>6. up'[c] = Tail(up[c]) /\ \A d \in Clients \ {c} : up'[d] = up[d]
    BY <1>1 DEF TypeInv, LinkTypes
  <1>7. \A k \in DOMAIN up'[c] : k + 1 \in DOMAIN up[c] /\ up'[c][k] = up[c][k + 1]
    <2>1. \A k \in 1..(Len(up[c]) - 1) : Tail(up[c])[k] = up[c][k + 1]
      BY <1>3
    <2>2. \A k \in 1..(Len(up[c]) - 1) : k + 1 \in DOMAIN up[c]
      BY <1>4
    <2>3. DOMAIN up'[c] = 1..(Len(up[c]) - 1)
      BY <1>4, <1>6
    <2> QED BY <1>6, <2>1, <2>2, <2>3
  <1>8. \A k \in DOMAIN up'[c] : k \in Nat \ {0}
    BY <1>4, <1>6
  <1>9. \A k \in DOMAIN up'[c] : request.id < up'[c][k].id
    <2> TAKE k \in DOMAIN up'[c]
    <2>1. 1 < k + 1 /\ k + 1 \in DOMAIN up[c]
      BY <1>7, <1>8
    <2>2. up[c][1].id < up[c][k + 1].id
      BY <1>1, <1>5, <2>1 DEF UpOK
    <2> QED BY <1>5, <1>7, <2>2
  <1>10. hId[c] < request.id /\ request.id < nextId[c]
    BY <1>1, <1>5 DEF UpOK
  <1>11. ASSUME NEW d \in Clients
         PROVE  /\ hId'[d] < nextId'[d]
                /\ \A k \in DOMAIN up'[d] : hId'[d] < up'[d][k].id /\ up'[d][k].id < nextId'[d]
                /\ \A j, k \in DOMAIN up'[d] : j < k => up'[d][j].id < up'[d][k].id
    <2>1. CASE d # c
      <3>1. hId'[d] = hId[d]
        BY <1>1, <2>1 DEF TypeInv, HandlerTypes
      <3> QED BY <1>1, <1>6, <2>1, <3>1 DEF UpOK
    <2>2. CASE d = c
      <3>1. hId'[c] \in {hId[c], request.id}
        BY <1>1 DEF TypeInv, HandlerTypes
      <3>2. hId'[c] < nextId'[c]
        BY <1>1, <1>10, <3>1 DEF UpOK
      <3>3. ASSUME NEW k \in DOMAIN up'[c]
            PROVE  hId'[c] < up'[c][k].id /\ up'[c][k].id < nextId'[c]
        <4>1. up'[c][k] = up[c][k + 1] /\ k + 1 \in DOMAIN up[c]
          BY <1>7
        <4>2. hId[c] < up[c][k + 1].id /\ up[c][k + 1].id < nextId[c]
          BY <1>1, <4>1 DEF UpOK
        <4> QED BY <1>9, <3>1, <4>1, <4>2
      <3>4. ASSUME NEW j \in DOMAIN up'[c], NEW k \in DOMAIN up'[c], j < k
            PROVE  up'[c][j].id < up'[c][k].id
        <4>1. j + 1 < k + 1 /\ j + 1 \in DOMAIN up[c] /\ k + 1 \in DOMAIN up[c]
          BY <1>7, <1>8, <3>4
        <4>2. up[c][j + 1].id < up[c][k + 1].id
          BY <1>1, <4>1 DEF UpOK
        <4> QED BY <1>7, <4>2
      <3> QED BY <2>2, <3>2, <3>3, <3>4
    <2> QED BY <2>1, <2>2
  <1> QED BY <1>2, <1>5, <1>7, <1>9, <1>10, <1>11 DEF UpOK

\* A new request has a number above all others of its connection.
LEMMA UpPut ==
  ASSUME OrderInv, NEW c \in Clients, nextId[c] \in Ids,
         nextId' = [nextId EXCEPT ![c] = @ + 1], UNCHANGED hId,
         NEW e, e.id = nextId[c],
         \/ up' = [up EXCEPT ![c] = Append(@, e)] /\ e \in Requests
         \/ up' = [up EXCEPT ![c] = <<e>>]
         \/ up' = up
  PROVE  UpOK'
  <1>1. UpOK /\ TypeInv
    BY DEF OrderInv, Ordered
  <1>2. /\ nextId'[c] = nextId[c] + 1 /\ nextId[c] \in Nat
        /\ \A d \in Clients \ {c} : nextId'[d] = nextId[d] /\ up'[d] = up[d]
    BY <1>1 DEF TypeInv, ClientTypes, LinkTypes, Ids
  <1>3. /\ hId[c] \in Nat /\ hId[c] < nextId[c]
        /\ \A k \in DOMAIN up[c] : hId[c] < up[c][k].id /\ up[c][k].id < nextId[c]
                                   /\ up[c][k].id \in Nat
        /\ \A j, k \in DOMAIN up[c] : j < k => up[c][j].id < up[c][k].id
    <2>1. \A k \in DOMAIN up[c] : up[c][k] \in Requests
      <3>1. up[c] \in Seq(Requests)
        BY <1>1 DEF TypeInv, LinkTypes
      <3> QED BY <3>1, LenProperties, ElementOfSeq
    <2>2. \A k \in DOMAIN up[c] : up[c][k].id \in Nat
      BY <2>1 DEF Requests, Ids
    <2>3. hId[c] \in Nat
      BY <1>1 DEF TypeInv, HandlerTypes, Ids
    <2> QED BY <1>1, <2>2, <2>3 DEF UpOK
  <1>4. /\ hId[c] < nextId'[c]
        /\ \A k \in DOMAIN up'[c] : hId[c] < up'[c][k].id /\ up'[c][k].id < nextId'[c]
        /\ \A j, k \in DOMAIN up'[c] : j < k => up'[c][j].id < up'[c][k].id
    <2>1. CASE up' = up
      BY <1>2, <1>3, <2>1
    <2>2. CASE up' = [up EXCEPT ![c] = <<e>>]
      <3>1. up'[c] = <<e>>
        BY <1>1, <2>2 DEF TypeInv, LinkTypes
      <3>2. DOMAIN up'[c] = {1} /\ up'[c][1] = e
        BY <3>1
      <3> QED BY <1>2, <1>3, <3>2
    <2>3. CASE up' = [up EXCEPT ![c] = Append(@, e)] /\ e \in Requests
      <3>1. up'[c] = Append(up[c], e) /\ up[c] \in Seq(Requests)
        BY <1>1, <2>3 DEF TypeInv, LinkTypes
      <3> DEFINE n == Len(up[c]) + 1
      <3>2. /\ up'[c] \in Seq(Requests) /\ Len(up'[c]) = n
            /\ \A k \in 1..Len(up[c]) : up'[c][k] = up[c][k]
            /\ up'[c][n] = e
        BY <2>3, <3>1, AppendProperties
      <3>3. /\ DOMAIN up[c] = 1..(n - 1) /\ DOMAIN up'[c] = 1..n /\ n \in Nat \ {0}
            /\ \A k \in DOMAIN up[c] : up'[c][k] = up[c][k]
        BY <3>1, <3>2, LenProperties
      <3>4. up'[c][n].id = nextId[c]
        BY <3>2
      <3> HIDE DEF n
      <3>5. \A k \in DOMAIN up'[c] : k = n \/ k \in DOMAIN up[c]
        BY <3>3
      <3>6. ASSUME NEW j \in DOMAIN up'[c], NEW k \in DOMAIN up'[c], j < k
            PROVE  up'[c][j].id < up'[c][k].id
        <4>1. j \in DOMAIN up[c]
          BY <3>3, <3>6
        <4>2. CASE k = n
          BY <1>3, <3>3, <3>4, <4>1, <4>2
        <4>3. CASE k \in DOMAIN up[c]
          BY <1>3, <3>3, <3>6, <4>1, <4>3
        <4> QED BY <3>5, <4>2, <4>3
      <3>7. ASSUME NEW k \in DOMAIN up'[c]
            PROVE  hId[c] < up'[c][k].id /\ up'[c][k].id < nextId'[c]
        <4>1. CASE k = n
          BY <1>2, <1>3, <3>4, <4>1
        <4>2. CASE k \in DOMAIN up[c]
          BY <1>2, <1>3, <3>3, <4>2
        <4> QED BY <3>5, <4>1, <4>2
      <3> QED BY <1>2, <1>3, <3>6, <3>7
    <2> QED BY <2>1, <2>2, <2>3
  <1> QED BY <1>1, <1>2, <1>4 DEF UpOK

-------------------------------------------------------------------------------
\* What a sequence is with one more element.
LEMMA PutLast ==
  ASSUME NEW S, NEW s \in Seq(S), NEW e \in S
  PROVE  /\ Append(s, e) \in Seq(S) /\ Len(Append(s, e)) = Len(s) + 1
         /\ \A k \in 1..Len(s) : Append(s, e)[k] = s[k]
         /\ Append(s, e)[Len(s) + 1] = e
         /\ DOMAIN s = 1..Len(s) /\ DOMAIN Append(s, e) = 1..(Len(s) + 1)
         /\ Len(s) \in Nat
  BY AppendProperties, LenProperties

\* A batch that its handler accepts is the last in the queue, and has a
\* number above all that has run for its connection.
LEMMA BatchOrdered ==
  ASSUME OrderInv, NEW c \in Clients, HandleExecute(c), StartOK', UNCHANGED nextId,
         NEW request \in Incoming(c),
         up' = [up EXCEPT ![c] = Tail(@)],
         queue' = Append(queue, <<c, request.id>>),
         hId' = [hId EXCEPT ![c] = request.id]
  PROVE  Ordered'
  <1>t. TypeInv /\ QueueOK /\ RunningOK /\ ExecutedOK /\ SessionOK /\ RunOnceInOrder
    BY DEF OrderInv, Ordered
  <1>1. UpOK' /\ hId[c] < request.id /\ hState[c] = "reading"
    BY UpTake
  <1>2. /\ session[c] /\ UNCHANGED <<session, running, executed>>
        /\ workState' = [workState EXCEPT ![c] = "queued"]
        /\ hState' = [hState EXCEPT ![c] = "executing"]
    BY DEF HandleExecute
  <1>3. /\ hState'[c] = "executing" /\ workState'[c] = "queued" /\ hId'[c] = request.id
        /\ \A d \in Clients \ {c} : hState'[d] = hState[d] /\ hId'[d] = hId[d]
                                    /\ workState'[d] = workState[d]
    BY <1>2, <1>t DEF TypeInv, HandlerTypes, OwnerTypes
  <1>4. ASSUME NEW w, NEW state, Pending(hState, hId, workState, w, state)
        PROVE  Pending(hState', hId', workState', w, state)
    BY <1>1, <1>3, <1>4, PendingElsewhere
  <1>5. \A w, state : Pending(hState, hId, workState, w, state) => w[1] # c
    BY <1>1 DEF Pending
  <1>6. Pending(hState', hId', workState', <<c, request.id>>, "queued")
    BY <1>3 DEF Pending
  <1> DEFINE n == Len(queue) + 1
             w == <<c, request.id>>
  <1>7. /\ DOMAIN queue = 1..(n - 1) /\ DOMAIN queue' = 1..n /\ n \in Nat \ {0}
        /\ \A k \in DOMAIN queue : queue'[k] = queue[k]
        /\ queue'[n] = w
    <2>1. queue \in Seq(Works \cup {Stop}) /\ request.id \in Ids
      BY <1>t, IncomingTyped DEF TypeInv, OwnerTypes, Requests
    <2> DEFINE S == Works \cup {Stop}
    <2>2. w \in S /\ queue \in Seq(S)
      BY <2>1 DEF Works
    <2> HIDE DEF w, S
    <2>3. queue' = Append(queue, w)
      BY DEF w
    <2>4. /\ \A k \in 1..Len(queue) : Append(queue, w)[k] = queue[k]
          /\ Append(queue, w)[Len(queue) + 1] = w
          /\ DOMAIN queue = 1..Len(queue) /\ DOMAIN Append(queue, w) = 1..(Len(queue) + 1)
          /\ Len(queue) \in Nat
      BY <2>2, PutLast
    <2>5. n \in Nat \ {0} /\ n - 1 = Len(queue) /\ n = Len(queue) + 1
      BY <2>4
    <2>6. DOMAIN queue = 1..(n - 1)
      BY <2>4, <2>5
    <2> HIDE DEF n
    <2>7. DOMAIN queue' = 1..n /\ queue'[n] = w
      BY <2>3, <2>4, <2>5
    <2>8. \A k \in DOMAIN queue : queue'[k] = queue[k]
      BY <2>3, <2>4
    <2> QED BY <2>5, <2>6, <2>7, <2>8
  <1> HIDE DEF n
  <1>8. \A k \in DOMAIN queue' : k = n \/ k \in DOMAIN queue
    BY <1>7
  <1>9. QueueOK'
    <2>1. ASSUME NEW k \in DOMAIN queue', queue'[k] # Stop
          PROVE  Pending(hState', hId', workState', queue'[k], "queued")
      BY <1>t, <1>4, <1>6, <1>7, <1>8, <2>1 DEF QueueOK
    <2>2. ASSUME NEW k \in DOMAIN queue, queue[k] # Stop PROVE queue[k] # w
      <3>1. queue[k][1] # c
        BY <1>5, <1>t, <2>2 DEF QueueOK
      <3> QED BY <3>1
    <2>3. ASSUME NEW j \in DOMAIN queue', NEW k \in DOMAIN queue',
                 queue'[j] = queue'[k], queue'[k] # Stop
          PROVE  j = k
      <3> HIDE DEF w
      <3>1. CASE j = n /\ k = n
        BY <3>1
      <3>2. CASE j \in DOMAIN queue /\ k \in DOMAIN queue
        BY <1>t, <1>7, <2>3, <3>2 DEF QueueOK
      <3>3. CASE j = n /\ k \in DOMAIN queue
        BY <1>7, <2>2, <2>3, <3>3
      <3>4. CASE j \in DOMAIN queue /\ k = n
        BY <1>7, <2>2, <2>3, <3>4
      <3> QED BY <1>8, <3>1, <3>2, <3>3, <3>4
    <2> QED BY <2>1, <2>3 DEF QueueOK
  <1>10. RunningOK'
    BY <1>2, <1>4, <1>t DEF RunningOK
  <1>11. ExecutedOK'
    <2> SUFFICES ASSUME NEW k \in DOMAIN executed, NEW d \in Clients, executed[k][1] = d
                 PROVE  /\ executed[k][2] <= hId'[d]
                        /\ Unfinished(d)' => executed[k][2] < hId'[d]
                        /\ session'[d]
      BY <1>2 DEF ExecutedOK
    <2>1. executed[k][2] <= hId[d] /\ session[d] /\ executed[k][2] \in Nat
          /\ (Unfinished(d) => executed[k][2] < hId[d])
      <3>1. executed[k] \in Works
        BY <1>t, ElementOfSeq, LenProperties DEF TypeInv, OwnerTypes
      <3>2. executed[k][2] \in Nat
        BY <3>1 DEF Works, Ids
      <3> QED BY <1>t, <3>2 DEF ExecutedOK
    <2>2. CASE d = c
      <3>1. hId[c] \in Nat /\ request.id \in Nat
        <4>1. request.id \in Ids /\ hId[c] \in Ids \cup {0}
          BY <1>t, IncomingTyped DEF TypeInv, HandlerTypes, Requests
        <4> QED BY <4>1 DEF Ids
      <3> QED BY <1>1, <1>2, <1>3, <2>1, <2>2, <3>1
    <2>3. CASE d # c
      BY <1>2, <1>3, <2>1, <2>3 DEF Unfinished
    <2> QED BY <2>2, <2>3
  <1>12. SessionOK'
    BY <1>2, <1>3, <1>t DEF SessionOK
  <1>13. RunOnceInOrder'
    BY <1>2, <1>t DEF RunOnceInOrder
  <1> QED BY <1>1, <1>9, <1>10, <1>11, <1>12, <1>13 DEF Ordered
-------------------------------------------------------------------------------
(* The steps, one lemma for each part of the system.                       *)
LEMMA ClientOrdered ==
  ASSUME OrderInv, NEW c \in Clients,
         \/ Connect(c) \/ \E method \in Methods : Request(c, method)
         \/ ClientReads(c) \/ Timeout(c) \/ Interrupt(c)
  PROVE  Ordered'
  <1>t. StartOK /\ UpOK /\ TypeInv
    BY DEF OrderInv, Ordered
  <1>1. CASE Connect(c)
    <2>1. PICK method \in Methods : SendRequest(c, method) /\
            up' = [up EXCEPT ![c] = <<[id |-> Numbered(c), method |-> method]>>]
      BY <1>1 DEF Connect, Methods
    <2>2. UpOK'
      <3> DEFINE e == [id |-> Numbered(c), method |-> method]
      <3>1. e.id = nextId[c] /\ up' = [up EXCEPT ![c] = <<e>>]
        BY <2>1 DEF Numbered
      <3>2. nextId[c] \in Ids /\ nextId' = [nextId EXCEPT ![c] = @ + 1] /\ UNCHANGED hId
        BY <1>1, <2>1 DEF SendRequest, Connect
      <3> HIDE DEF e
      <3> QED BY <3>1, <3>2, UpPut
    <2>3. hState[c] = "none"
      BY <1>1, <1>t DEF Connect, StartOK
    <2>4. /\ \A d \in Clients \ {c} : hState'[d] = hState[d] /\ session'[d] = session[d]
          /\ hState'[c] = "reading" /\ session'[c] = session[c]
          /\ UNCHANGED workVars /\ UNCHANGED hId
      BY <1>1, <1>t DEF Connect, ownerVars, workVars, TypeInv, HandlerTypes
    <2>5. ~Unfinished(c)
      BY <2>3 DEF Unfinished
    <2>6. QueueOK' /\ RunningOK' /\ ExecutedOK' /\ SessionOK' /\ RunOnceInOrder'
      BY <2>4, <2>5, IdleHandler
    <2>7. cState'[c] = "waiting" /\ \A d \in Clients \ {c} : cState'[d] = cState[d]
      BY <2>1, <1>t DEF SendRequest, TypeInv, ClientTypes
    <2>8. StartOK'
      BY <1>t, <2>4, <2>7 DEF StartOK
    <2> QED BY <2>2, <2>6, <2>8 DEF Ordered
  <1>2. ASSUME NEW method \in Methods, Request(c, method) PROVE Ordered'
    <2>1. SendRequest(c, method) /\ UNCHANGED <<handlerVars, ownerVars>>
      BY <1>2 DEF Request
    <2>2. UpOK'
      <3> DEFINE e == [id |-> Numbered(c), method |-> method]
      <3>1. e.id = nextId[c] /\ (up' = [up EXCEPT ![c] = Append(@, e)] \/ up' = up)
        BY <1>2 DEF Numbered, Request
      <3>2. nextId[c] \in Ids /\ nextId' = [nextId EXCEPT ![c] = @ + 1] /\ UNCHANGED hId
        BY <2>1 DEF SendRequest, handlerVars
      <3>3. e \in Requests
        BY <3>2 DEF Numbered, Requests
      <3> HIDE DEF e
      <3> QED BY <3>1, <3>2, <3>3, UpPut
    <2>3. UNCHANGED workVars /\ UNCHANGED <<hState, hId, session>>
      BY <2>1 DEF handlerVars, ownerVars, workVars
    <2>4. QueueOK' /\ RunningOK' /\ ExecutedOK' /\ SessionOK' /\ RunOnceInOrder'
      BY <2>3, NoHandler
    <2>5. StartOK'
      BY <1>t, <2>1, <2>3 DEF SendRequest, StartOK, TypeInv, ClientTypes
    <2> QED BY <2>2, <2>4, <2>5 DEF Ordered
  <1>3. CASE ClientReads(c) \/ Timeout(c) \/ Interrupt(c)
    <2>1. /\ UNCHANGED <<up, handlerVars, ownerVars, nextId>>
          /\ cState' = cState \/ \E state \in {"closed", "ready"} :
               cState' = [cState EXCEPT ![c] = state]
      BY <1>3 DEF ClientReads, Receive, ReceiveNothing, Timeout, Interrupt, Complete
    <2>2. UNCHANGED workVars /\ UNCHANGED <<hState, hId, session, up, nextId>>
      BY <2>1 DEF handlerVars, ownerVars, workVars
    <2>3. QueueOK' /\ RunningOK' /\ ExecutedOK' /\ SessionOK' /\ RunOnceInOrder'
      BY <2>2, NoHandler
    <2>4. StartOK'
      BY <1>t, <2>1, <2>2 DEF StartOK, TypeInv, ClientTypes
    <2>5. UpOK'
      BY <1>t, <2>2 DEF UpOK
    <2> QED BY <2>3, <2>4, <2>5 DEF Ordered
  <1> QED BY <1>1, <1>2, <1>3

\* A step of the handler of c.
LEMMA HandlerOrdered ==
  ASSUME OrderInv, NEW c \in Clients, HandlerStep(c) \/ SendHeartbeat(c)
  PROVE  Ordered'
  <1>t. StartOK /\ UpOK /\ TypeInv
    BY DEF OrderInv, Ordered
  <1>c. UNCHANGED <<cState, nextId>>
    BY DEF HandlerStep, HandleHandshake, HandleExecute, HandleOther, HandleClose,
           HandlerDisconnected, HandlerAnswers, SendHeartbeat, clientVars
  <1>s. hState[c] # "none" /\ \A d \in Clients \ {c} : hState'[d] = hState[d]
    BY <1>t DEF HandlerStep, HandleHandshake, HandleExecute, HandleOther, HandleClose,
           HandlerDisconnected, HandlerAnswers, SendHeartbeat, Incoming, Respond, HandlerGone,
           TypeInv, HandlerTypes
  <1>p. StartOK'
    BY <1>t, <1>c, <1>s DEF StartOK
  \* Every step but the acceptance of a batch and a heartbeat.
  <1>1. ASSUME ~Unfinished(c), hState'[c] # "executing", UpOK',
               session' = session \/ (~session[c] /\ \E ok \in BOOLEAN :
                                        session' = [session EXCEPT ![c] = ok]),
               UNCHANGED <<hId, ownerVars>>
        PROVE  Ordered'
    <2>1. /\ session[c] => session'[c]
          /\ \A d \in Clients \ {c} : session'[d] = session[d]
      BY <1>1, <1>t DEF TypeInv, HandlerTypes
    <2>2. UNCHANGED workVars /\ UNCHANGED hId
      BY <1>1 DEF ownerVars, workVars
    <2>3. QueueOK' /\ RunningOK' /\ ExecutedOK' /\ SessionOK' /\ RunOnceInOrder'
      BY <1>1, <1>s, <2>1, <2>2, IdleHandler
    <2> QED BY <1>1, <1>p, <2>3 DEF Ordered
  <1>2. ASSUME NEW m, Respond(c, m) PROVE hState'[c] # "executing"
    BY <1>2, <1>t DEF Respond, HandlerGone, TypeInv, HandlerTypes
  <1>3. ASSUME HandlerGone(c) PROVE hState'[c] # "executing"
    BY <1>3, <1>t DEF HandlerGone, TypeInv, HandlerTypes
  <1>4. CASE HandleHandshake(c) \/ HandleOther(c) \/ HandleClose(c)
    <2>1. PICK request \in Incoming(c) : up' = [up EXCEPT ![c] = Tail(@)]
      BY <1>4 DEF HandleHandshake, HandleOther, HandleClose
    <2>2. /\ UNCHANGED <<hId, ownerVars>>
          /\ session' = session \/ (~session[c] /\ \E ok \in BOOLEAN :
                                      session' = [session EXCEPT ![c] = ok])
      BY <1>4 DEF HandleHandshake, HandleOther, HandleClose
    <2>3. hState'[c] # "executing"
      <3>1. HandlerGone(c) \/ \E m : Respond(c, m)
        BY <1>4 DEF HandleHandshake, HandleOther, HandleClose
      <3> QED BY <1>2, <1>3, <3>1
    <2>4. UpOK' /\ hState[c] = "reading"
      BY <1>c, <2>1, <2>2, UpTake
    <2>5. ~Unfinished(c)
      BY <2>4 DEF Unfinished
    <2> QED BY <1>1, <2>2, <2>3, <2>4, <2>5
  <1>5. CASE HandlerDisconnected(c) \/ HandlerAnswers(c)
    <2>1. /\ UNCHANGED <<up, hId, session, ownerVars>>
          /\ hState[c] = "executing" => workState[c] \in {"result", "error", "refused"}
          /\ HandlerGone(c) \/ \E m : Respond(c, m)
      BY <1>5 DEF HandlerDisconnected, HandlerAnswers
    <2>2. ~Unfinished(c) /\ UpOK'
      BY <1>c, <1>t, <2>1 DEF Unfinished, UpOK
    <2> QED BY <1>1, <1>2, <1>3, <2>1, <2>2
  <1>6. CASE SendHeartbeat(c)
    <2>1. UNCHANGED workVars /\ UNCHANGED <<up, hState, hId, session>>
      BY <1>6 DEF SendHeartbeat, ownerVars, workVars
    <2>2. QueueOK' /\ RunningOK' /\ ExecutedOK' /\ SessionOK' /\ RunOnceInOrder'
      BY <2>1, NoHandler
    <2>3. UpOK'
      BY <1>c, <1>t, <2>1 DEF UpOK
    <2> QED BY <1>p, <2>2, <2>3 DEF Ordered
  <1>7. CASE HandleExecute(c)
    <2>1. PICK request \in Incoming(c) :
            /\ up' = [up EXCEPT ![c] = Tail(@)]
            /\ queue' = Append(queue, <<c, request.id>>)
            /\ hId' = [hId EXCEPT ![c] = request.id]
      BY <1>7 DEF HandleExecute
    <2> QED BY <1>7, <1>c, <1>p, <2>1, BatchOrdered
  <1> QED BY <1>4, <1>5, <1>6, <1>7 DEF HandlerStep

\* The worker's hands hold the work that was first in the queue, and no
\* other place of the queue holds it.
LEMMA TakesOrdered ==
  ASSUME OrderInv, WorkerTakes
  PROVE  QueueOK' /\ RunningOK' /\ ExecutedOK' /\ SessionOK' /\ RunOnceInOrder'
  <1>t. TypeInv /\ QueueOK /\ RunningOK /\ ExecutedOK /\ SessionOK /\ RunOnceInOrder
    BY DEF OrderInv, Ordered
  <1>1. /\ running = None /\ queue # <<>> /\ queue' = Tail(queue)
        /\ UNCHANGED <<hState, hId, session, executed>>
    BY DEF WorkerTakes, handlerVars
  <1> DEFINE S == Works \cup {Stop}
             w == Head(queue)
  <1>2. /\ w = queue[1] /\ 1 \in DOMAIN queue /\ w \in S
        /\ \A k \in DOMAIN queue' : k \in Nat \ {0} /\ k + 1 \in DOMAIN queue
                                    /\ queue'[k] = queue[k + 1]
    <2>1. queue \in Seq(S)
      BY <1>t DEF TypeInv, OwnerTypes
    <2> HIDE DEF S
    <2>2. /\ w \in S /\ Len(Tail(queue)) = Len(queue) - 1 /\ Tail(queue) \in Seq(S)
          /\ \A k \in 1..Len(Tail(queue)) : Tail(queue)[k] = queue[k + 1]
      BY <1>1, <2>1, HeadTailProperties
    <2>3. DOMAIN queue = 1..Len(queue) /\ Len(queue) \in Nat \ {0}
      BY <1>1, <2>1, LenProperties, EmptySeq
    <2>4. DOMAIN queue' = 1..(Len(queue) - 1)
      BY <1>1, <2>2, LenProperties
    <2>5. \A k \in 1..(Len(queue) - 1) : k \in Nat \ {0} /\ k + 1 \in DOMAIN queue
      BY <2>3
    <2>6. \A k \in 1..(Len(queue) - 1) : queue'[k] = queue[k + 1]
      BY <1>1, <2>2
    <2>7. w = queue[1] /\ 1 \in DOMAIN queue
      BY <2>1, <2>3
    <2> QED BY <2>2, <2>4, <2>5, <2>6, <2>7
  <1> HIDE DEF S, w
  <1>3. \A j, k \in DOMAIN queue' : queue'[j] = queue'[k] /\ queue'[k] # Stop => j = k
    <2> SUFFICES ASSUME NEW j \in DOMAIN queue', NEW k \in DOMAIN queue',
                        queue'[j] = queue'[k], queue'[k] # Stop
                 PROVE  j = k
      OBVIOUS
    <2>1. j + 1 = k + 1
      BY <1>2, <1>t DEF QueueOK
    <2> QED BY <1>2, <2>1
  <1>4. CASE w = Stop
    <2>1. UNCHANGED <<running, workState>>
      BY <1>4 DEF WorkerTakes, w
    <2>2. QueueOK'
      BY <1>1, <1>2, <1>3, <1>t, <2>1 DEF QueueOK
    <2>3. RunningOK' /\ ExecutedOK' /\ SessionOK' /\ RunOnceInOrder'
      BY <1>1, <1>t, <2>1 DEF RunningOK, ExecutedOK, Unfinished, SessionOK, RunOnceInOrder
    <2> QED BY <2>2, <2>3
  <1>5. CASE w # Stop
    <2>1. running' = w /\ workState' = [workState EXCEPT ![w[1]] = "executing"]
      BY <1>5 DEF WorkerTakes, w
    <2>2. Pending(hState, hId, workState, w, "queued")
      BY <1>2, <1>5, <1>t DEF QueueOK
    <2>3. PICK c \in Clients : /\ w = <<c, hId[c]>> /\ hState[c] = "executing"
                               /\ workState[c] = "queued"
      BY <2>2 DEF Pending
    <2>4. /\ workState'[c] = "executing"
          /\ \A d \in Clients \ {c} : workState'[d] = workState[d]
      BY <1>t, <2>1, <2>3 DEF TypeInv, OwnerTypes
    <2>5. RunningOK'
      BY <1>1, <2>1, <2>3, <2>4 DEF RunningOK, Pending
    <2>6. QueueOK'
      <3>1. ASSUME NEW k \in DOMAIN queue', queue'[k] # Stop
            PROVE  Pending(hState', hId', workState', queue'[k], "queued")
        <4>1. k + 1 \in DOMAIN queue /\ queue'[k] = queue[k + 1] /\ k + 1 # 1
          BY <1>2
        <4>2. PICK d \in Clients : /\ queue[k + 1] = <<d, hId[d]>> /\ hState[d] = "executing"
                                   /\ workState[d] = "queued"
          BY <1>t, <3>1, <4>1 DEF QueueOK, Pending
        <4>3. queue[k + 1] # w
          BY <1>2, <1>t, <3>1, <4>1 DEF QueueOK
        <4>4. d # c
          BY <2>3, <4>2, <4>3
        <4> QED BY <1>1, <2>4, <4>1, <4>2, <4>4 DEF Pending
      <3> QED BY <1>3, <3>1 DEF QueueOK
    <2>7. ExecutedOK'
      <3>1. \A d \in Clients : Unfinished(d)' => Unfinished(d)
        BY <1>1, <2>3, <2>4 DEF Unfinished
      <3> QED BY <1>1, <1>t, <3>1 DEF ExecutedOK
    <2>8. SessionOK' /\ RunOnceInOrder'
      BY <1>1, <1>t, <2>3, <2>4 DEF SessionOK, RunOnceInOrder
    <2> QED BY <2>5, <2>6, <2>7, <2>8
  <1> QED BY <1>4, <1>5

\* The work that ends is the last of its connection to have run.
LEMMA FinishesOrdered ==
  ASSUME OrderInv, WorkerFinishes
  PROVE  QueueOK' /\ RunningOK' /\ ExecutedOK' /\ SessionOK' /\ RunOnceInOrder'
  <1>t. TypeInv /\ QueueOK /\ RunningOK /\ ExecutedOK /\ SessionOK /\ RunOnceInOrder
    BY DEF OrderInv, Ordered
  <1>1. PICK ending \in {"result", "error", "refused"} :
          /\ workState' = [workState EXCEPT ![running[1]] = ending]
          /\ executed' = IF ending = "refused" THEN executed ELSE Append(executed, running)
    BY DEF WorkerFinishes
  <1>2. running # None /\ running' = None /\ UNCHANGED <<hState, hId, session, queue>>
    BY DEF WorkerFinishes, handlerVars
  <1>3. PICK c \in Clients : /\ running = <<c, hId[c]>> /\ hState[c] = "executing"
                             /\ workState[c] = "executing"
    BY <1>2, <1>t DEF RunningOK, Pending
  <1>4. /\ workState'[c] = ending /\ session[c]
        /\ \A d \in Clients \ {c} : workState'[d] = workState[d]
    BY <1>1, <1>3, <1>t DEF TypeInv, OwnerTypes, SessionOK
  <1>5. RunningOK'
    BY <1>2 DEF RunningOK
  <1>6. SessionOK'
    BY <1>2, <1>4, <1>t DEF SessionOK
  <1>7. QueueOK'
    <2>1. ASSUME NEW w, Pending(hState, hId, workState, w, "queued")
          PROVE  Pending(hState', hId', workState', w, "queued")
      BY <1>2, <1>3, <1>4, <2>1 DEF Pending
    <2> QED BY <1>2, <1>t, <2>1 DEF QueueOK
  <1>8. \A d \in Clients : /\ Unfinished(d)' => Unfinished(d)
                           /\ d = c => ~Unfinished(d)' /\ Unfinished(d)
    BY <1>1, <1>2, <1>3, <1>4 DEF Unfinished
  <1>9. ASSUME executed' = executed PROVE ExecutedOK' /\ RunOnceInOrder'
    BY <1>2, <1>8, <1>9, <1>t DEF ExecutedOK, RunOnceInOrder
  <1>10. ASSUME executed' = Append(executed, running) PROVE ExecutedOK' /\ RunOnceInOrder'
    <2> DEFINE n == Len(executed) + 1
    <2>1. executed \in Seq(Works) /\ running \in Works
      BY <1>2, <1>t DEF TypeInv, OwnerTypes
    <2>2. /\ \A k \in 1..Len(executed) : executed'[k] = executed[k]
          /\ executed'[n] = running
          /\ DOMAIN executed = 1..Len(executed) /\ DOMAIN executed' = 1..n
          /\ Len(executed) \in Nat
      BY <1>10, <2>1, PutLast
    <2>3. n \in Nat /\ n - 1 = Len(executed)
      BY <2>2
    <2> HIDE DEF n
    <2>4. \A k \in DOMAIN executed' : k = n \/ k \in DOMAIN executed
      BY <2>2, <2>3
    <2>5. \A k \in DOMAIN executed : /\ executed'[k] = executed[k] /\ k < n
                                     /\ executed[k][1] = c => executed[k][2] < hId[c]
      BY <1>8, <1>t, <2>2, <2>3 DEF ExecutedOK
    <2>6. executed'[n][1] = c /\ executed'[n][2] = hId[c] /\ hId[c] \in Nat
      <3>1. hId[c] \in Ids \cup {0}
        BY <1>t DEF TypeInv, HandlerTypes
      <3>2. hId[c] \in Nat
        BY <3>1 DEF Ids
      <3> QED BY <1>3, <2>2, <3>2
    <2>7. ExecutedOK'
      <3> SUFFICES ASSUME NEW k \in DOMAIN executed', NEW d \in Clients, executed'[k][1] = d
                   PROVE  /\ executed'[k][2] <= hId'[d]
                          /\ Unfinished(d)' => executed'[k][2] < hId'[d]
                          /\ session'[d]
        BY DEF ExecutedOK
      <3>1. CASE k = n
        <4>1. d = c /\ executed'[k][2] = hId[d]
          BY <2>6, <3>1
        <4> QED BY <1>2, <1>4, <1>8, <2>6, <4>1
      <3>2. CASE k \in DOMAIN executed
        BY <1>2, <1>8, <1>t, <2>5, <3>2 DEF ExecutedOK
      <3> QED BY <2>4, <3>1, <3>2
    <2>8. RunOnceInOrder'
      <3> SUFFICES ASSUME NEW j \in DOMAIN executed', NEW k \in DOMAIN executed', j < k,
                          executed'[j][1] = executed'[k][1]
                   PROVE  executed'[j][2] < executed'[k][2]
        BY DEF RunOnceInOrder
      <3>1. j \in DOMAIN executed
        BY <2>2, <2>3, <2>4
      <3>2. CASE k = n
        BY <2>5, <2>6, <3>1, <3>2
      <3>3. CASE k \in DOMAIN executed
        BY <1>t, <2>5, <3>1, <3>3 DEF RunOnceInOrder
      <3> QED BY <2>4, <3>2, <3>3
    <2> QED BY <2>7, <2>8
  <1>11. ExecutedOK' /\ RunOnceInOrder'
    BY <1>1, <1>9, <1>10
  <1> QED BY <1>5, <1>6, <1>7, <1>11

\* The steps of the owner, and those that stop the server.
LEMMA OwnerOrdered ==
  ASSUME OrderInv, WorkerStep \/ StopServing \/ StopStep
  PROVE  Ordered'
  <1>t. /\ TypeInv /\ StartOK /\ UpOK /\ QueueOK /\ RunningOK /\ ExecutedOK /\ SessionOK
        /\ RunOnceInOrder
    BY DEF OrderInv, Ordered
  <1>1. UNCHANGED <<cState, nextId, up, hId, session>>
    BY DEF WorkerStep, WorkerTakes, WorkerFinishes, StopServing, StopStep, JoinEnds,
           ExecutorCloses, Exit, linkVars, handlerVars, clientVars
  <1>2. UpOK'
    BY <1>1, <1>t DEF UpOK
  <1>3. CASE Exit
    <2>1. /\ queue' = <<>> /\ running' = None /\ UNCHANGED <<workState, executed>>
          /\ \A c \in Clients : /\ hState[c] = "none" => hState'[c] = "none"
                                /\ hState'[c] # "executing"
      BY <1>3 DEF Exit
    <2>2. QueueOK' /\ RunningOK'
      BY <2>1 DEF QueueOK, RunningOK
    <2>3. \A c \in Clients : ~Unfinished(c)'
      BY <2>1 DEF Unfinished
    <2>4. ExecutedOK' /\ SessionOK' /\ RunOnceInOrder'
      BY <1>1, <1>t, <2>1, <2>3 DEF ExecutedOK, SessionOK, RunOnceInOrder
    <2>5. StartOK'
      BY <1>1, <1>t, <2>1 DEF StartOK
    <2> QED BY <1>2, <2>2, <2>4, <2>5 DEF Ordered
  <1>4. CASE ~Exit
    <2>1. UNCHANGED hState
      BY <1>4 DEF WorkerStep, WorkerTakes, WorkerFinishes, StopServing, StopStep, JoinEnds,
           ExecutorCloses, handlerVars
    <2>2. StartOK'
      BY <1>1, <1>t, <2>1 DEF StartOK
    <2>3. CASE WorkerStep
      BY <1>2, <2>2, <2>3, TakesOrdered, FinishesOrdered DEF WorkerStep, Ordered
    <2>4. CASE JoinEnds \/ ExecutorCloses
      <3>1. UNCHANGED workVars
        BY <2>4 DEF JoinEnds, ExecutorCloses, ownerVars, workVars
      <3> QED BY <1>1, <1>2, <2>1, <2>2, <3>1, NoHandler DEF Ordered
    <2>5. CASE StopServing
      <3>1. queue' = Append(queue, Stop) /\ UNCHANGED <<running, workState, executed>>
        BY <2>5 DEF StopServing
      <3>2. QueueOK'
        <4> DEFINE S == Works \cup {Stop}
                   n == Len(queue) + 1
        <4>1. queue \in Seq(S) /\ Stop \in S
          BY <1>t DEF TypeInv, OwnerTypes
        <4> HIDE DEF S
        <4>2. /\ \A k \in 1..Len(queue) : Append(queue, Stop)[k] = queue[k]
              /\ Append(queue, Stop)[n] = Stop
              /\ DOMAIN queue = 1..Len(queue) /\ DOMAIN Append(queue, Stop) = 1..n
              /\ Len(queue) \in Nat
          BY <4>1, PutLast
        <4>3. \A k \in 1..n : k = n \/ k \in 1..Len(queue)
          BY <4>2
        <4> HIDE DEF n
        <4>4. \A k \in DOMAIN queue' : queue'[k] # Stop =>
                k \in DOMAIN queue /\ queue'[k] = queue[k]
          BY <3>1, <4>2, <4>3
        <4> QED BY <1>1, <1>t, <2>1, <3>1, <4>4 DEF QueueOK
      <3>3. RunningOK' /\ ExecutedOK' /\ SessionOK' /\ RunOnceInOrder'
        BY <1>1, <1>t, <2>1, <3>1 DEF RunningOK, ExecutedOK, Unfinished, SessionOK,
                                      RunOnceInOrder
      <3> QED BY <1>2, <2>2, <3>2, <3>3 DEF Ordered
    <2> QED BY <1>4, <2>3, <2>4, <2>5 DEF StopStep
  <1> QED BY <1>3, <1>4

\* No request has been sent yet.
LEMMA InitOrdered == Init => OrderInv
  <1> SUFFICES ASSUME Init PROVE Ordered
    BY InitTyped DEF OrderInv
  <1>1. StartOK /\ UpOK /\ QueueOK /\ RunningOK
    BY DEF Init, StartOK, UpOK, QueueOK, RunningOK
  <1>2. ExecutedOK /\ SessionOK /\ RunOnceInOrder
    BY DEF Init, ExecutedOK, SessionOK, RunOnceInOrder
  <1> QED BY <1>1, <1>2 DEF Ordered

\* All steps.
LEMMA NextOrdered == OrderInv /\ [Next]_vars => OrderInv'
  <1> SUFFICES ASSUME OrderInv, [Next]_vars PROVE Ordered'
    BY NextTyped DEF OrderInv
  <1>1. ASSUME NEW c \in Clients,
               \/ Connect(c) \/ \E method \in Methods : Request(c, method)
               \/ ClientReads(c) \/ Timeout(c) \/ Interrupt(c)
               \/ HandlerStep(c) \/ SendHeartbeat(c)
        PROVE  Ordered'
    BY <1>1, ClientOrdered, HandlerOrdered
  <1>2. CASE WorkerStep \/ StopServing \/ StopStep
    BY <1>2, OwnerOrdered
  <1>3. CASE UNCHANGED vars
    <2>1. UNCHANGED workVars
      BY <1>3 DEF vars, ownerVars, workVars
    <2>2. UNCHANGED <<cState, nextId, up, hState, hId, session>>
      BY <1>3 DEF vars, clientVars, linkVars, handlerVars
    <2>3. StartOK' /\ UpOK'
      BY <2>2 DEF OrderInv, Ordered, StartOK, UpOK
    <2> QED BY <2>1, <2>2, <2>3, NoHandler DEF Ordered
  <1> QED BY <1>1, <1>2, <1>3 DEF Next

\* Works and executed batches are of connections with a session.
LEMMA OrderedHandshake == OrderInv => HandshakeFirst
  BY DEF OrderInv, Ordered, ExecutedOK, SessionOK, HandshakeFirst

(* No batch is run twice and the batches of a connection are run in the    *)
(* order of its requests, for any connections and requests, whatever was   *)
(* given up or stopped: a request's number is above that of all before it, *)
(* and its handler reads no further while its work is queued or running.   *)
THEOREM WorksRunOnceInOrder == Spec => []RunOnceInOrder
  <1>1. OrderInv => RunOnceInOrder
    BY DEF OrderInv, Ordered
  <1> QED BY <1>1, InitOrdered, NextOrdered, PTL DEF Spec

(* Nothing is queued for the instrument or reaches it on a connection      *)
(* whose handshake was not accepted, whatever a peer sends in which order. *)
THEOREM HandshakeBeforeWork == Spec => []HandshakeFirst
  <1> QED BY InitOrdered, NextOrdered, OrderedHandshake, PTL DEF Spec
===============================================================================
