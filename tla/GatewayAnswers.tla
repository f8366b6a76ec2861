----------------------------- MODULE GatewayAnswers -----------------------------
(***************************************************************************)
(* What a client of the gateway is told of its batches is true, and a      *)
(* client that gives up none of its requests never sees an answer of       *)
(* another one, for any clients and any bounds.                            *)
(***************************************************************************)
EXTENDS GatewayProofs

-------------------------------------------------------------------------------
(* What a client is told of its batch.                                     *)

\* The numbers of c's requests that nothing can run any more.
DoneIds(c) ==
  {i \in Ids : /\ i < nextId[c]
               /\ \A k \in DOMAIN up[c] : i < up[c][k].id
               /\ Unfinished(c) => i # hId[c]}

\* The numbers of c's requests that have run.
RanIds(c) == {i \in Ids : \E k \in DOMAIN executed : executed[k] = <<c, i>>}

\* The three that follow are about values: done is DoneIds(c), ran is RanIds(c)
\* and w is waitFor[c].
Honest(c, id, ending, of, ran) ==
  /\ ending \in {"result", "error"} => of = <<c, id>> /\ id \in ran
  /\ ending \in {"refused", "rejected"} => id \notin ran

ResponseOK(c, m, w, done, ran) ==
  m.kind = "response" =>
    /\ m.id \in done
    /\ m.id = w.id /\ w.method = "execute" => Honest(c, m.id, m.ending, m.of, ran)

EntryOK(c, r, done, ran) ==
  r.ending \in Answered =>
    /\ r.id \in done
    /\ r.method = "execute" => Honest(c, r.id, r.ending, r.of, ran)

DownOK ==
  \A c \in Clients : \A k \in DOMAIN down[c] :
    ResponseOK(c, down[c][k], waitFor[c], DoneIds(c), RanIds(c))
ResultsOK ==
  \A c \in Clients : \A k \in DOMAIN results[c] :
    EntryOK(c, results[c][k], DoneIds(c), RanIds(c))

\* The request that a client waits for goes by its own name.
MethodOK ==
  \A c \in Clients : \A k \in DOMAIN up[c] :
    up[c][k].id = waitFor[c].id => up[c][k].method = waitFor[c].method

\* The ending of a work tells whether it has run.
WorkOK ==
  \A c \in Clients : hState[c] = "executing" =>
    /\ workState[c] \in {"result", "error"} => hId[c] \in RanIds(c)
    /\ workState[c] = "refused" => hId[c] \notin RanIds(c)

Telling   == DownOK /\ ResultsOK /\ MethodOK /\ WorkOK
HonestInv == OrderInv /\ Telling

-------------------------------------------------------------------------------
(* What was said of a request that nothing can run any more stays true.    *)
Steady(c) ==
  /\ DoneIds(c) \subseteq DoneIds(c)'
  /\ \A i \in DoneIds(c) : i \in RanIds(c)' <=> i \in RanIds(c)

\* What keeps DoneIds(c) and RanIds(c) as they are.
LEMMA SameDone ==
  ASSUME NEW c \in Clients, nextId'[c] = nextId[c], up'[c] = up[c],
         hState'[c] = hState[c], workState'[c] = workState[c], hId'[c] = hId[c],
         UNCHANGED executed
  PROVE  DoneIds(c)' = DoneIds(c) /\ RanIds(c)' = RanIds(c) /\ Steady(c)
  BY DEF DoneIds, RanIds, Unfinished, Steady

\* The elements of a sequence with one more and of one without its first.
LEMMA PutElements ==
  ASSUME NEW S, NEW s \in Seq(S), NEW e \in S
  PROVE  \A k \in DOMAIN Append(s, e) :
           Append(s, e)[k] = e \/ \E j \in DOMAIN s : Append(s, e)[k] = s[j]
  <1>1. /\ \A k \in 1..Len(s) : Append(s, e)[k] = s[k]
        /\ Append(s, e)[Len(s) + 1] = e
        /\ DOMAIN s = 1..Len(s) /\ DOMAIN Append(s, e) = 1..(Len(s) + 1)
        /\ Len(s) \in Nat
    BY PutLast
  <1>2. \A k \in 1..(Len(s) + 1) : k = Len(s) + 1 \/ k \in 1..Len(s)
    BY <1>1
  <1> QED BY <1>1, <1>2

LEMMA TailElements ==
  ASSUME NEW S, NEW s \in Seq(S), s # <<>>
  PROVE  /\ \A k \in DOMAIN Tail(s) : k \in Nat \ {0} /\ k + 1 \in DOMAIN s
                                      /\ Tail(s)[k] = s[k + 1]
         /\ 1 \in DOMAIN s /\ Head(s) = s[1]
         /\ Tail(s) \in Seq(S) /\ Len(Tail(s)) = Len(s) - 1 /\ Len(s) \in Nat \ {0}
  <1>1. /\ Len(Tail(s)) = Len(s) - 1 /\ Tail(s) \in Seq(S)
        /\ \A k \in 1..Len(Tail(s)) : Tail(s)[k] = s[k + 1]
    BY HeadTailProperties
  <1>2. DOMAIN s = 1..Len(s) /\ Len(s) \in Nat \ {0}
    BY LenProperties, EmptySeq
  <1>3. DOMAIN Tail(s) = 1..(Len(s) - 1)
    BY <1>1, LenProperties
  <1>4. \A k \in 1..(Len(s) - 1) : k \in Nat \ {0} /\ k + 1 \in DOMAIN s
    BY <1>2
  <1>5. \A k \in 1..(Len(s) - 1) : Tail(s)[k] = s[k + 1]
    BY <1>1
  <1>6. 1 \in DOMAIN s /\ Head(s) = s[1]
    BY <1>2
  <1> QED BY <1>1, <1>2, <1>3, <1>4, <1>5, <1>6

\* Every message to a client is one of before, or is as it should be.
LEMMA CarryDown ==
  ASSUME DownOK, \A d \in Clients : Steady(d),
         \A d \in Clients : waitFor'[d] = waitFor[d] \/ waitFor'[d].id \notin DoneIds(d),
         \A d \in Clients : \A k \in DOMAIN down'[d] :
           \/ \E j \in DOMAIN down[d] : down'[d][k] = down[d][j]
           \/ ResponseOK(d, down'[d][k], waitFor'[d], DoneIds(d)', RanIds(d)')
  PROVE  DownOK'
  <1> SUFFICES ASSUME NEW d \in Clients, NEW k \in DOMAIN down'[d]
               PROVE  ResponseOK(d, down'[d][k], waitFor'[d], DoneIds(d)', RanIds(d)')
    BY DEF DownOK
  <1>1. CASE \E j \in DOMAIN down[d] : down'[d][k] = down[d][j]
    <2>1. ResponseOK(d, down'[d][k], waitFor[d], DoneIds(d), RanIds(d))
      BY <1>1 DEF DownOK
    <2>2. Steady(d) /\ (waitFor'[d] = waitFor[d] \/ waitFor'[d].id \notin DoneIds(d))
      OBVIOUS
    <2> QED BY <2>1, <2>2 DEF Steady, ResponseOK, Honest
  <1> QED BY <1>1

\* The same for the history of the requests that ended.
LEMMA CarryResults ==
  ASSUME ResultsOK, \A d \in Clients : Steady(d),
         \A d \in Clients : \A k \in DOMAIN results'[d] :
           \/ \E j \in DOMAIN results[d] : results'[d][k] = results[d][j]
           \/ EntryOK(d, results'[d][k], DoneIds(d)', RanIds(d)')
  PROVE  ResultsOK'
  <1> SUFFICES ASSUME NEW d \in Clients, NEW k \in DOMAIN results'[d]
               PROVE  EntryOK(d, results'[d][k], DoneIds(d)', RanIds(d)')
    BY DEF ResultsOK
  <1>1. CASE \E j \in DOMAIN results[d] : results'[d][k] = results[d][j]
    <2>1. EntryOK(d, results'[d][k], DoneIds(d), RanIds(d))
      BY <1>1 DEF ResultsOK
    <2>2. Steady(d)
      OBVIOUS
    <2> QED BY <2>1, <2>2 DEF Steady, EntryOK, Honest
  <1> QED BY <1>1

-------------------------------------------------------------------------------
\* A step of a client leaves the handlers and what has run alone.
LEMMA ClientTells ==
  ASSUME HonestInv, OrderInv', NEW c \in Clients,
         \/ Connect(c) \/ \E method \in Methods : Request(c, method)
         \/ ClientReads(c) \/ Timeout(c) \/ Interrupt(c)
  PROVE  Telling'
  <1>t. TypeInv /\ OrderInv /\ StartOK /\ UpOK /\ DownOK /\ ResultsOK /\ MethodOK /\ WorkOK
    BY DEF HonestInv, OrderInv, Ordered, Telling
  <1>e. UNCHANGED <<workState, executed, hId>>
    BY DEF Connect, Request, ClientReads, Receive, ReceiveNothing, Timeout, Interrupt,
           handlerVars, ownerVars
  <1>r. \A d \in Clients : RanIds(d)' = RanIds(d)
    BY <1>e DEF RanIds
  <1>1. CASE Connect(c) \/ \E method \in Methods : Request(c, method)
    <2>1. PICK method \in Methods : SendRequest(c, method) /\
            \/ up' = [up EXCEPT ![c] = <<[id |-> Numbered(c), method |-> method]>>]
            \/ up' = [up EXCEPT ![c] = Append(@, [id |-> Numbered(c), method |-> method])]
            \/ up' = up
      BY <1>1 DEF Connect, Request, Methods
    <2>2. /\ UNCHANGED <<down, results>>
          /\ \A d \in Clients : hState'[d] = hState[d]
                                \/ (hState[d] = "none" /\ hState'[d] = "reading")
      BY <1>1, <1>t DEF Connect, Request, StartOK, TypeInv, HandlerTypes, handlerVars
    <2> DEFINE e == [id |-> Numbered(c), method |-> method]
    <2>3. /\ nextId[c] \in Ids /\ nextId'[c] = nextId[c] + 1
          /\ e.id = nextId[c] /\ e.method = method /\ e \in Requests
          /\ waitFor'[c].id = nextId[c] /\ waitFor'[c].method = method
          /\ \A d \in Clients \ {c} : nextId'[d] = nextId[d] /\ waitFor'[d] = waitFor[d]
      BY <1>t, <2>1 DEF SendRequest, Numbered, TypeInv, ClientTypes, Requests
    <2>4. /\ \A d \in Clients \ {c} : up'[d] = up[d]
          /\ up'[c] = <<e>> \/ up'[c] = Append(up[c], e) \/ up'[c] = up[c]
      BY <1>t, <2>1 DEF TypeInv, LinkTypes
    <2> HIDE DEF e
    <2>5. \A k \in DOMAIN up'[c] :
            up'[c][k] = e \/ \E j \in DOMAIN up[c] : up'[c][k] = up[c][j]
      <3>1. up[c] \in Seq(Requests)
        BY <1>t DEF TypeInv, LinkTypes
      <3>2. CASE up'[c] = Append(up[c], e)
        <4>1. \A k \in DOMAIN Append(up[c], e) :
                Append(up[c], e)[k] = e \/ \E j \in DOMAIN up[c] : Append(up[c], e)[k] = up[c][j]
          BY <2>3, <3>1, PutElements
        <4> QED BY <3>2, <4>1
      <3>3. CASE up'[c] = <<e>>
        BY <3>3
      <3> QED BY <2>4, <3>2, <3>3
    <2>6. \A d \in Clients : Steady(d)
      <3> SUFFICES ASSUME NEW d \in Clients, NEW i \in DoneIds(d) PROVE i \in DoneIds(d)'
        BY <1>r DEF Steady
      <3>1. /\ i \in Ids /\ i < nextId[d] /\ \A k \in DOMAIN up[d] : i < up[d][k].id
            /\ Unfinished(d) => i # hId[d]
        BY DEF DoneIds
      <3>2. i < nextId'[d]
        <4>1. nextId[d] \in 1..(MaxRequests + 1) /\ nextId'[d] \in {nextId[d], nextId[d] + 1}
              /\ MaxRequests \in Nat
          BY <1>t, <2>3, BoundsAssumption DEF TypeInv, ClientTypes
        <4> QED BY <3>1, <4>1 DEF Ids
      <3>3. \A k \in DOMAIN up'[d] : i < up'[d][k].id
        <4>1. CASE d = c
          BY <2>3, <2>5, <3>1, <4>1
        <4>2. CASE d # c
          BY <2>4, <3>1, <4>2
        <4> QED BY <4>1, <4>2
      <3>4. Unfinished(d)' => Unfinished(d)
        BY <1>e, <2>2 DEF Unfinished
      <3> QED BY <1>e, <3>1, <3>2, <3>3, <3>4 DEF DoneIds
    <2>7. nextId[c] \notin DoneIds(c)
      <3>1. \A i \in DoneIds(c) : i \in Ids /\ i < nextId[c]
        BY DEF DoneIds
      <3>2. ~(nextId[c] < nextId[c])
        BY <2>3 DEF Ids
      <3> QED BY <3>1, <3>2
    <2>8. DownOK'
      <3>1. \A d \in Clients : waitFor'[d] = waitFor[d] \/ waitFor'[d].id \notin DoneIds(d)
        BY <2>3, <2>7
      <3> QED BY <1>t, <2>2, <2>6, <3>1, CarryDown
    <2>9. ResultsOK'
      BY <1>t, <2>2, <2>6, CarryResults
    <2>10. MethodOK'
      <3> SUFFICES ASSUME NEW d \in Clients, NEW k \in DOMAIN up'[d],
                          up'[d][k].id = waitFor'[d].id
                   PROVE  up'[d][k].method = waitFor'[d].method
        BY DEF MethodOK
      <3>1. CASE d # c
        BY <1>t, <2>3, <2>4, <3>1 DEF MethodOK
      <3>2. CASE d = c
        <4>1. \A j \in DOMAIN up[c] : up[c][j].id # nextId[c]
          <5> TAKE j \in DOMAIN up[c]
          <5>1. up[c][j].id < nextId[c]
            BY <1>t DEF UpOK
          <5>2. nextId[c] \in Int
            BY <2>3 DEF Ids
          <5> QED BY <5>1, <5>2
        <4> QED BY <2>3, <2>5, <3>2, <4>1
      <3> QED BY <3>1, <3>2
    <2>11. WorkOK'
      BY <1>e, <1>r, <1>t, <2>2 DEF WorkOK
    <2> QED BY <2>8, <2>9, <2>10, <2>11 DEF Telling
  <1>2. ASSUME NEW ending, NEW of, Complete(c, ending, of), cState[c] = "waiting",
               ending \in Endings, of \in Works \cup {None},
               UNCHANGED <<up, handlerVars, ownerVars>>,
               \A d \in Clients : \A k \in DOMAIN down'[d] :
                 \E j \in DOMAIN down[d] : down'[d][k] = down[d][j],
               ending \in Answered =>
                 /\ waitFor[c].id \in DoneIds(c)
                 /\ waitFor[c].method = "execute" =>
                      Honest(c, waitFor[c].id, ending, of, RanIds(c))
        PROVE  Telling'
    <2>1. /\ UNCHANGED <<waitFor, nextId, hState>>
          /\ results' = [results EXCEPT ![c] =
               Append(@, [id |-> waitFor[c].id, method |-> waitFor[c].method,
                          ending |-> ending, of |-> of])]
      BY <1>2 DEF Complete, handlerVars
    <2>2. \A d \in Clients : DoneIds(d)' = DoneIds(d) /\ Steady(d)
      BY <1>2, <1>e, <2>1, SameDone
    <2>3. DownOK'
      BY <1>2, <1>t, <2>1, <2>2, CarryDown
    <2>4. ResultsOK'
      <3> DEFINE r == [id |-> waitFor[c].id, method |-> waitFor[c].method,
                       ending |-> ending, of |-> of]
      <3>1. r \in Entries
        BY <1>2, <1>t DEF TypeInv, ClientTypes, Waits, Entries
      <3>2. EntryOK(c, r, DoneIds(c), RanIds(c))
        BY <1>2 DEF EntryOK
      <3> HIDE DEF r
      <3>3. results'[c] = Append(results[c], r) /\ results[c] \in Seq(Entries)
            /\ \A d \in Clients \ {c} : results'[d] = results[d]
        BY <1>t, <2>1 DEF TypeInv, ClientTypes, r
      <3>4. \A k \in DOMAIN Append(results[c], r) :
              \/ Append(results[c], r)[k] = r
              \/ \E j \in DOMAIN results[c] : Append(results[c], r)[k] = results[c][j]
        BY <3>1, <3>3, PutElements
      <3>5. EntryOK(c, r, DoneIds(c)', RanIds(c)')
        BY <1>r, <2>2, <3>2
      <3>6. \A d \in Clients : \A k \in DOMAIN results'[d] :
              \/ \E j \in DOMAIN results[d] : results'[d][k] = results[d][j]
              \/ EntryOK(d, results'[d][k], DoneIds(d)', RanIds(d)')
        BY <3>3, <3>4, <3>5
      <3> QED BY <1>t, <2>2, <3>6, CarryResults
    <2>5. MethodOK' /\ WorkOK'
      BY <1>2, <1>e, <1>r, <1>t, <2>1 DEF MethodOK, WorkOK
    <2> QED BY <2>3, <2>4, <2>5 DEF Telling
  <1>n. None \in Works \cup {None}
    OBVIOUS
  <1>3. CASE ReceiveNothing(c) \/ Timeout(c) \/ Interrupt(c)
    <2>1. PICK ending \in {"connection", "interrupt"} : Complete(c, ending, None)
      BY <1>3 DEF ReceiveNothing, Timeout, Interrupt
    <2>2. down' = down /\ cState[c] = "waiting" /\ UNCHANGED <<up, handlerVars, ownerVars>>
      BY <1>3 DEF ReceiveNothing, Timeout, Interrupt
    <2>3. ending \in Endings /\ ending \notin Answered
      BY <2>1 DEF Endings, Answered
    <2> QED BY <1>2, <1>n, <2>1, <2>2, <2>3
  <1>4. CASE Receive(c)
    <2> DEFINE m == Head(down[c])
    <2>1. /\ m \in Messages /\ Says(m)
          /\ ResponseOK(c, m, waitFor[c], DoneIds(c), RanIds(c))
          /\ \A d \in Clients : \A k \in DOMAIN down'[d] :
               \E j \in DOMAIN down[d] : down'[d][k] = down[d][j]
      <3>1. down[c] \in Seq(Messages) /\ down[c] # <<>>
        BY <1>4, <1>t DEF Receive, TypeInv, LinkTypes
      <3>2. /\ \A k \in DOMAIN Tail(down[c]) : k + 1 \in DOMAIN down[c]
                                               /\ Tail(down[c])[k] = down[c][k + 1]
            /\ 1 \in DOMAIN down[c] /\ m = down[c][1]
        BY <3>1, TailElements
      <3>3. m \in Messages /\ Says(m)
        BY <1>4, <1>t, TakeDown DEF Receive
      <3>4. down'[c] = Tail(down[c]) /\ \A d \in Clients \ {c} : down'[d] = down[d]
        BY <1>4, <1>t DEF Receive, TypeInv, LinkTypes
      <3>5. ResponseOK(c, m, waitFor[c], DoneIds(c), RanIds(c))
        BY <1>t, <3>2 DEF DownOK
      <3> HIDE DEF m
      <3>6. \A k \in DOMAIN down'[c] : \E j \in DOMAIN down[c] : down'[c][k] = down[c][j]
        BY <3>2, <3>4
      <3>7. \A d \in Clients : \A k \in DOMAIN down'[d] :
              \E j \in DOMAIN down[d] : down'[d][k] = down[d][j]
        BY <3>4, <3>6
      <3> QED BY <3>3, <3>5, <3>7
    <2> HIDE DEF m
    <2>2. cState[c] = "waiting" /\ UNCHANGED <<up, handlerVars, ownerVars>>
      BY <1>4 DEF Receive
    <2>3. \/ Complete(c, "protocol", None)
          \/ m.kind = "response" /\ m.id = waitFor[c].id /\ Complete(c, m.ending, m.of)
          \/ UNCHANGED <<cState, waitFor, nextId, results, cOpen>>
      BY <1>4 DEF Receive, Matches, m
    <2>4. CASE Complete(c, "protocol", None)
      <3>1. "protocol" \in Endings /\ "protocol" \notin Answered
        BY DEF Endings, Answered
      <3> QED BY <1>2, <1>n, <2>1, <2>2, <2>4, <3>1
    <2>5. CASE m.kind = "response" /\ m.id = waitFor[c].id /\ Complete(c, m.ending, m.of)
      <3>1. m.ending \in Endings /\ m.of \in Works \cup {None}
        BY <2>1, <2>5 DEF Says, Answered, Endings, Messages
      <3>2. /\ waitFor[c].id \in DoneIds(c)
            /\ waitFor[c].method = "execute" =>
                 Honest(c, waitFor[c].id, m.ending, m.of, RanIds(c))
        BY <2>1, <2>5 DEF ResponseOK
      <3> QED BY <1>2, <2>1, <2>2, <2>5, <3>1, <3>2
    <2>6. CASE UNCHANGED <<cState, waitFor, nextId, results, cOpen>>
      <3>1. \A d \in Clients : Steady(d)
        BY <1>e, <2>2, <2>6, SameDone DEF handlerVars
      <3>2. DownOK'
        BY <1>t, <2>1, <2>6, <3>1, CarryDown
      <3>3. ResultsOK'
        BY <1>t, <2>6, <3>1, CarryResults
      <3>4. MethodOK' /\ WorkOK'
        BY <1>r, <1>t, <2>2, <2>6 DEF MethodOK, WorkOK, handlerVars, ownerVars
      <3> QED BY <3>2, <3>3, <3>4 DEF Telling
    <2> QED BY <2>3, <2>4, <2>5, <2>6
  <1> QED BY <1>1, <1>3, <1>4 DEF ClientReads

-------------------------------------------------------------------------------
\* Reading a request: it is named as its client named it, has not run, and
\* is done with unless the handler takes it for execution.
LEMMA ReadTells ==
  ASSUME HonestInv, NEW c \in Clients, NEW request \in Incoming(c),
         up' = [up EXCEPT ![c] = Tail(@)], UNCHANGED <<nextId, waitFor>>,
         hId' = hId \/ hId' = [hId EXCEPT ![c] = request.id]
  PROVE  /\ MethodOK'
         /\ request \in Requests /\ hState[c] = "reading" /\ hId[c] < request.id
         /\ request.id = waitFor[c].id => request.method = waitFor[c].method
         /\ request.id \notin RanIds(c)
         /\ request.id < nextId[c]
         /\ \A k \in DOMAIN up'[c] : request.id < up'[c][k].id
         /\ \A i \in DoneIds(c) : i < request.id /\ \A k \in DOMAIN up'[c] : i < up'[c][k].id
         /\ \A d \in Clients \ {c} : up'[d] = up[d]
  <1>t. OrderInv /\ TypeInv /\ MethodOK /\ ExecutedOK
    BY DEF HonestInv, OrderInv, Ordered, Telling
  <1>1. /\ hId[c] < request.id /\ request.id < nextId[c] /\ hState[c] = "reading"
        /\ \A k \in DOMAIN up'[c] : request.id < up'[c][k].id
        /\ \A k \in DOMAIN up'[c] : k + 1 \in DOMAIN up[c] /\ up'[c][k] = up[c][k + 1]
        /\ request = up[c][1] /\ 1 \in DOMAIN up[c]
    BY <1>t, UpTake
  <1>2. request \in Requests
    BY <1>t, IncomingTyped
  <1>3. \A d \in Clients \ {c} : up'[d] = up[d]
    BY <1>t DEF TypeInv, LinkTypes
  <1>4. MethodOK'
    <2> SUFFICES ASSUME NEW d \in Clients, NEW k \in DOMAIN up'[d],
                        up'[d][k].id = waitFor[d].id
                 PROVE  up'[d][k].method = waitFor[d].method
      BY DEF MethodOK
    <2>1. \E j \in DOMAIN up[d] : up'[d][k] = up[d][j]
      BY <1>1, <1>3
    <2> QED BY <1>t, <2>1 DEF MethodOK
  <1>5. request.id = waitFor[c].id => request.method = waitFor[c].method
    BY <1>1, <1>t DEF MethodOK
  <1>6. request.id \notin RanIds(c)
    <2> SUFFICES ASSUME NEW k \in DOMAIN executed, executed[k] = <<c, request.id>> PROVE FALSE
      BY DEF RanIds
    <2>1. executed[k][2] <= hId[c]
      BY <1>t DEF ExecutedOK
    <2>2. request.id \in Int /\ hId[c] \in Int
      <3>1. request.id \in Ids /\ hId[c] \in Ids \cup {0}
        BY <1>2, <1>t DEF Requests, TypeInv, HandlerTypes
      <3> QED BY <3>1 DEF Ids
    <2> QED BY <1>1, <2>1, <2>2
  <1>7. \A i \in DoneIds(c) : i < request.id /\ \A k \in DOMAIN up'[c] : i < up'[c][k].id
    BY <1>1 DEF DoneIds
  <1> QED BY <1>1, <1>2, <1>3, <1>4, <1>5, <1>6, <1>7

\* A handler that has no work unfinished after its step.
LEMMA FreeHandler ==
  ASSUME HonestInv, NEW c \in Clients, hState'[c] # "executing",
         \A d \in Clients \ {c} : up'[d] = up[d] /\ hState'[d] = hState[d],
         \A i \in DoneIds(c) : \A k \in DOMAIN up'[c] : i < up'[c][k].id,
         UNCHANGED <<nextId, hId, workState, executed>>
  PROVE  /\ WorkOK' /\ \A d \in Clients : Steady(d) /\ RanIds(d)' = RanIds(d)
         /\ \A i \in Ids : i < nextId[c] /\ (\A k \in DOMAIN up'[c] : i < up'[c][k].id)
                             => i \in DoneIds(c)'
  <1>1. \A d \in Clients : RanIds(d)' = RanIds(d)
    BY DEF RanIds
  <1>2. \A i \in Ids : i < nextId[c] /\ (\A k \in DOMAIN up'[c] : i < up'[c][k].id)
                         => i \in DoneIds(c)'
    BY DEF DoneIds, Unfinished
  <1>3. Steady(c)
    <2>1. \A i \in DoneIds(c) : i \in Ids /\ i < nextId[c]
      BY DEF DoneIds
    <2> QED BY <1>1, <1>2, <2>1 DEF Steady
  <1>4. \A d \in Clients \ {c} : Steady(d)
    BY SameDone
  <1>5. WorkOK'
    BY <1>1 DEF WorkOK, HonestInv, Telling
  <1> QED BY <1>1, <1>2, <1>3, <1>4, <1>5

\* One more message to c at most.
LEMMA OneMessage ==
  ASSUME HonestInv, NEW c \in Clients, NEW m \in Messages,
         down' = down \/ down' = [down EXCEPT ![c] = Append(@, m)],
         ResponseOK(c, m, waitFor[c], DoneIds(c)', RanIds(c)'),
         \A d \in Clients : Steady(d), UNCHANGED <<waitFor, results>>
  PROVE  DownOK' /\ ResultsOK'
  <1>t. TypeInv /\ DownOK /\ ResultsOK
    BY DEF HonestInv, OrderInv, Telling
  <1>1. down[c] \in Seq(Messages)
    BY <1>t DEF TypeInv, LinkTypes
  <1>2. \A k \in DOMAIN Append(down[c], m) :
          \/ Append(down[c], m)[k] = m
          \/ \E j \in DOMAIN down[c] : Append(down[c], m)[k] = down[c][j]
    BY <1>1, PutElements
  <1>3. /\ \A d \in Clients \ {c} : down'[d] = down[d]
        /\ down'[c] = down[c] \/ down'[c] = Append(down[c], m)
    BY <1>t DEF TypeInv, LinkTypes
  <1>4. \A d \in Clients : \A k \in DOMAIN down'[d] :
          \/ \E j \in DOMAIN down[d] : down'[d][k] = down[d][j]
          \/ ResponseOK(d, down'[d][k], waitFor'[d], DoneIds(d)', RanIds(d)')
    <2> SUFFICES ASSUME NEW d \in Clients, NEW k \in DOMAIN down'[d]
                 PROVE  \/ \E j \in DOMAIN down[d] : down'[d][k] = down[d][j]
                        \/ ResponseOK(d, down'[d][k], waitFor'[d], DoneIds(d)', RanIds(d)')
      OBVIOUS
    <2>1. CASE d # c \/ down'[c] = down[c]
      BY <1>3, <2>1
    <2>2. CASE d = c /\ down'[c] = Append(down[c], m)
      BY <1>2, <2>2
    <2> QED BY <1>3, <2>1, <2>2
  <1>5. DownOK'
    BY <1>4, <1>t, CarryDown
  <1>6. ResultsOK'
    BY <1>t, CarryResults
  <1> QED BY <1>5, <1>6

\* A response and what becomes of its handler.
LEMMA Responded ==
  ASSUME HonestInv, NEW c \in Clients, NEW m, Respond(c, m)
  PROVE  /\ down' = down \/ down' = [down EXCEPT ![c] = Append(@, m)]
         /\ hState'[c] # "executing" /\ \A d \in Clients \ {c} : hState'[d] = hState[d]
  BY DEF Respond, HandlerGone, HonestInv, OrderInv, TypeInv, HandlerTypes

\* The answer to a request that was not for execution, or was refused.
LEMMA AnswerTells ==
  ASSUME HonestInv, NEW c \in Clients, NEW request \in Incoming(c),
         NEW ending \in {"result", "rejected"},
         ending = "result" => request.method # "execute",
         up' = [up EXCEPT ![c] = Tail(@)],
         \/ down' = down
         \/ down' = [down EXCEPT ![c] = Append(@, Response(request.id, ending, None))],
         hState'[c] # "executing", \A d \in Clients \ {c} : hState'[d] = hState[d],
         UNCHANGED <<nextId, waitFor, results, hId, workState, executed>>
  PROVE  Telling'
  <1>1. /\ MethodOK' /\ request \in Requests
        /\ request.id = waitFor[c].id => request.method = waitFor[c].method
        /\ request.id \notin RanIds(c) /\ request.id < nextId[c]
        /\ \A k \in DOMAIN up'[c] : request.id < up'[c][k].id
        /\ \A i \in DoneIds(c) : \A k \in DOMAIN up'[c] : i < up'[c][k].id
        /\ \A d \in Clients \ {c} : up'[d] = up[d]
    BY ReadTells
  <1>2. /\ WorkOK' /\ \A d \in Clients : Steady(d) /\ RanIds(d)' = RanIds(d)
        /\ \A i \in Ids : i < nextId[c] /\ (\A k \in DOMAIN up'[c] : i < up'[c][k].id)
                            => i \in DoneIds(c)'
    BY <1>1, FreeHandler
  <1> DEFINE m == Response(request.id, ending, None)
  <1>3. request.id \in Ids
    BY <1>1 DEF Requests
  <1>4. m \in Messages
    <2>1. None \in Works \cup {None} /\ ending \in Answered
      BY DEF Answered
    <2> QED BY <1>3, <2>1, ResponseTyped
  <1>5. request.id \in DoneIds(c)'
    BY <1>1, <1>2, <1>3
  <1>6. /\ m.kind = "response" /\ m.id = request.id /\ m.ending = ending
    BY DEF Response
  <1> HIDE DEF m
  <1>7. ResponseOK(c, m, waitFor[c], DoneIds(c)', RanIds(c)')
    BY <1>1, <1>2, <1>5, <1>6 DEF ResponseOK, Honest
  <1>8. down' = down \/ down' = [down EXCEPT ![c] = Append(@, m)]
    BY DEF m
  <1>9. DownOK' /\ ResultsOK'
    BY <1>2, <1>4, <1>7, <1>8, OneMessage
  <1> QED BY <1>1, <1>2, <1>9 DEF Telling

\* A step of the handler of c.
LEMMA HandlerTells ==
  ASSUME HonestInv, NEW c \in Clients, HandlerStep(c) \/ SendHeartbeat(c)
  PROVE  Telling'
  <1>t. TypeInv /\ OrderInv /\ UpOK /\ DownOK /\ ResultsOK /\ MethodOK /\ WorkOK
    BY DEF HonestInv, OrderInv, Ordered, Telling
  <1>c. UNCHANGED <<waitFor, nextId, results, executed>>
    BY DEF HandlerStep, HandleHandshake, HandleExecute, HandleOther, HandleClose,
           HandlerDisconnected, HandlerAnswers, SendHeartbeat, clientVars, ownerVars
  <1>1. CASE HandleHandshake(c)
    <2>1. PICK request \in Incoming(c), ok \in BOOLEAN :
            /\ up' = [up EXCEPT ![c] = Tail(@)]
            /\ ok => request.method = "handshake"
            /\ Respond(c, Response(request.id, IF ok THEN "result" ELSE "rejected", None))
            /\ UNCHANGED <<hId, ownerVars>>
      BY <1>1 DEF HandleHandshake
    <2>2. PICK ending \in {"result", "rejected"} :
            /\ ending = "result" => request.method # "execute"
            /\ Respond(c, Response(request.id, ending, None))
      BY <2>1
    <2>3. UNCHANGED <<hId, workState>>
      BY <2>1 DEF ownerVars
    <2>4. /\ \/ down' = down
             \/ down' = [down EXCEPT ![c] = Append(@, Response(request.id, ending, None))]
          /\ hState'[c] # "executing" /\ \A d \in Clients \ {c} : hState'[d] = hState[d]
      BY <2>2, Responded
    <2> QED BY <1>c, <2>1, <2>2, <2>3, <2>4, AnswerTells
  <1>2. CASE HandleOther(c)
    <2>1. PICK request \in Incoming(c) :
            /\ up' = [up EXCEPT ![c] = Tail(@)]
            /\ Respond(c, Response(request.id,
                             IF request.method = "ping" THEN "result" ELSE "rejected", None))
            /\ UNCHANGED <<hId, ownerVars>>
      BY <1>2 DEF HandleOther
    <2>2. PICK ending \in {"result", "rejected"} :
            /\ ending = "result" => request.method # "execute"
            /\ Respond(c, Response(request.id, ending, None))
      BY <2>1
    <2>3. UNCHANGED <<hId, workState>>
      BY <2>1 DEF ownerVars
    <2>4. /\ \/ down' = down
             \/ down' = [down EXCEPT ![c] = Append(@, Response(request.id, ending, None))]
          /\ hState'[c] # "executing" /\ \A d \in Clients \ {c} : hState'[d] = hState[d]
      BY <2>2, Responded
    <2> QED BY <1>c, <2>1, <2>2, <2>3, <2>4, AnswerTells
  <1>g. ASSUME HandlerGone(c)
        PROVE  hState'[c] # "executing" /\ \A d \in Clients \ {c} : hState'[d] = hState[d]
    BY <1>g, <1>t DEF HandlerGone, TypeInv, HandlerTypes
  <1>3. CASE HandleClose(c)
    <2>1. PICK request \in Incoming(c) :
            /\ up' = [up EXCEPT ![c] = Tail(@)]
            /\ request.method = "close"
            /\ \/ down' = down
               \/ down' = [down EXCEPT ![c] = Append(@, Response(request.id, "result", None))]
            /\ HandlerGone(c)
            /\ UNCHANGED <<hId, ownerVars>>
      BY <1>3 DEF HandleClose
    <2>2. UNCHANGED <<hId, workState>>
      BY <2>1 DEF ownerVars
    <2>3. "result" \in {"result", "rejected"} /\ request.method # "execute"
      BY <2>1
    <2> QED BY <1>c, <1>g, <2>1, <2>2, <2>3, AnswerTells
  <1>4. ASSUME hState'[c] # "executing", \A d \in Clients \ {c} : hState'[d] = hState[d],
               UNCHANGED <<up, hId, workState>>
        PROVE  /\ WorkOK' /\ MethodOK' /\ \A d \in Clients : Steady(d) /\ RanIds(d)' = RanIds(d)
               /\ \A i \in Ids : i < nextId[c] /\ (\A k \in DOMAIN up'[c] : i < up'[c][k].id)
                                   => i \in DoneIds(c)'
    <2>1. \A i \in DoneIds(c) : \A k \in DOMAIN up'[c] : i < up'[c][k].id
      BY <1>4 DEF DoneIds
    <2>2. MethodOK'
      BY <1>4, <1>c, <1>t DEF MethodOK
    <2> QED BY <1>4, <1>c, <2>1, <2>2, FreeHandler
  <1>5. ASSUME HandlerGone(c), UNCHANGED <<up, down, hId, workState>>
        PROVE  Telling'
    <2>1. WorkOK' /\ MethodOK' /\ \A d \in Clients : Steady(d)
      BY <1>4, <1>5, <1>g
    <2>2. DownOK' /\ ResultsOK'
      BY <1>5, <1>c, <1>t, <2>1, CarryDown, CarryResults
    <2> QED BY <2>1, <2>2 DEF Telling
  <1>6. CASE HandlerDisconnected(c)
    BY <1>5, <1>6 DEF HandlerDisconnected, ownerVars
  <1>7. CASE HandlerAnswers(c)
    <2>1. /\ hState[c] = "executing" /\ workState[c] \in {"result", "error", "refused"}
          /\ UNCHANGED <<up, hId, workState>>
      BY <1>7 DEF HandlerAnswers, ownerVars
    <2>2. CASE connected[c]
      <3> DEFINE m == Response(hId[c], workState[c], <<c, hId[c]>>)
      <3>1. hId[c] \in Ids
        BY <1>t, <2>1 DEF TypeInv, Executes
      <3>2. m \in Messages
        <4>1. <<c, hId[c]>> \in Works \cup {None}
          BY <3>1 DEF Works
        <4> QED BY <2>1, <3>1, <4>1, ResponseTyped DEF Answered
      <3>3. Respond(c, m)
        BY <1>7, <2>2 DEF HandlerAnswers
      <3>4. m.kind = "response" /\ m.id = hId[c] /\ m.ending = workState[c] /\ m.of = <<c, hId[c]>>
        BY DEF Response
      <3> HIDE DEF m
      <3>5. /\ down' = down \/ down' = [down EXCEPT ![c] = Append(@, m)]
            /\ hState'[c] # "executing" /\ \A d \in Clients \ {c} : hState'[d] = hState[d]
        BY <3>3, Responded
      <3>6. /\ WorkOK' /\ MethodOK' /\ \A d \in Clients : Steady(d) /\ RanIds(d)' = RanIds(d)
            /\ \A i \in Ids : i < nextId[c] /\ (\A k \in DOMAIN up'[c] : i < up'[c][k].id)
                                => i \in DoneIds(c)'
        BY <1>4, <2>1, <3>5
      <3>7. hId[c] \in DoneIds(c)'
        BY <1>t, <2>1, <3>1, <3>6 DEF UpOK
      <3>8. Honest(c, hId[c], workState[c], <<c, hId[c]>>, RanIds(c)')
        BY <1>t, <2>1, <3>6 DEF WorkOK, Honest
      <3>9. ResponseOK(c, m, waitFor[c], DoneIds(c)', RanIds(c)')
        BY <3>4, <3>7, <3>8 DEF ResponseOK
      <3>10. DownOK' /\ ResultsOK'
        BY <1>c, <3>2, <3>5, <3>6, <3>9, OneMessage
      <3> QED BY <3>6, <3>10 DEF Telling
    <2>3. CASE ~connected[c]
      BY <1>5, <1>7, <2>1, <2>3 DEF HandlerAnswers
    <2> QED BY <2>2, <2>3
  <1>8. CASE SendHeartbeat(c)
    <2>1. /\ hState[c] = "executing" /\ workState[c] \in {"queued", "executing"}
          /\ UNCHANGED <<up, hState, hId, workState>>
      BY <1>8 DEF SendHeartbeat, ownerVars
    <2>2. \A d \in Clients : Steady(d) /\ RanIds(d)' = RanIds(d)
      BY <1>c, <2>1, SameDone
    <2>3. WorkOK' /\ MethodOK'
      BY <1>c, <1>t, <2>1, <2>2 DEF WorkOK, MethodOK
    <2> DEFINE m == Heartbeat(hId[c], workState[c])
    <2>4. m \in Messages
      BY <1>t, <2>1, HeartbeatTyped DEF TypeInv, Executes
    <2>5. ResponseOK(c, m, waitFor[c], DoneIds(c)', RanIds(c)')
      BY DEF ResponseOK, Heartbeat
    <2>6. down' = down \/ down' = [down EXCEPT ![c] = Append(@, m)]
      BY <1>8 DEF SendHeartbeat
    <2> HIDE DEF m
    <2>7. DownOK' /\ ResultsOK'
      BY <1>c, <2>2, <2>4, <2>5, <2>6, OneMessage
    <2> QED BY <2>3, <2>7 DEF Telling
  <1>9. CASE HandleExecute(c)
    <2>1. PICK request \in Incoming(c) :
            /\ up' = [up EXCEPT ![c] = Tail(@)]
            /\ hId' = [hId EXCEPT ![c] = request.id]
      BY <1>9 DEF HandleExecute
    <2>2. /\ workState' = [workState EXCEPT ![c] = "queued"]
          /\ hState' = [hState EXCEPT ![c] = "executing"]
          /\ UNCHANGED down
      BY <1>9 DEF HandleExecute
    <2>3. /\ workState'[c] = "queued" /\ hId'[c] = request.id
          /\ \A d \in Clients \ {c} : hState'[d] = hState[d] /\ hId'[d] = hId[d]
                                      /\ workState'[d] = workState[d]
      BY <1>t, <2>1, <2>2 DEF TypeInv, HandlerTypes, OwnerTypes
    <2>4. /\ MethodOK' /\ request \in Requests
          /\ \A i \in DoneIds(c) : i < request.id /\ \A k \in DOMAIN up'[c] : i < up'[c][k].id
          /\ \A d \in Clients \ {c} : up'[d] = up[d]
      BY <1>c, <2>1, ReadTells
    <2>5. \A d \in Clients : RanIds(d)' = RanIds(d)
      BY <1>c DEF RanIds
    <2>6. Steady(c)
      <3> SUFFICES ASSUME NEW i \in DoneIds(c) PROVE i \in DoneIds(c)'
        BY <2>5 DEF Steady
      <3>1. i \in Ids /\ i < nextId'[c] /\ i < request.id
        BY <1>c, <2>4 DEF DoneIds
      <3>2. i # hId'[c]
        <4>1. i \in Int /\ request.id \in Int
          BY <2>4, <3>1 DEF Requests, Ids
        <4> QED BY <2>3, <3>1, <4>1
      <3> QED BY <2>4, <3>1, <3>2 DEF DoneIds
    <2>7. \A d \in Clients \ {c} : Steady(d)
      BY <1>c, <2>3, <2>4, SameDone
    <2>8. WorkOK'
      BY <1>t, <2>3, <2>5 DEF WorkOK
    <2>9. DownOK' /\ ResultsOK'
      BY <1>c, <1>t, <2>2, <2>6, <2>7, CarryDown, CarryResults
    <2> QED BY <2>4, <2>8, <2>9 DEF Telling
  <1> QED BY <1>1, <1>2, <1>3, <1>6, <1>7, <1>8, <1>9 DEF HandlerStep

-------------------------------------------------------------------------------
\* A step of the worker or of a server that stops.
LEMMA OwnerTells ==
  ASSUME HonestInv, WorkerStep \/ StopServing \/ StopStep
  PROVE  Telling'
  <1>t. /\ TypeInv /\ UpOK /\ QueueOK /\ RunningOK /\ ExecutedOK
        /\ DownOK /\ ResultsOK /\ MethodOK /\ WorkOK
    BY DEF HonestInv, OrderInv, Ordered, Telling
  <1>c. UNCHANGED <<waitFor, nextId, results, up, down, hId>>
    BY DEF WorkerStep, WorkerTakes, WorkerFinishes, StopServing, StopStep, JoinEnds,
           ExecutorCloses, Exit, clientVars, linkVars, handlerVars
  <1>1. MethodOK'
    BY <1>c, <1>t DEF MethodOK
  <1>2. ASSUME \A d \in Clients : Steady(d) PROVE DownOK' /\ ResultsOK'
    BY <1>2, <1>c, <1>t, CarryDown, CarryResults
  <1>3. ASSUME UNCHANGED executed, \A d \in Clients : Unfinished(d)' => Unfinished(d), WorkOK'
        PROVE  Telling'
    <2>1. \A d \in Clients : Steady(d)
      BY <1>3, <1>c DEF Steady, DoneIds, RanIds
    <2> QED BY <1>1, <1>2, <1>3, <2>1 DEF Telling
  <1>4. CASE WorkerTakes
    <2>1. UNCHANGED <<hState, executed>>
      BY <1>4 DEF WorkerTakes, handlerVars
    <2>2. \A d \in Clients : RanIds(d)' = RanIds(d)
      BY <2>1 DEF RanIds
    <2>3. CASE UNCHANGED workState
      BY <1>3, <1>c, <1>t, <2>1, <2>2, <2>3 DEF WorkOK, Unfinished
    <2>4. CASE ~UNCHANGED workState
      <3> DEFINE w == Head(queue)
      <3>1. w # Stop /\ queue # <<>> /\ workState' = [workState EXCEPT ![w[1]] = "executing"]
        BY <1>4, <2>4 DEF WorkerTakes
      <3>2. w = queue[1] /\ 1 \in DOMAIN queue
        <4> DEFINE S == Works \cup {Stop}
        <4>1. queue \in Seq(S)
          BY <1>t DEF TypeInv, OwnerTypes
        <4> HIDE DEF S
        <4> QED BY <3>1, <4>1, TailElements
      <3> HIDE DEF w
      <3>3. Pending(hState, hId, workState, w, "queued")
        BY <1>t, <3>1, <3>2 DEF QueueOK
      <3>4. PICK c \in Clients : w = <<c, hId[c]>> /\ hState[c] = "executing"
                                 /\ workState[c] = "queued"
        BY <3>3 DEF Pending
      <3>5. workState'[c] = "executing" /\ \A d \in Clients \ {c} : workState'[d] = workState[d]
        BY <1>t, <3>1, <3>4 DEF TypeInv, OwnerTypes
      <3>6. WorkOK'
        BY <1>c, <1>t, <2>1, <2>2, <3>5 DEF WorkOK
      <3>7. \A d \in Clients : Unfinished(d)' => Unfinished(d)
        BY <2>1, <3>4, <3>5 DEF Unfinished
      <3> QED BY <1>3, <2>1, <3>6, <3>7
    <2> QED BY <2>3, <2>4
  <1>5. CASE WorkerFinishes
    <2>1. PICK ending \in {"result", "error", "refused"} :
            /\ workState' = [workState EXCEPT ![running[1]] = ending]
            /\ executed' = IF ending = "refused" THEN executed ELSE Append(executed, running)
      BY <1>5 DEF WorkerFinishes
    <2>2. running # None /\ UNCHANGED hState
      BY <1>5 DEF WorkerFinishes, handlerVars
    <2>3. PICK c \in Clients : /\ running = <<c, hId[c]>> /\ hState[c] = "executing"
                               /\ workState[c] = "executing"
      BY <1>t, <2>2 DEF RunningOK, Pending
    <2>4. /\ workState'[c] = ending
          /\ \A d \in Clients \ {c} : workState'[d] = workState[d]
      BY <1>t, <2>1, <2>3 DEF TypeInv, OwnerTypes
    <2>5. Unfinished(c) /\ \A d \in Clients : Unfinished(d)' => Unfinished(d) /\ d # c
      BY <2>1, <2>2, <2>3, <2>4 DEF Unfinished
    <2>6. hId[c] \notin RanIds(c)
      <3> SUFFICES ASSUME NEW k \in DOMAIN executed, executed[k] = <<c, hId[c]>> PROVE FALSE
        BY DEF RanIds
      <3>1. executed[k][2] < hId[c] /\ executed[k][2] = hId[c]
        BY <1>t, <2>5 DEF ExecutedOK
      <3>2. hId[c] \in Int
        <4>1. hId[c] \in Ids \cup {0}
          BY <1>t DEF TypeInv, HandlerTypes
        <4> QED BY <4>1 DEF Ids
      <3> QED BY <3>1, <3>2
    <2>7. CASE ending = "refused"
      <3>1. executed' = executed
        BY <2>1, <2>7
      <3>2. \A d \in Clients : RanIds(d)' = RanIds(d)
        BY <3>1 DEF RanIds
      <3>3. WorkOK'
        BY <1>c, <1>t, <2>2, <2>4, <2>6, <2>7, <3>2 DEF WorkOK
      <3> QED BY <1>3, <2>5, <3>1, <3>3
    <2>8. CASE ending # "refused"
      <3>1. executed \in Seq(Works) /\ running \in Works /\ executed' = Append(executed, running)
        BY <1>t, <2>1, <2>2, <2>8 DEF TypeInv, OwnerTypes
      <3>2. /\ \A k \in 1..Len(executed) : executed'[k] = executed[k]
            /\ executed'[Len(executed) + 1] = running
            /\ DOMAIN executed = 1..Len(executed) /\ DOMAIN executed' = 1..(Len(executed) + 1)
            /\ Len(executed) \in Nat
        BY <3>1, PutLast
      <3>3. \A k \in DOMAIN executed : k \in DOMAIN executed' /\ executed'[k] = executed[k]
        BY <3>2
      <3>4. Len(executed) + 1 \in DOMAIN executed'
        BY <3>2
      <3>5. \A k \in DOMAIN executed' : k \in DOMAIN executed \/ executed'[k] = running
        BY <3>2
      <3>6. hId[c] \in Ids
        BY <1>t, <2>3 DEF TypeInv, Executes
      <3>7. hId[c] \in RanIds(c)'
        BY <2>3, <3>2, <3>4, <3>6 DEF RanIds
      <3>8. \A d \in Clients : \A i \in Ids :
              i \in RanIds(d)' <=> i \in RanIds(d) \/ (d = c /\ i = hId[c])
        <4> SUFFICES ASSUME NEW d \in Clients, NEW i \in Ids
                     PROVE  i \in RanIds(d)' <=> i \in RanIds(d) \/ (d = c /\ i = hId[c])
          OBVIOUS
        <4>1. i \in RanIds(d) => i \in RanIds(d)'
          BY <3>3 DEF RanIds
        <4>2. ASSUME NEW k \in DOMAIN executed', executed'[k] = <<d, i>>
              PROVE  i \in RanIds(d) \/ (d = c /\ i = hId[c])
          <5>1. CASE k \in DOMAIN executed
            BY <3>3, <4>2, <5>1 DEF RanIds
          <5>2. CASE executed'[k] = running
            BY <2>3, <4>2, <5>2
          <5> QED BY <3>5, <5>1, <5>2
        <4>3. i \in RanIds(d)' => i \in RanIds(d) \/ (d = c /\ i = hId[c])
          BY <4>2 DEF RanIds
        <4> QED BY <3>7, <4>1, <4>3
      <3>9. \A d \in Clients : Steady(d)
        <4> SUFFICES ASSUME NEW d \in Clients, NEW i \in DoneIds(d)
                     PROVE  i \in DoneIds(d)' /\ (i \in RanIds(d)' <=> i \in RanIds(d))
          BY DEF Steady
        <4>1. i \in Ids /\ ~(d = c /\ i = hId[c])
          BY <2>5 DEF DoneIds
        <4>2. i \in DoneIds(d)'
          BY <1>c, <2>5 DEF DoneIds
        <4> QED BY <3>8, <4>1, <4>2
      <3>10. WorkOK'
        <4> SUFFICES ASSUME NEW d \in Clients, hState[d] = "executing"
                     PROVE  /\ workState'[d] \in {"result", "error"} => hId[d] \in RanIds(d)'
                            /\ workState'[d] = "refused" => hId[d] \notin RanIds(d)'
          BY <1>c, <2>2 DEF WorkOK
        <4>1. CASE d = c
          BY <2>4, <2>8, <3>7, <4>1
        <4>2. CASE d # c
          <5>1. hId[d] \in Ids
            BY <1>t DEF TypeInv, Executes
          <5> QED BY <1>t, <2>4, <3>8, <4>2, <5>1 DEF WorkOK
        <4> QED BY <4>1, <4>2
      <3> QED BY <1>1, <1>2, <3>9, <3>10 DEF Telling
    <2> QED BY <2>7, <2>8
  <1>6. CASE StopServing \/ JoinEnds \/ ExecutorCloses
    <2>1. UNCHANGED <<hState, workState, executed>>
      BY <1>6 DEF StopServing, JoinEnds, ExecutorCloses, handlerVars, ownerVars
    <2>2. \A d \in Clients : RanIds(d)' = RanIds(d)
      BY <2>1 DEF RanIds
    <2> QED BY <1>3, <1>c, <1>t, <2>1, <2>2 DEF WorkOK, Unfinished
  <1>7. CASE Exit
    <2>1. UNCHANGED <<workState, executed>> /\ \A d \in Clients : hState'[d] # "executing"
      BY <1>7 DEF Exit
    <2> QED BY <1>3, <2>1 DEF WorkOK, Unfinished
  <1> QED BY <1>4, <1>5, <1>6, <1>7 DEF WorkerStep, StopStep

\* Nobody has been told anything yet.
LEMMA InitTells == Init => HonestInv
  <1> SUFFICES ASSUME Init PROVE Telling
    BY InitOrdered DEF HonestInv
  <1>1. DownOK /\ ResultsOK
    BY DEF Init, DownOK, ResultsOK
  <1>2. MethodOK /\ WorkOK
    BY DEF Init, MethodOK, WorkOK
  <1> QED BY <1>1, <1>2 DEF Telling

\* All steps.
LEMMA NextTells == HonestInv /\ [Next]_vars => HonestInv'
  <1> SUFFICES ASSUME HonestInv, [Next]_vars PROVE Telling'
    BY NextOrdered DEF HonestInv
  <1>o. OrderInv'
    BY NextOrdered DEF HonestInv
  <1>1. ASSUME NEW c \in Clients,
               \/ Connect(c) \/ \E method \in Methods : Request(c, method)
               \/ ClientReads(c) \/ Timeout(c) \/ Interrupt(c)
               \/ HandlerStep(c) \/ SendHeartbeat(c)
        PROVE  Telling'
    BY <1>1, <1>o, ClientTells, HandlerTells
  <1>2. CASE WorkerStep \/ StopServing \/ StopStep
    BY <1>2, OwnerTells
  <1>3. CASE UNCHANGED vars
    <2>1. UNCHANGED <<waitFor, nextId, results, up, down, hState, hId, workState, executed>>
      BY <1>3 DEF vars, clientVars, linkVars, handlerVars, ownerVars
    <2>2. \A d \in Clients : Steady(d) /\ RanIds(d)' = RanIds(d)
      BY <2>1, SameDone
    <2>3. DownOK' /\ ResultsOK'
      BY <2>1, <2>2, CarryDown, CarryResults DEF HonestInv, Telling
    <2>4. MethodOK' /\ WorkOK'
      BY <2>1, <2>2 DEF HonestInv, Telling, MethodOK, WorkOK
    <2> QED BY <2>3, <2>4 DEF Telling
  <1> QED BY <1>1, <1>2, <1>3 DEF Next

\* The history that the invariant speaks of is the one of the property.
LEMMA TellsHonestly == HonestInv => AnswersAreHonest
  <1> SUFFICES ASSUME HonestInv, NEW c \in Clients, NEW k \in DOMAIN results[c],
                      results[c][k].method = "execute"
               PROVE  LET r == results[c][k] IN
                      /\ r.ending \in {"result", "error"} =>
                           r.of = <<c, r.id>> /\ Runs(c, r.id) # {}
                      /\ r.ending \in {"refused", "rejected"} => Runs(c, r.id) = {}
    BY DEF AnswersAreHonest
  <1> DEFINE r == results[c][k]
  <1>1. r.ending \in Answered => Honest(c, r.id, r.ending, r.of, RanIds(c))
    BY DEF HonestInv, Telling, ResultsOK, EntryOK
  <1>2. r.id \in Ids
    <2>1. results[c] \in Seq(Entries)
      BY DEF HonestInv, OrderInv, TypeInv, ClientTypes
    <2>2. r \in Entries
      BY <2>1, ElementOfSeq, LenProperties
    <2> QED BY <2>2 DEF Entries
  <1>3. r.id \in RanIds(c) <=> Runs(c, r.id) # {}
    BY <1>2 DEF RanIds, Runs
  <1> HIDE DEF r
  <1>4. /\ r.ending \in {"result", "error"} => r.of = <<c, r.id>> /\ Runs(c, r.id) # {}
        /\ r.ending \in {"refused", "rejected"} => Runs(c, r.id) = {}
    BY <1>1, <1>3 DEF Answered, Honest
  <1> QED BY <1>4 DEF r

(* A request that returns from execute() tells the truth about its own     *)
(* batch: a result or an error is that batch's, which ran, and a refusal   *)
(* means that it never ran and never will - for any connections, and with  *)
(* older answers left in the connection by timeouts and interrupts.        *)
THEOREM AnswersHonest == Spec => []AnswersAreHonest
  <1> QED BY InitTells, NextTells, TellsHonestly, PTL DEF Spec

-------------------------------------------------------------------------------
(* A client that gave up none of its requests has nothing of an earlier    *)
(* request before it.                                                      *)
Attends(c)  == hState[c] \in {"reading", "executing"}
Given(c)    == \E k \in DOMAIN results[c] : results[c][k].ending = "interrupt"
Misled(c)   == \E k \in DOMAIN results[c] : results[c][k].ending = "protocol"

\* The handler of c has nothing to answer.
Nothing(c) == Attends(c) => hState[c] = "reading" /\ up[c] = <<>>

\* All that is on its way, to either side, is about the request waited for,
\* and after its response nothing follows.
About(c) ==
  /\ \A k \in DOMAIN down[c] : down[c][k].id = waitFor[c].id
  /\ \A k \in DOMAIN down[c] :
       down[c][k].kind = "response" => k = Len(down[c]) /\ Nothing(c)
  /\ hState[c] = "reading" =>
       Len(up[c]) <= 1 /\ \A k \in DOMAIN up[c] : up[c][k].id = waitFor[c].id
  /\ hState[c] = "executing" => up[c] = <<>> /\ hId[c] = waitFor[c].id

CalmAt(c) ==
  ~latched[c] /\ ~Given(c) =>
    /\ cState[c] \in {"start", "ready"} => down[c] = <<>> /\ Nothing(c)
    /\ cState[c] = "waiting" => About(c)
CalmOK == \A c \in Clients : CalmAt(c)

\* A handler that attends to a client has its end of the connection open.
OpenOK == \A c \in Clients : Attends(c) => sOpen[c]

Calm    == CalmOK /\ OpenOK /\ UndisturbedClient
CalmInv == TypeInv /\ StartOK /\ Calm

LEMMA SameCalm ==
  ASSUME NEW c \in Clients, CalmAt(c),
         latched'[c] = latched[c], results'[c] = results[c], cState'[c] = cState[c],
         down'[c] = down[c], waitFor'[c] = waitFor[c], up'[c] = up[c], hId'[c] = hId[c],
         hState'[c] = hState[c] \/ ~Attends(c)'
  PROVE  CalmAt(c)'
  <1>1. Given(c)' = Given(c)
    BY DEF Given
  <1>2. Nothing(c) => Nothing(c)'
    BY DEF Nothing, Attends
  <1>3. About(c) => About(c)'
    BY <1>2 DEF About, Attends
  <1> QED BY <1>1, <1>2, <1>3 DEF CalmAt

\* The history of c with the entry e.
LEMMA HistoryGrows ==
  ASSUME NEW c \in Clients, results[c] \in Seq(Entries), NEW e \in Entries,
         results'[c] = Append(results[c], e)
  PROVE  /\ Given(c)' <=> Given(c) \/ e.ending = "interrupt"
         /\ Misled(c)' <=> Misled(c) \/ e.ending = "protocol"
  <1>1. /\ \A k \in 1..Len(results[c]) : results'[c][k] = results[c][k]
        /\ results'[c][Len(results[c]) + 1] = e
        /\ DOMAIN results[c] = 1..Len(results[c])
        /\ DOMAIN results'[c] = 1..(Len(results[c]) + 1)
        /\ Len(results[c]) \in Nat
    BY PutLast
  <1>2. \A k \in DOMAIN results[c] : k \in DOMAIN results'[c] /\ results'[c][k] = results[c][k]
    BY <1>1
  <1>3. \A k \in DOMAIN results'[c] :
          (k \in DOMAIN results[c] /\ results'[c][k] = results[c][k]) \/ results'[c][k] = e
    BY <1>1
  <1>4. \E k \in DOMAIN results'[c] : results'[c][k] = e
    <2>1. Len(results[c]) + 1 \in DOMAIN results'[c]
      BY <1>1
    <2> QED BY <1>1, <2>1
  <1>5. Given(c)' <=> Given(c) \/ e.ending = "interrupt"
    BY <1>2, <1>3, <1>4 DEF Given
  <1>6. Misled(c)' <=> Misled(c) \/ e.ending = "protocol"
    BY <1>2, <1>3, <1>4 DEF Misled
  <1> QED BY <1>5, <1>6

\* The property in the words of the invariant.
LEMMA UndisturbedMeans ==
  ASSUME TRUE
  PROVE  /\ UndisturbedClient <=> \A c \in Clients : ~Given(c) => ~Misled(c)
         /\ UndisturbedClient' <=> \A c \in Clients : ~Given(c)' => ~Misled(c)'
  BY DEF UndisturbedClient, Given, Misled

-------------------------------------------------------------------------------
\* A request that c sends finds nothing on its way.
LEMMA SendCalm ==
  ASSUME CalmInv, NEW c \in Clients, NEW method \in Methods, SendRequest(c, method),
         cState[c] \in {"start", "ready"}, UNCHANGED <<latched, results, down, hId>>,
         \/ hState'[c] = hState[c]
         \/ up[c] = <<>> /\ hState'[c] = "reading"
         \/ hState'[c] = "reading" /\ up'[c] = <<[id |-> Numbered(c), method |-> method]>>,
         \/ up'[c] = <<[id |-> Numbered(c), method |-> method]>>
         \/ up'[c] = Append(up[c], [id |-> Numbered(c), method |-> method])
         \/ up'[c] = up[c]
  PROVE  CalmAt(c)'
  <1>t. TypeInv /\ CalmAt(c)
    BY DEF CalmInv, Calm, CalmOK
  <1> SUFFICES ASSUME ~latched[c], ~Given(c) PROVE About(c)'
    <2>1. latched'[c] = latched[c] /\ Given(c)' = Given(c)
      BY DEF Given
    <2>2. cState'[c] = "waiting"
      BY <1>t DEF SendRequest, TypeInv, ClientTypes
    <2> QED BY <2>1, <2>2 DEF CalmAt
  <1>1. down[c] = <<>> /\ Nothing(c) /\ down'[c] = <<>>
    BY <1>t DEF CalmAt
  <1>2. waitFor'[c].id = Numbered(c)
    BY <1>t DEF SendRequest, TypeInv, ClientTypes
  <1> DEFINE e == [id |-> Numbered(c), method |-> method]
  <1>3. e.id = waitFor'[c].id
    BY <1>2
  <1> HIDE DEF e
  <1>4. hState'[c] = "reading" => up'[c] = <<e>> \/ up'[c] = <<>>
    <2>1. up[c] = <<>> => Append(up[c], e) = <<e>>
      <3>1. Append(<<>>, e) = <<e>>
        OBVIOUS
      <3> QED BY <3>1
    <2> QED BY <1>1, <2>1 DEF Nothing, Attends, e
  <1>5. hState'[c] # "executing"
    BY <1>1 DEF Nothing, Attends
  <1>6. ASSUME hState'[c] = "reading"
        PROVE  Len(up'[c]) <= 1 /\ \A k \in DOMAIN up'[c] : up'[c][k].id = waitFor'[c].id
    <2>1. CASE up'[c] = <<>>
      BY <2>1
    <2>2. CASE up'[c] = <<e>>
      BY <1>3, <2>2
    <2> QED BY <1>4, <1>6, <2>1, <2>2
  <1> QED BY <1>1, <1>5, <1>6 DEF About

\* A step of the client c.
LEMMA ClientCalm ==
  ASSUME CalmInv, NEW c \in Clients,
         \/ Connect(c) \/ \E method \in Methods : Request(c, method)
         \/ ClientReads(c) \/ Timeout(c) \/ Interrupt(c)
  PROVE  Calm'
  <1>t. TypeInv /\ StartOK /\ CalmOK /\ CalmAt(c) /\ OpenOK /\ UndisturbedClient
    BY DEF CalmInv, Calm, CalmOK
  <1>e. /\ \A d \in Clients \ {c} :
             /\ latched'[d] = latched[d] /\ results'[d] = results[d] /\ cState'[d] = cState[d]
             /\ down'[d] = down[d] /\ waitFor'[d] = waitFor[d] /\ up'[d] = up[d]
             /\ hState'[d] = hState[d]
        /\ UNCHANGED hId
    <2>a. \A d \in Clients \ {c} : latched'[d] = latched[d]
      BY <1>t DEF Connect, Request, SendRequest, ClientReads, Receive, ReceiveNothing, Timeout,
         Interrupt, Complete, TypeInv, ClientTypes
    <2>b. \A d \in Clients \ {c} : results'[d] = results[d]
      BY <1>t DEF Connect, Request, SendRequest, ClientReads, Receive, ReceiveNothing, Timeout,
         Interrupt, Complete, TypeInv, ClientTypes
    <2>c. \A d \in Clients \ {c} : cState'[d] = cState[d]
      BY <1>t DEF Connect, Request, SendRequest, ClientReads, Receive, ReceiveNothing, Timeout,
         Interrupt, Complete, TypeInv, ClientTypes
    <2>d. UNCHANGED hId
      BY DEF Connect, Request, ClientReads, Receive, ReceiveNothing, Timeout, Interrupt, handlerVars
    <2>1. /\ \A d \in Clients \ {c} :
               latched'[d] = latched[d] /\ results'[d] = results[d] /\ cState'[d] = cState[d]
          /\ UNCHANGED hId
      BY <2>a, <2>b, <2>c, <2>d
    <2>2. \A d \in Clients \ {c} : waitFor'[d] = waitFor[d]
      BY <1>t DEF Connect, Request, SendRequest, ClientReads, Receive, ReceiveNothing, Timeout,
         Interrupt, Complete, TypeInv, ClientTypes
    <2>3. \A d \in Clients \ {c} : down'[d] = down[d] /\ up'[d] = up[d] /\ hState'[d] = hState[d]
      BY <1>t DEF Connect, Request, ClientReads, Receive, ReceiveNothing, Timeout,
         Interrupt, handlerVars, TypeInv, LinkTypes, HandlerTypes
    <2> QED BY <2>1, <2>2, <2>3
  <1>o. OpenOK'
    BY <1>t DEF Connect, Request, ClientReads, Receive, ReceiveNothing, Timeout, Interrupt,
       handlerVars, TypeInv, LinkTypes, HandlerTypes, OpenOK, Attends
  <1>d. \A d \in Clients \ {c} : CalmAt(d)' /\ (~Given(d)' => ~Misled(d)')
    <2> TAKE d \in Clients \ {c}
    <2>1. CalmAt(d)'
      BY <1>e, <1>t, SameCalm DEF CalmOK
    <2>2. ~Given(d) => ~Misled(d)
      BY <1>t, UndisturbedMeans
    <2> QED BY <1>e, <2>1, <2>2 DEF Given, Misled
  <1> SUFFICES CalmAt(c)' /\ (~Given(c)' => ~Misled(c)')
    BY <1>d, <1>o, UndisturbedMeans DEF Calm, CalmOK
  <1>m. ~Given(c) => ~Misled(c)
    BY <1>t, UndisturbedMeans
  <1>s. ASSUME results'[c] = results[c] PROVE Given(c)' = Given(c) /\ Misled(c)' = Misled(c)
    BY <1>s DEF Given, Misled
  <1>1. CASE Connect(c)
    <2>1. PICK method \in Methods : SendRequest(c, method) /\
            up' = [up EXCEPT ![c] = <<[id |-> Numbered(c), method |-> method]>>]
      BY <1>1 DEF Connect, Methods
    <2>2. /\ cState[c] = "start" /\ UNCHANGED <<latched, results, down, hId>>
          /\ hState'[c] = "reading"
          /\ up'[c] = <<[id |-> Numbered(c), method |-> method]>>
      BY <1>1, <1>t, <2>1 DEF Connect, TypeInv, LinkTypes, HandlerTypes
    <2>3. CalmAt(c)'
      BY <2>1, <2>2, SendCalm
    <2> QED BY <1>m, <1>s, <2>2, <2>3
  <1>2. ASSUME NEW method \in Methods, Request(c, method)
        PROVE  CalmAt(c)' /\ (~Given(c)' => ~Misled(c)')
    <2>1. /\ cState[c] = "ready" /\ UNCHANGED <<latched, results, down, hId, hState>>
          /\ SendRequest(c, method)
          /\ \/ up'[c] = Append(up[c], [id |-> Numbered(c), method |-> method])
             \/ up'[c] = up[c]
      BY <1>2, <1>t DEF Request, handlerVars, TypeInv, LinkTypes
    <2>2. CalmAt(c)'
      BY <2>1, SendCalm
    <2> QED BY <1>m, <1>s, <2>1, <2>2
  \* The end of a request.
  <1>3. ASSUME NEW ending \in Endings, NEW of \in Works \cup {None}, cState[c] = "waiting",
               Complete(c, ending, of), UNCHANGED <<up, handlerVars>>,
               latched'[c] = latched[c] \/ latched'[c],
               ~latched'[c] /\ ~Given(c) /\ ending # "interrupt" =>
                 down'[c] = <<>> /\ Nothing(c),
               ~Given(c) => ending # "protocol"
        PROVE  CalmAt(c)' /\ (~Given(c)' => ~Misled(c)')
    <2> DEFINE r == [id |-> waitFor[c].id, method |-> waitFor[c].method,
                     ending |-> ending, of |-> of]
    <2>1. r \in Entries /\ r.ending = ending
      BY <1>3, <1>t DEF TypeInv, ClientTypes, Waits, Entries
    <2>2. results[c] \in Seq(Entries) /\ results'[c] = Append(results[c], r)
      BY <1>3, <1>t DEF Complete, TypeInv, ClientTypes
    <2> HIDE DEF r
    <2>3. /\ Given(c)' <=> Given(c) \/ ending = "interrupt"
          /\ Misled(c)' <=> Misled(c) \/ ending = "protocol"
      BY <2>1, <2>2, HistoryGrows
    <2>4. cState'[c] \in {"ready", "closed"}
      BY <1>3, <1>t DEF Complete, TypeInv, ClientTypes
    <2>5. Nothing(c)' = Nothing(c)
      BY <1>3 DEF Nothing, Attends, handlerVars
    <2> QED BY <1>3, <1>m, <2>3, <2>4, <2>5 DEF CalmAt
  <1>n. None \in Works \cup {None}
    OBVIOUS
  <1>4. CASE ReceiveNothing(c)
    <2>1. /\ cState[c] = "waiting"
          /\ latched[c] \/ (down[c] = <<>> /\ ~sOpen[c])
          /\ Complete(c, "connection", None) /\ UNCHANGED <<latched, up, down, handlerVars>>
      BY <1>4 DEF ReceiveNothing
    <2>2. ~latched[c] => down'[c] = <<>> /\ Nothing(c)
      BY <1>t, <2>1 DEF OpenOK, Nothing
    <2>3. "connection" \in Endings /\ "connection" # "protocol"
      BY DEF Endings
    <2> QED BY <1>3, <1>n, <2>1, <2>2, <2>3
  <1>5. CASE Timeout(c)
    <2>1. /\ cState[c] = "waiting" /\ latched'[c]
          /\ Complete(c, "connection", None) /\ UNCHANGED <<up, down, handlerVars>>
      BY <1>5, <1>t DEF Timeout, TypeInv, ClientTypes
    <2>2. "connection" \in Endings /\ "connection" # "protocol"
      BY DEF Endings
    <2> QED BY <1>3, <1>n, <2>1, <2>2
  <1>6. CASE Interrupt(c)
    <2>1. /\ cState[c] = "waiting" /\ UNCHANGED latched
          /\ Complete(c, "interrupt", None) /\ UNCHANGED <<up, down, handlerVars>>
      BY <1>6 DEF Interrupt
    <2>2. "interrupt" \in Endings /\ "interrupt" # "protocol"
      BY DEF Endings
    <2> QED BY <1>3, <1>n, <2>1, <2>2
  <1>7. CASE Receive(c)
    <2> DEFINE m == Head(down[c])
    <2>1. /\ cState[c] = "waiting" /\ ~latched[c] /\ down[c] # <<>>
          /\ UNCHANGED <<latched, up, handlerVars>>
      BY <1>7 DEF Receive
    <2>2. /\ down[c] \in Seq(Messages) /\ down'[c] = Tail(down[c])
          /\ m \in Messages /\ Says(m)
      BY <1>7, <1>t, TakeDown DEF Receive, TypeInv, LinkTypes
    <2>3. /\ \A k \in DOMAIN down'[c] : k \in Nat \ {0} /\ k + 1 \in DOMAIN down[c]
                                        /\ down'[c][k] = down[c][k + 1]
          /\ 1 \in DOMAIN down[c] /\ m = down[c][1]
          /\ down'[c] \in Seq(Messages) /\ Len(down'[c]) = Len(down[c]) - 1
          /\ Len(down[c]) \in Nat \ {0}
      <3>1. /\ \A k \in DOMAIN Tail(down[c]) : k \in Nat \ {0} /\ k + 1 \in DOMAIN down[c]
                                               /\ Tail(down[c])[k] = down[c][k + 1]
            /\ 1 \in DOMAIN down[c] /\ Head(down[c]) = down[c][1]
            /\ Tail(down[c]) \in Seq(Messages) /\ Len(Tail(down[c])) = Len(down[c]) - 1
            /\ Len(down[c]) \in Nat \ {0}
        BY <2>1, <2>2, TailElements
      <3> QED BY <2>2, <3>1
    <2> HIDE DEF m
    <2>4. \/ m.id # waitFor[c].id /\ Complete(c, "protocol", None)
          \/ m.kind = "response" /\ Complete(c, m.ending, m.of)
          \/ m.kind = "heartbeat" /\ UNCHANGED <<cState, waitFor, results>>
      BY <1>7 DEF Receive, Matches, m
    <2>5. ~Given(c) => About(c)
      BY <1>t, <2>1 DEF CalmAt
    <2>6. ~Given(c) => m.id = waitFor[c].id
      BY <2>3, <2>5 DEF About
    <2>7. CASE m.id # waitFor[c].id /\ Complete(c, "protocol", None)
      <3>1. "protocol" \in Endings
        BY DEF Endings
      <3> QED BY <1>3, <1>n, <2>1, <2>6, <2>7, <3>1
    <2>8. CASE m.kind = "response" /\ Complete(c, m.ending, m.of)
      <3>1. m.ending \in Endings /\ m.of \in Works \cup {None} /\ m.ending # "protocol"
        BY <2>2, <2>8 DEF Says, Answered, Endings, Messages
      <3>2. ~Given(c) => down'[c] = <<>> /\ Nothing(c)
        <4> SUFFICES ASSUME ~Given(c) PROVE down'[c] = <<>> /\ Nothing(c)
          OBVIOUS
        <4>1. Len(down[c]) = 1 /\ Nothing(c)
          BY <2>3, <2>5, <2>8 DEF About
        <4>2. Len(down'[c]) = 0
          BY <2>3, <4>1
        <4>3. down'[c] = <<>>
          BY <2>3, <4>2, EmptySeq
        <4> QED BY <4>1, <4>3
      <3> QED BY <1>3, <2>1, <2>8, <3>1, <3>2
    <2>9. CASE m.kind = "heartbeat" /\ UNCHANGED <<cState, waitFor, results>>
      <3>1. Given(c)' = Given(c) /\ Misled(c)' = Misled(c)
        BY <1>s, <2>9
      <3>2. Nothing(c)' = Nothing(c)
        BY <2>1 DEF Nothing, Attends, handlerVars
      <3>3. ASSUME About(c) PROVE About(c)'
        <4>1. \A k \in DOMAIN down'[c] : down'[c][k].id = waitFor'[c].id
          BY <2>3, <2>9, <3>3 DEF About
        <4>2. ASSUME NEW k \in DOMAIN down'[c], down'[c][k].kind = "response"
              PROVE  k = Len(down'[c]) /\ Nothing(c)
          <5>1. k \in Nat /\ k + 1 \in DOMAIN down[c] /\ down[c][k + 1].kind = "response"
            BY <2>3, <4>2
          <5>2. k + 1 = Len(down[c]) /\ Nothing(c)
            BY <3>3, <5>1 DEF About
          <5> QED BY <2>3, <5>1, <5>2
        <4>3. UNCHANGED <<hState, up, hId, waitFor>>
          BY <2>1, <2>9 DEF handlerVars
        <4> QED BY <3>2, <3>3, <4>1, <4>2, <4>3 DEF About
      <3> QED BY <1>m, <2>1, <2>5, <2>9, <3>1, <3>3 DEF CalmAt
    <2> QED BY <2>4, <2>7, <2>8, <2>9
  <1> QED BY <1>1, <1>2, <1>4, <1>5, <1>6, <1>7 DEF ClientReads

-------------------------------------------------------------------------------
\* What a handler that has something to answer finds on its way.
Busy(c) == hState[c] = "executing" \/ (hState[c] = "reading" /\ up[c] # <<>>)

\* A calm client that is not gone waits for exactly that answer.
LEMMA BusyFor ==
  ASSUME CalmInv, NEW c \in Clients, Busy(c), ~latched[c], ~Given(c)
  PROVE  /\ cState[c] \in {"waiting", "closed"}
         /\ cState[c] = "waiting" =>
              /\ About(c)
              /\ \A k \in DOMAIN down[c] : down[c][k].kind # "response"
              /\ hState[c] = "reading" =>
                   Tail(up[c]) = <<>> /\ Head(up[c]).id = waitFor[c].id
  <1>t. TypeInv /\ CalmAt(c)
    BY DEF CalmInv, Calm, CalmOK
  <1>1. ~Nothing(c)
    BY DEF Busy, Nothing, Attends
  <1>2. cState[c] \in {"start", "waiting", "ready", "closed"}
    BY <1>t DEF TypeInv, ClientTypes
  <1>3. cState[c] \in {"waiting", "closed"}
    BY <1>t, <1>1, <1>2 DEF CalmAt
  <1>4. ASSUME cState[c] = "waiting"
        PROVE  About(c) /\ \A k \in DOMAIN down[c] : down[c][k].kind # "response"
    BY <1>1, <1>4, <1>t DEF CalmAt, About
  <1>5. ASSUME cState[c] = "waiting", hState[c] = "reading"
        PROVE  Tail(up[c]) = <<>> /\ Head(up[c]).id = waitFor[c].id
    <2>1. up[c] \in Seq(Requests) /\ up[c] # <<>>
      BY <1>5, <1>t DEF Busy, TypeInv, LinkTypes
    <2>2. /\ 1 \in DOMAIN up[c] /\ Head(up[c]) = up[c][1]
          /\ Tail(up[c]) \in Seq(Requests) /\ Len(Tail(up[c])) = Len(up[c]) - 1
          /\ Len(up[c]) \in Nat \ {0}
      BY <2>1, TailElements
    <2>3. Len(up[c]) <= 1
      BY <1>4, <1>5 DEF About
    <2>4. up[c][1].id = waitFor[c].id
      BY <1>4, <1>5, <2>2 DEF About
    <2>5. Tail(up[c]) = <<>>
      <3> DEFINE n == Len(up[c])
      <3>1. n \in Nat \ {0} /\ n <= 1 /\ Len(Tail(up[c])) = n - 1
        BY <2>2, <2>3
      <3> HIDE DEF n
      <3>2. n = 1
        BY <3>1
      <3>3. Len(Tail(up[c])) = 1 - 1
        BY <3>1, <3>2
      <3>4. Len(Tail(up[c])) = 0
        BY <3>3
      <3> QED BY <2>2, <3>4, EmptySeq
    <2> QED BY <2>2, <2>4, <2>5
  <1> QED BY <1>3, <1>4, <1>5

\* The messages to c with one more, which no response comes before.
LEMMA OneMoreDown ==
  ASSUME NEW s \in Seq(Messages), NEW m \in Messages, NEW id, m.id = id,
         NEW t \in {s, Append(s, m)},
         \A k \in DOMAIN s : s[k].id = id /\ s[k].kind # "response"
  PROVE  /\ \A k \in DOMAIN t : t[k].id = id
         /\ \A k \in DOMAIN t : t[k].kind = "response" => k = Len(t) /\ m.kind = "response"
  <1>1. CASE t = s
    BY <1>1
  <1>2. CASE t = Append(s, m)
    <2>1. /\ \A k \in 1..Len(s) : t[k] = s[k]
          /\ t[Len(s) + 1] = m
          /\ DOMAIN s = 1..Len(s) /\ DOMAIN t = 1..(Len(s) + 1)
          /\ Len(t) = Len(s) + 1 /\ Len(s) \in Nat
      BY <1>2, PutLast
    <2>2. \A k \in DOMAIN t :
            (k \in DOMAIN s /\ t[k] = s[k]) \/ (k = Len(t) /\ t[k] = m)
      BY <2>1
    <2> QED BY <2>2
  <1> QED BY <1>1, <1>2

\* A handler that answers, after which it has nothing else to answer, or
\* sends no more than a heartbeat.
LEMMA AnswerCalm ==
  ASSUME CalmInv, NEW c \in Clients, Busy(c), NEW m \in Messages,
         down'[c] = down[c] \/ down'[c] = Append(down[c], m),
         UNCHANGED <<latched, results, cState, waitFor>>,
         cState[c] = "waiting" /\ About(c) =>
           /\ m.id = waitFor[c].id
           /\ Nothing(c)' \/ (m.kind # "response" /\ hState'[c] = "executing")
           /\ hState'[c] \in {"reading", "executing"} => up'[c] = <<>>
           /\ hState'[c] = "executing" => hId'[c] = waitFor[c].id
  PROVE  CalmAt(c)'
  <1>1. Given(c)' = Given(c)
    BY DEF Given
  <1> SUFFICES ASSUME ~latched[c], ~Given(c), cState[c] = "waiting" PROVE About(c)'
    BY <1>1, BusyFor DEF CalmAt
  <1>2. About(c) /\ \A k \in DOMAIN down[c] : down[c][k].kind # "response"
    BY BusyFor
  <1>3. down[c] \in Seq(Messages)
    BY DEF CalmInv, TypeInv, LinkTypes
  <1>4. /\ \A k \in DOMAIN down'[c] : down'[c][k].id = waitFor[c].id
        /\ \A k \in DOMAIN down'[c] :
             down'[c][k].kind = "response" => k = Len(down'[c]) /\ m.kind = "response"
    <2>1. \A k \in DOMAIN down[c] :
            down[c][k].id = waitFor[c].id /\ down[c][k].kind # "response"
      BY <1>2 DEF About
    <2>2. m.id = waitFor[c].id
      BY <1>2
    <2>3. down'[c] \in {down[c], Append(down[c], m)}
      OBVIOUS
    <2> DEFINE id == waitFor[c].id
               s == down[c]
               t == down'[c]
    <2>4. /\ s \in Seq(Messages) /\ t \in {s, Append(s, m)} /\ m.id = id
          /\ \A k \in DOMAIN s : s[k].id = id /\ s[k].kind # "response"
      BY <1>3, <2>1, <2>2, <2>3
    <2> HIDE DEF id, s, t
    <2>5. /\ \A k \in DOMAIN t : t[k].id = id
          /\ \A k \in DOMAIN t : t[k].kind = "response" => k = Len(t) /\ m.kind = "response"
      BY <2>4, OneMoreDown
    <2> QED BY <2>5 DEF id, t
  <1>5. m.kind = "response" => Nothing(c)'
    BY <1>2
  <1>6. hState'[c] = "reading" =>
          Len(up'[c]) <= 1 /\ \A k \in DOMAIN up'[c] : up'[c][k].id = waitFor[c].id
    <2>1. Len(<<>>) <= 1 /\ DOMAIN <<>> = {}
      OBVIOUS
    <2> QED BY <1>2, <2>1
  <1>7. hState'[c] = "executing" => up'[c] = <<>> /\ hId'[c] = waitFor[c].id
    BY <1>2
  <1> QED BY <1>4, <1>5, <1>6, <1>7 DEF About

\* A step of the handler of c.
LEMMA HandlerCalm ==
  ASSUME CalmInv, NEW c \in Clients, HandlerStep(c) \/ SendHeartbeat(c)
  PROVE  Calm'
  <1>t. TypeInv /\ CalmOK /\ CalmAt(c) /\ OpenOK /\ UndisturbedClient
    BY DEF CalmInv, Calm, CalmOK
  <1>e. /\ \A d \in Clients \ {c} :
             /\ down'[d] = down[d] /\ up'[d] = up[d] /\ hState'[d] = hState[d]
             /\ hId'[d] = hId[d]
        /\ UNCHANGED <<latched, results, cState, waitFor>>
    <2>1. /\ \A d \in Clients \ {c} : down'[d] = down[d] /\ up'[d] = up[d]
          /\ UNCHANGED <<latched, results, cState, waitFor>>
      BY <1>t DEF HandlerStep, HandleHandshake, HandleExecute, HandleOther, HandleClose, Respond,
         HandlerDisconnected, HandlerAnswers, HandlerGone, SendHeartbeat, clientVars, TypeInv, LinkTypes
    <2>2. \A d \in Clients \ {c} : hState'[d] = hState[d] /\ hId'[d] = hId[d]
      BY <1>t DEF HandlerStep, HandleHandshake, HandleExecute, HandleOther, HandleClose, Respond,
         HandlerDisconnected, HandlerAnswers, HandlerGone, SendHeartbeat, TypeInv, HandlerTypes
    <2> QED BY <2>1, <2>2
  <1>o. OpenOK'
    <2>1. Attends(c) /\ sOpen[c]
      BY <1>t DEF HandlerStep, HandleHandshake, HandleExecute, HandleOther, HandleClose,
         HandlerDisconnected, HandlerAnswers, SendHeartbeat, Incoming, Attends, OpenOK
    <2>2. \/ UNCHANGED sOpen
          \/ HandlerGone(c)
      BY DEF HandlerStep, HandleHandshake, HandleExecute, HandleOther, HandleClose, Respond,
         HandlerDisconnected, HandlerAnswers, SendHeartbeat
    <2>3. CASE UNCHANGED sOpen
      BY <1>e, <1>t, <2>1, <2>3 DEF OpenOK, Attends
    <2>4. CASE HandlerGone(c)
      BY <1>t, <2>4 DEF HandlerGone, OpenOK, Attends, TypeInv, LinkTypes, HandlerTypes
    <2> QED BY <2>2, <2>3, <2>4
  <1>u. UndisturbedClient'
    BY <1>e, <1>t DEF UndisturbedClient
  <1>d. \A d \in Clients \ {c} : CalmAt(d)'
    BY <1>e, <1>t, SameCalm DEF CalmOK
  <1> SUFFICES CalmAt(c)'
    BY <1>d, <1>o, <1>u DEF Calm, CalmOK
  \* Reading a request, and an answer to it.
  <1>1. ASSUME NEW request \in Incoming(c), up' = [up EXCEPT ![c] = Tail(@)]
        PROVE  /\ Busy(c) /\ request \in Requests /\ hState[c] = "reading"
               /\ cState[c] = "waiting" /\ ~latched[c] /\ ~Given(c) =>
                    request.id = waitFor[c].id /\ up'[c] = <<>>
    <2>1. request = Head(up[c]) /\ up[c] # <<>> /\ hState[c] = "reading"
          /\ request \in Requests
      BY <1>1, <1>t, IncomingTyped DEF Incoming
    <2>2. up'[c] = Tail(up[c])
      BY <1>1, <1>t DEF TypeInv, LinkTypes
    <2>3. Busy(c)
      BY <2>1 DEF Busy
    <2> QED BY <2>1, <2>2, <2>3, BusyFor
  <1>2. ASSUME NEW request \in Incoming(c), up' = [up EXCEPT ![c] = Tail(@)],
               NEW ending \in Answered,
               \/ down' = down
               \/ down' = [down EXCEPT ![c] = Append(@, Response(request.id, ending, None))],
               hState'[c] # "executing"
        PROVE  CalmAt(c)'
    <2> DEFINE m == Response(request.id, ending, None)
    <2>1. /\ Busy(c) /\ request.id \in Ids
          /\ cState[c] = "waiting" /\ ~latched[c] /\ ~Given(c) =>
               request.id = waitFor[c].id /\ up'[c] = <<>>
      BY <1>1, <1>2 DEF Requests
    <2>2. m \in Messages /\ m.id = request.id
      <3>1. None \in Works \cup {None}
        OBVIOUS
      <3> QED BY <2>1, <3>1, ResponseTyped DEF Response
    <2>3. down'[c] = down[c] \/ down'[c] = Append(down[c], m)
      BY <1>2, <1>t DEF TypeInv, LinkTypes
    <2> HIDE DEF m
    <2>4. CASE latched[c] \/ Given(c)
      BY <1>e, <2>4 DEF CalmAt, Given
    <2>5. CASE ~latched[c] /\ ~Given(c)
      <3>1. cState[c] = "waiting" /\ About(c) =>
              /\ m.id = waitFor[c].id
              /\ Nothing(c)' \/ (m.kind # "response" /\ hState'[c] = "executing")
              /\ hState'[c] \in {"reading", "executing"} => up'[c] = <<>>
              /\ hState'[c] = "executing" => hId'[c] = waitFor[c].id
        BY <1>2, <2>1, <2>2, <2>5 DEF Nothing, Attends
      <3> QED BY <1>e, <2>1, <2>2, <2>3, <3>1, AnswerCalm
    <2> QED BY <2>4, <2>5
  <1>r. ASSUME NEW m, Respond(c, m)
        PROVE  /\ down' = down \/ down' = [down EXCEPT ![c] = Append(@, m)]
               /\ hState'[c] # "executing"
    BY <1>r, <1>t DEF Respond, HandlerGone, TypeInv, HandlerTypes
  <1>g. ASSUME HandlerGone(c) PROVE hState'[c] = "gone"
    BY <1>g, <1>t DEF HandlerGone, TypeInv, HandlerTypes
  <1>3. CASE HandleHandshake(c)
    <2>1. PICK request \in Incoming(c), ending \in Answered :
            /\ up' = [up EXCEPT ![c] = Tail(@)]
            /\ Respond(c, Response(request.id, ending, None))
      BY <1>3 DEF HandleHandshake, Answered
    <2> QED BY <1>2, <1>r, <2>1
  <1>4. CASE HandleOther(c)
    <2>1. PICK request \in Incoming(c), ending \in Answered :
            /\ up' = [up EXCEPT ![c] = Tail(@)]
            /\ Respond(c, Response(request.id, ending, None))
      BY <1>4 DEF HandleOther, Answered
    <2> QED BY <1>2, <1>r, <2>1
  <1>5. CASE HandleClose(c)
    <2>1. PICK request \in Incoming(c) :
            /\ up' = [up EXCEPT ![c] = Tail(@)]
            /\ \/ down' = down
               \/ down' = [down EXCEPT ![c] = Append(@, Response(request.id, "result", None))]
            /\ HandlerGone(c)
      BY <1>5 DEF HandleClose
    <2>2. "result" \in Answered
      BY DEF Answered
    <2> QED BY <1>2, <1>g, <2>1, <2>2
  <1>6. ASSUME HandlerGone(c), UNCHANGED <<up, down, hId>> PROVE CalmAt(c)'
    <2>1. ~Attends(c)'
      BY <1>6, <1>g DEF Attends
    <2> QED BY <1>6, <1>e, <1>t, <2>1, SameCalm
  <1>7. CASE HandlerDisconnected(c)
    BY <1>6, <1>7 DEF HandlerDisconnected
  \* The work of c, its answer and its heartbeats.
  <1>8. hState[c] = "executing" /\ cState[c] = "waiting" /\ About(c) =>
          hId[c] = waitFor[c].id /\ up[c] = <<>>
    BY DEF About
  <1>9. CASE HandlerAnswers(c)
    <2>1. /\ hState[c] = "executing" /\ workState[c] \in {"result", "error", "refused"}
          /\ UNCHANGED <<up, hId>>
      BY <1>9 DEF HandlerAnswers
    <2>2. CASE connected[c]
      <3> DEFINE m == Response(hId[c], workState[c], <<c, hId[c]>>)
      <3>1. m \in Messages /\ m.id = hId[c]
        <4>1. hId[c] \in Ids
          BY <1>t, <2>1 DEF TypeInv, Executes
        <4>2. <<c, hId[c]>> \in Works \cup {None}
          BY <4>1 DEF Works
        <4> QED BY <2>1, <4>1, <4>2, ResponseTyped DEF Answered, Response
      <3>2. Respond(c, m)
        BY <1>9, <2>2 DEF HandlerAnswers
      <3> HIDE DEF m
      <3>3. /\ down' = down \/ down' = [down EXCEPT ![c] = Append(@, m)]
            /\ hState'[c] # "executing"
        BY <1>r, <3>2
      <3>4. down'[c] = down[c] \/ down'[c] = Append(down[c], m)
        BY <1>t, <3>3 DEF TypeInv, LinkTypes
      <3>5. cState[c] = "waiting" /\ About(c) =>
              /\ m.id = waitFor[c].id
              /\ Nothing(c)' \/ (m.kind # "response" /\ hState'[c] = "executing")
              /\ hState'[c] \in {"reading", "executing"} => up'[c] = <<>>
              /\ hState'[c] = "executing" => hId'[c] = waitFor[c].id
        BY <1>8, <2>1, <3>1, <3>3 DEF Nothing, Attends
      <3>6. Busy(c)
        BY <2>1 DEF Busy
      <3> QED BY <1>e, <3>1, <3>4, <3>5, <3>6, AnswerCalm
    <2>3. CASE ~connected[c]
      BY <1>6, <1>9, <2>1, <2>3 DEF HandlerAnswers
    <2> QED BY <2>2, <2>3
  <1>10. CASE SendHeartbeat(c)
    <2> DEFINE m == Heartbeat(hId[c], workState[c])
    <2>1. /\ hState[c] = "executing" /\ workState[c] \in {"queued", "executing"}
          /\ UNCHANGED <<up, hState, hId>>
          /\ down' = down \/ down' = [down EXCEPT ![c] = Append(@, m)]
      BY <1>10 DEF SendHeartbeat
    <2>2. m \in Messages
      BY <1>t, <2>1, HeartbeatTyped DEF TypeInv, Executes
    <2>3. m.id = hId[c] /\ m.kind # "response"
      BY DEF Heartbeat
    <2> HIDE DEF m
    <2>4. down'[c] = down[c] \/ down'[c] = Append(down[c], m)
      BY <1>t, <2>1 DEF TypeInv, LinkTypes
    <2>5. Busy(c)
      BY <2>1 DEF Busy
    <2>6. cState[c] = "waiting" /\ About(c) =>
            /\ m.id = waitFor[c].id
            /\ Nothing(c)' \/ (m.kind # "response" /\ hState'[c] = "executing")
            /\ hState'[c] \in {"reading", "executing"} => up'[c] = <<>>
            /\ hState'[c] = "executing" => hId'[c] = waitFor[c].id
      BY <1>8, <2>1, <2>3
    <2> QED BY <1>e, <2>2, <2>4, <2>5, <2>6, AnswerCalm
  <1>11. CASE HandleExecute(c)
    <2>1. PICK request \in Incoming(c) :
            /\ up' = [up EXCEPT ![c] = Tail(@)]
            /\ hId' = [hId EXCEPT ![c] = request.id]
      BY <1>11 DEF HandleExecute
    <2>2. hState' = [hState EXCEPT ![c] = "executing"] /\ UNCHANGED down
      BY <1>11 DEF HandleExecute
    <2>3. hState'[c] = "executing" /\ hId'[c] = request.id
      BY <1>t, <2>1, <2>2 DEF TypeInv, HandlerTypes
    <2>4. /\ Busy(c) /\ request.id \in Ids
          /\ cState[c] = "waiting" /\ ~latched[c] /\ ~Given(c) =>
               request.id = waitFor[c].id /\ up'[c] = <<>>
      BY <1>1, <2>1 DEF Requests
    <2>5. CASE latched[c] \/ Given(c)
      BY <1>e, <2>5 DEF CalmAt, Given
    <2>6. CASE ~latched[c] /\ ~Given(c)
      <3> DEFINE m == Heartbeat(request.id, "queued")
      <3>1. m \in Messages
        BY <2>4, HeartbeatTyped
      <3>2. m.id = request.id /\ m.kind # "response"
        BY DEF Heartbeat
      <3> HIDE DEF m
      <3>3. cState[c] = "waiting" /\ About(c) =>
              /\ m.id = waitFor[c].id
              /\ Nothing(c)' \/ (m.kind # "response" /\ hState'[c] = "executing")
              /\ hState'[c] \in {"reading", "executing"} => up'[c] = <<>>
              /\ hState'[c] = "executing" => hId'[c] = waitFor[c].id
        BY <2>3, <2>4, <2>6, <3>2
      <3> QED BY <1>e, <2>2, <2>4, <3>1, <3>3, AnswerCalm
    <2> QED BY <2>5, <2>6
  <1> QED BY <1>3, <1>4, <1>5, <1>7, <1>9, <1>10, <1>11 DEF HandlerStep

\* A step of the worker or of a server that stops.
LEMMA OwnerCalm ==
  ASSUME CalmInv, WorkerStep \/ StopServing \/ StopStep \/ UNCHANGED vars
  PROVE  Calm'
  <1>t. TypeInv /\ CalmOK /\ OpenOK /\ UndisturbedClient
    BY DEF CalmInv, Calm
  <1>1. UNCHANGED <<latched, results, cState, waitFor, up, down, hId>>
    BY DEF WorkerStep, WorkerTakes, WorkerFinishes, StopServing, StopStep, JoinEnds,
           ExecutorCloses, Exit, vars, clientVars, linkVars, handlerVars
  <1>2. \A d \in Clients : (hState'[d] = hState[d] /\ sOpen'[d] = sOpen[d]) \/ ~Attends(d)'
    BY DEF WorkerStep, WorkerTakes, WorkerFinishes, StopServing, StopStep, JoinEnds,
           ExecutorCloses, Exit, vars, clientVars, linkVars, handlerVars, Attends
  <1>3. \A d \in Clients : CalmAt(d)'
    BY <1>1, <1>2, <1>t, SameCalm DEF CalmOK
  <1>4. OpenOK'
    BY <1>2, <1>t DEF OpenOK, Attends
  <1>5. UndisturbedClient'
    BY <1>1, <1>t DEF UndisturbedClient
  <1> QED BY <1>3, <1>4, <1>5 DEF Calm, CalmOK

\* There is nothing on its way.
LEMMA InitCalm == Init => OrderInv /\ Calm
  <1> SUFFICES ASSUME Init PROVE Calm
    BY InitOrdered
  <1>1. CalmOK
    BY DEF Init, CalmOK, CalmAt, Nothing, Attends
  <1>2. OpenOK /\ UndisturbedClient
    BY DEF Init, OpenOK, Attends, UndisturbedClient
  <1> QED BY <1>1, <1>2 DEF Calm

\* All steps.
LEMMA NextCalm == OrderInv /\ Calm /\ [Next]_vars => (OrderInv /\ Calm)'
  <1> SUFFICES ASSUME OrderInv, Calm, [Next]_vars PROVE Calm'
    BY NextOrdered
  <1>1. CalmInv
    BY DEF CalmInv, OrderInv, Ordered
  <1>2. ASSUME NEW c \in Clients,
               \/ Connect(c) \/ \E method \in Methods : Request(c, method)
               \/ ClientReads(c) \/ Timeout(c) \/ Interrupt(c)
               \/ HandlerStep(c) \/ SendHeartbeat(c)
        PROVE  Calm'
    BY <1>1, <1>2, ClientCalm, HandlerCalm
  <1>3. CASE WorkerStep \/ StopServing \/ StopStep \/ UNCHANGED vars
    BY <1>1, <1>3, OwnerCalm
  <1> QED BY <1>2, <1>3 DEF Next

(* Heartbeats and late answers never disturb a client: as long as none of  *)
(* its requests was given up by an interrupt, it is never told something   *)
(* that it does not expect - also not after a timeout, which latches.      *)
THEOREM CalmClient == Spec => []UndisturbedClient
  <1>1. Calm => UndisturbedClient
    BY DEF Calm
  <1> QED BY <1>1, InitCalm, NextCalm, PTL DEF Spec
===============================================================================
