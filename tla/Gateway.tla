------------------------------- MODULE Gateway --------------------------------
(***************************************************************************)
(* The gateway session protocol: GatewayExecutor (gateway/client.py) on    *)
(* one end of a TCP connection, a request handler of GatewayServer         *)
(* (gateway/server.py) on the other, and behind all handlers the queue and *)
(* worker of the physical owner.                                           *)
(*                                                                         *)
(* A connection is two FIFO channels.  Requests are named <<client, id>>;  *)
(* a response carries, besides the id of the protocol, the work it reports *)
(* on ("of"), which no client sees and the properties compare.  Time is    *)
(* left out: a client may time out whenever it has nothing to read.        *)
(***************************************************************************)
EXTENDS Integers, Sequences

CONSTANTS
  Clients,         \* connections, each used by one GatewayExecutor
  Raw,             \* programs that speak the protocol without GatewayExecutor
  Interruptible,   \* clients whose thread a KeyboardInterrupt can reach
  Impatient,       \* clients whose socket timeout may expire
  MaxRequests,     \* bound: requests per client, the handshake included
  MaxInFlight      \* bound: messages to a client when a heartbeat is added

ASSUME ClientsAssumption ==
  Raw \subseteq Clients /\ Interruptible \subseteq Clients /\ Impatient \subseteq Clients
ASSUME BoundsAssumption == MaxRequests \in Nat \ {0} /\ MaxInFlight \in Nat \ {0}

VARIABLES
  \* GatewayExecutor
  cState,     \* "start", "waiting" inside _request, "ready", "closed"
  waitFor,    \* the request that _request waits for: [id, method]
  nextId,     \* _next_id
  latched,    \* the stream object timed out once: it refuses to read again
  results,    \* history: how each request of the client ended
  \* the connection
  up,         \* requests on their way to the handler
  down,       \* notifications and responses on their way to the client
  cOpen,      \* the client's end is open
  sOpen,      \* the handler's end is open
  \* _handle, one per connection
  hState,     \* "none", "reading", "executing" inside _owner.execute, "gone"
  session,    \* session is not None
  hId,        \* request_id of the request being executed
  connected,  \* client_connected
  \* _PhysicalOwner
  queue,      \* _queue, with Stop for None
  running,    \* the work in the worker's hands
  workState,  \* state of the handler's work: "queued", "executing", or its ending
  ownerUp,    \* the worker has not seen the None
  executorOpen,
  executed,   \* history: the works that reached the instrument, in order
  server      \* "serving", "stopping", "closing", "exited"

clientVars == <<cState, waitFor, nextId, latched, results>>
linkVars   == <<up, down, cOpen, sOpen>>
handlerVars == <<hState, session, hId, connected>>
ownerVars  == <<queue, running, workState, ownerUp, executorOpen, executed>>
vars == <<clientVars, linkVars, handlerVars, ownerVars, server>>

Methods  == {"handshake", "execute", "ping", "close"}
Endings  == {"result", "error", "refused", "rejected", "connection", "protocol", "interrupt"}
Ids      == 1..MaxRequests
None     == <<>>
Stop     == <<0, 0>>

Heartbeat(id, state)      == [kind |-> "heartbeat", id |-> id, ending |-> state, of |-> None]
Response(id, ending, of)  == [kind |-> "response", id |-> id, ending |-> ending, of |-> of]

-------------------------------------------------------------------------------
Init ==
  /\ cState = [c \in Clients |-> "start"]
  /\ waitFor = [c \in Clients |-> [id |-> 0, method |-> "ping"]]
  /\ nextId = [c \in Clients |-> 1]
  /\ latched = [c \in Clients |-> FALSE]
  /\ results = [c \in Clients |-> <<>>]
  /\ up = [c \in Clients |-> <<>>]
  /\ down = [c \in Clients |-> <<>>]
  /\ cOpen = [c \in Clients |-> FALSE]
  /\ sOpen = [c \in Clients |-> FALSE]
  /\ hState = [c \in Clients |-> "none"]
  /\ session = [c \in Clients |-> FALSE]
  /\ hId = [c \in Clients |-> 0]
  /\ connected = [c \in Clients |-> TRUE]
  /\ queue = <<>>
  /\ running = None
  /\ workState = [c \in Clients |-> "none"]
  /\ ownerUp = TRUE
  /\ executorOpen = TRUE
  /\ executed = <<>>
  /\ server = "serving"

(***************************************************************************)
(* GatewayExecutor.                                                        *)
(***************************************************************************)
\* Mutant of Numbered: the counter is incremented first.
NumberedNext(c) == nextId[c] + 1

\* request_id = self._next_id
Numbered(c) == nextId[c]

\* _request up to its first read.
SendRequest(c, method) ==
  /\ nextId[c] \in Ids
  /\ nextId' = [nextId EXCEPT ![c] = @ + 1]
  /\ waitFor' = [waitFor EXCEPT ![c] = [id |-> Numbered(c), method |-> method]]
  /\ cState' = [cState EXCEPT ![c] = "waiting"]

\* __init__: connect, then the handshake; a raw client begins as it likes.
Connect(c) ==
  /\ cState[c] = "start"
  /\ server = "serving"
  /\ \E method \in {"handshake"} \cup (IF c \in Raw THEN {"execute"} ELSE {}) :
       /\ SendRequest(c, method)
       /\ up' = [up EXCEPT ![c] = <<[id |-> Numbered(c), method |-> method]>>]
  /\ cOpen' = [cOpen EXCEPT ![c] = TRUE]
  /\ sOpen' = [sOpen EXCEPT ![c] = TRUE]
  /\ hState' = [hState EXCEPT ![c] = "reading"]
  /\ UNCHANGED <<latched, results, down, session, hId, connected, ownerVars, server>>

\* execute(), ping() and close(); close() is the last request in any case.
Request(c, method) ==
  /\ cState[c] = "ready"
  /\ method = "handshake" => c \in Raw
  /\ SendRequest(c, method)
  /\ up' = IF sOpen[c]
           THEN [up EXCEPT ![c] = Append(@, [id |-> Numbered(c), method |-> method])]
           ELSE up
  /\ UNCHANGED <<latched, results, down, cOpen, sOpen, handlerVars, ownerVars, server>>

\* _request ends; a failed handshake and close() leave a GatewayExecutor
\* closed.  A raw peer goes on as long as it likes.
Complete(c, ending, of) ==
  LET w == waitFor[c]
      over == \/ w.method = "close"
              \/ w.method = "handshake" /\ ending # "result" /\ c \notin Raw IN
  /\ results' = [results EXCEPT ![c] =
                   Append(@, [id |-> w.id, method |-> w.method, ending |-> ending, of |-> of])]
  /\ cState' = [cState EXCEPT ![c] = IF over THEN "closed" ELSE "ready"]
  /\ cOpen' = [cOpen EXCEPT ![c] = ~over]
  /\ UNCHANGED <<waitFor, nextId>>

\* Mutant of Matches: the id of a response is not compared.
MatchesAny(c, m) == TRUE

\* Is m, a heartbeat or a response, about the request c waits for?
Matches(c, m) == m.id = waitFor[c].id

Receive(c) ==
  /\ cState[c] = "waiting"
  /\ ~latched[c]
  /\ down[c] # <<>>
  /\ down' = [down EXCEPT ![c] = Tail(@)]
  /\ LET m == Head(down[c]) IN
       \/ /\ ~Matches(c, m)
          /\ Complete(c, "protocol", None)
       \/ /\ Matches(c, m)
          /\ m.kind = "response"
          /\ Complete(c, m.ending, m.of)
       \/ /\ Matches(c, m)
          /\ m.kind = "heartbeat"
          /\ UNCHANGED <<cState, waitFor, nextId, results, cOpen>>
  /\ UNCHANGED <<latched, up, sOpen, handlerVars, ownerVars, server>>

\* The connection has ended, or the stream refuses after an earlier timeout.
ReceiveNothing(c) ==
  /\ cState[c] = "waiting"
  /\ latched[c] \/ (down[c] = <<>> /\ ~sOpen[c])
  /\ Complete(c, "connection", None)
  /\ UNCHANGED <<latched, up, down, sOpen, handlerVars, ownerVars, server>>

Timeout(c) ==
  /\ c \in Impatient
  /\ cState[c] = "waiting"
  /\ ~latched[c]
  /\ down[c] = <<>>
  /\ sOpen[c]
  /\ latched' = [latched EXCEPT ![c] = TRUE]
  /\ Complete(c, "connection", None)
  /\ UNCHANGED <<up, down, sOpen, handlerVars, ownerVars, server>>

\* KeyboardInterrupt in the read: the response stays in the connection.
Interrupt(c) ==
  /\ c \in Interruptible
  /\ cState[c] = "waiting"
  /\ Complete(c, "interrupt", None)
  /\ UNCHANGED <<latched, up, down, sOpen, handlerVars, ownerVars, server>>

(***************************************************************************)
(* The request handler.                                                    *)
(***************************************************************************)
HandlerGone(c) ==
  /\ hState' = [hState EXCEPT ![c] = "gone"]
  /\ sOpen' = [sOpen EXCEPT ![c] = FALSE]

\* The write of a response: it reaches the client, or is lost with it, and
\* in that case the handler may notice and return.
Respond(c, response) ==
  IF cOpen[c]
  THEN /\ down' = [down EXCEPT ![c] = Append(@, response)]
       /\ hState' = [hState EXCEPT ![c] = "reading"]
       /\ UNCHANGED sOpen
  ELSE /\ UNCHANGED down
       /\ \/ hState' = [hState EXCEPT ![c] = "reading"] /\ UNCHANGED sOpen
          \/ HandlerGone(c)

\* The request that readline returns to a handler that reads.
Incoming(c) ==
  IF hState[c] = "reading" /\ up[c] # <<>> THEN {Head(up[c])} ELSE {}

\* The first request must be a handshake; it is accepted if its commit, its
\* token and its settings are.
HandleHandshake(c) ==
  \E request \in Incoming(c) :
    /\ up' = [up EXCEPT ![c] = Tail(@)]
    /\ ~session[c]
    /\ \E ok \in BOOLEAN :
       /\ ok => request.method = "handshake"
       /\ session' = [session EXCEPT ![c] = ok]
       /\ Respond(c, Response(request.id, IF ok THEN "result" ELSE "rejected", None))
    /\ UNCHANGED <<clientVars, cOpen, hId, connected, ownerVars, server>>

\* Mutant of HandleExecute: no session is needed.
HandleExecuteAnySession(c) ==
  \E request \in Incoming(c) :
    /\ up' = [up EXCEPT ![c] = Tail(@)]
    /\ request.method = "execute"
    /\ queue' = Append(queue, <<c, request.id>>)
    /\ workState' = [workState EXCEPT ![c] = "queued"]
    /\ hId' = [hId EXCEPT ![c] = request.id]
    /\ connected' = [connected EXCEPT ![c] = TRUE]
    /\ hState' = [hState EXCEPT ![c] = "executing"]
    /\ UNCHANGED <<clientVars, down, cOpen, sOpen, session, running, ownerUp,
                   executorOpen, executed, server>>

\* execute: the batch goes to the owner's queue.
HandleExecute(c) ==
  \E request \in Incoming(c) :
    /\ up' = [up EXCEPT ![c] = Tail(@)]
    /\ session[c]
    /\ request.method = "execute"
    /\ queue' = Append(queue, <<c, request.id>>)
    /\ workState' = [workState EXCEPT ![c] = "queued"]
    /\ hId' = [hId EXCEPT ![c] = request.id]
    /\ connected' = [connected EXCEPT ![c] = TRUE]
    /\ hState' = [hState EXCEPT ![c] = "executing"]
    /\ UNCHANGED <<clientVars, down, cOpen, sOpen, session, running, ownerUp,
                   executorOpen, executed, server>>

\* execute with a batch that is empty, too long or malformed; a second
\* handshake; ping.
HandleOther(c) ==
  \E request \in Incoming(c) :
    /\ up' = [up EXCEPT ![c] = Tail(@)]
    /\ session[c]
    /\ request.method # "close"
    /\ Respond(c, Response(request.id,
                           IF request.method = "ping" THEN "result" ELSE "rejected", None))
    /\ UNCHANGED <<clientVars, cOpen, session, hId, connected, ownerVars, server>>

\* close: the response is the last thing the handler writes.
HandleClose(c) ==
  \E request \in Incoming(c) :
    /\ up' = [up EXCEPT ![c] = Tail(@)]
    /\ session[c]
    /\ request.method = "close"
    /\ down' = IF cOpen[c]
               THEN [down EXCEPT ![c] = Append(@, Response(request.id, "result", None))]
               ELSE down
    /\ HandlerGone(c)
    /\ UNCHANGED <<clientVars, cOpen, session, hId, connected, ownerVars, server>>

\* readline returns nothing or fails.
HandlerDisconnected(c) ==
  /\ hState[c] = "reading"
  /\ ~cOpen[c]
  /\ HandlerGone(c)
  /\ UNCHANGED <<clientVars, up, down, cOpen, session, hId, connected, ownerVars, server>>

\* Mutant of SendHeartbeat: the notification comes from a timer that the end
\* of the work does not stop.
SendHeartbeatLate(c) ==
  /\ hState[c] \in {"executing", "reading"}
  /\ hId[c] # 0
  /\ cOpen[c]
  /\ Len(down[c]) < MaxInFlight
  /\ down' = [down EXCEPT ![c] = Append(@, Heartbeat(hId[c], workState[c]))]
  /\ UNCHANGED <<clientVars, up, cOpen, sOpen, handlerVars, ownerVars, server>>

\* Each time the wait for the work's event expires; a failed write makes
\* the handler forget the client but not the work.
SendHeartbeat(c) ==
  /\ hState[c] = "executing"
  /\ workState[c] \in {"queued", "executing"}
  /\ connected[c]
  /\ IF cOpen[c]
     THEN /\ Len(down[c]) < MaxInFlight
          /\ down' = [down EXCEPT ![c] = Append(@, Heartbeat(hId[c], workState[c]))]
          /\ UNCHANGED connected
     ELSE /\ connected' = [connected EXCEPT ![c] = FALSE]
          /\ UNCHANGED down
  /\ UNCHANGED <<clientVars, up, cOpen, sOpen, hState, session, hId, ownerVars, server>>

\* The event is set: the result or error goes to the client, if it is there.
HandlerAnswers(c) ==
  /\ hState[c] = "executing"
  /\ workState[c] \in {"result", "error", "refused"}
  /\ IF connected[c]
     THEN Respond(c, Response(hId[c], workState[c], <<c, hId[c]>>))
     ELSE HandlerGone(c) /\ UNCHANGED down
  /\ UNCHANGED <<clientVars, up, cOpen, session, hId, connected, ownerVars, server>>

(***************************************************************************)
(* The owner's worker.                                                     *)
(***************************************************************************)
WorkerTakes ==
  /\ ownerUp
  /\ running = None
  /\ queue # <<>>
  /\ queue' = Tail(queue)
  /\ IF Head(queue) = Stop
     THEN ownerUp' = FALSE /\ UNCHANGED <<running, workState>>
     ELSE /\ running' = Head(queue)
          /\ workState' = [workState EXCEPT ![Head(queue)[1]] = "executing"]
          /\ UNCHANGED ownerUp
  /\ UNCHANGED <<clientVars, linkVars, handlerVars, executorOpen, executed, server>>

\* Mutant of WorkerFinishes: a batch that failed is tried again.
WorkerRetries ==
  /\ running # None
  /\ executorOpen
  /\ executed' = Append(executed, running)
  /\ \/ /\ workState' = [workState EXCEPT ![running[1]] = "result"]
        /\ running' = None
     \/ /\ Len(executed) < 4
        /\ UNCHANGED <<workState, running>>
  /\ UNCHANGED <<clientVars, linkVars, handlerVars, queue, ownerUp, executorOpen, server>>

\* Mutant of WorkerFinishes: the event is set although the batch was not run.
WorkerSkips ==
  /\ running # None
  /\ \/ executed' = Append(executed, running)
     \/ UNCHANGED executed
  /\ \E ending \in {"result", "error", "refused"} :
       workState' = [workState EXCEPT ![running[1]] = ending]
  /\ running' = None
  /\ UNCHANGED <<clientVars, linkVars, handlerVars, queue, ownerUp, executorOpen, server>>

\* Mutant of WorkerFinishes: an error leaves the event unset.
WorkerForgetsEvent ==
  /\ running # None
  /\ executorOpen
  /\ \E ending \in {"result", "error"} :
       workState' = IF ending = "result" THEN [workState EXCEPT ![running[1]] = ending]
                                         ELSE workState
  /\ executed' = Append(executed, running)
  /\ running' = None
  /\ UNCHANGED <<clientVars, linkVars, handlerVars, queue, ownerUp, executorOpen, server>>

\* The executor returns a result or raises; once closed it only refuses.
WorkerFinishes ==
  /\ running # None
  /\ \E ending \in IF executorOpen THEN {"result", "error"} ELSE {"refused"} :
       /\ workState' = [workState EXCEPT ![running[1]] = ending]
       /\ executed' = IF ending = "refused" THEN executed ELSE Append(executed, running)
  /\ running' = None
  /\ UNCHANGED <<clientVars, linkVars, handlerVars, queue, ownerUp, executorOpen, server>>

(***************************************************************************)
(* close() of the server, then the exit of its process.                    *)
(***************************************************************************)
StopServing ==
  /\ server = "serving"
  /\ server' = "stopping"
  /\ queue' = Append(queue, Stop)
  /\ UNCHANGED <<clientVars, linkVars, handlerVars, running, workState, ownerUp,
                 executorOpen, executed>>

\* join returns because the worker has stopped, or times out on a batch.
JoinEnds ==
  /\ server = "stopping"
  /\ ownerUp => running # None
  /\ server' = "closing"
  /\ UNCHANGED <<clientVars, linkVars, handlerVars, ownerVars>>

\* executor.close() waits for a batch that has entered the executor; one
\* that the worker has only taken from the queue is refused afterwards.
ExecutorCloses ==
  /\ server = "closing"
  /\ executorOpen
  /\ executorOpen' = FALSE
  /\ UNCHANGED <<clientVars, linkVars, handlerVars, queue, running, workState, ownerUp,
                 executed, server>>

\* The handlers are daemon threads: they end with the process.
Exit ==
  /\ server = "closing"
  /\ ~executorOpen
  /\ server' = "exited"
  /\ hState' = [c \in Clients |-> IF hState[c] = "none" THEN "none" ELSE "gone"]
  /\ sOpen' = [c \in Clients |-> FALSE]
  /\ queue' = <<>>
  /\ running' = None
  /\ ownerUp' = FALSE
  /\ UNCHANGED <<clientVars, up, down, cOpen, session, hId, connected, workState,
                 executorOpen, executed>>

-------------------------------------------------------------------------------
HandlerStep(c) ==
  \/ HandleHandshake(c)
  \/ HandleExecute(c)
  \/ HandleOther(c)
  \/ HandleClose(c)
  \/ HandlerDisconnected(c)
  \/ HandlerAnswers(c)

ClientReads(c) == Receive(c) \/ ReceiveNothing(c)
WorkerStep     == WorkerTakes \/ WorkerFinishes
StopStep       == JoinEnds \/ ExecutorCloses \/ Exit

Next ==
  \/ \E c \in Clients :
       \/ Connect(c)
       \/ \E method \in Methods : Request(c, method)
       \/ ClientReads(c)
       \/ Timeout(c)
       \/ Interrupt(c)
       \/ HandlerStep(c)
       \/ SendHeartbeat(c)
  \/ WorkerStep
  \/ StopServing
  \/ StopStep

\* Threads run, channels deliver, every batch ends (by a transport timeout
\* at the latest) and a server that was told to stop goes through with it.
\* Requests, timeouts, interrupts and heartbeats are never obliged to happen.
Fairness ==
  /\ \A c \in Clients : WF_vars(ClientReads(c)) /\ WF_vars(HandlerStep(c))
  /\ WF_vars(WorkerStep)
  /\ WF_vars(StopStep)

Spec == Init /\ [][Next]_vars /\ Fairness

-------------------------------------------------------------------------------
Works    == Clients \X Ids
Messages == [kind : {"heartbeat", "response"}, id : Ids,
             ending : Endings \cup {"queued", "executing"}, of : Works \cup {None}]

TypeOK ==
  /\ cState \in [Clients -> {"start", "waiting", "ready", "closed"}]
  /\ waitFor \in [Clients -> [id : Ids \cup {0}, method : Methods]]
  /\ nextId \in [Clients -> 1..(MaxRequests + 1)]
  /\ latched \in [Clients -> BOOLEAN]
  /\ results \in [Clients -> Seq([id : Ids, method : Methods, ending : Endings,
                                  of : Works \cup {None}])]
  /\ up \in [Clients -> Seq([id : Ids, method : Methods])]
  /\ down \in [Clients -> Seq(Messages)]
  /\ cOpen \in [Clients -> BOOLEAN]
  /\ sOpen \in [Clients -> BOOLEAN]
  /\ hState \in [Clients -> {"none", "reading", "executing", "gone"}]
  /\ session \in [Clients -> BOOLEAN]
  /\ hId \in [Clients -> Ids \cup {0}]
  /\ connected \in [Clients -> BOOLEAN]
  /\ queue \in Seq(Works \cup {Stop})
  /\ running \in Works \cup {None}
  /\ workState \in [Clients -> {"none", "queued", "executing", "result", "error", "refused"}]
  /\ ownerUp \in BOOLEAN
  /\ executorOpen \in BOOLEAN
  /\ executed \in Seq(Works)
  /\ server \in {"serving", "stopping", "closing", "exited"}

(* A request that returns from execute() returns what came of its own      *)
(* batch, which reached the instrument exactly once if the ending says so  *)
(* and not at all if the gateway refused it - also after a timeout or an   *)
(* interrupt has left an older response in the connection.                 *)
Runs(c, id) == {k \in DOMAIN executed : executed[k] = <<c, id>>}
AnswersAreHonest ==
  \A c \in Clients : \A k \in DOMAIN results[c] :
    LET r == results[c][k] IN
    r.method = "execute" =>
      /\ r.ending \in {"result", "error"} => r.of = <<c, r.id>> /\ Runs(c, r.id) # {}
      /\ r.ending \in {"refused", "rejected"} => Runs(c, r.id) = {}

(* No batch is run twice, and the batches of one connection are run in the *)
(* order of its requests.                                                  *)
RunOnceInOrder ==
  \A j, k \in DOMAIN executed :
    j < k /\ executed[j][1] = executed[k][1] => executed[j][2] < executed[k][2]

(* Nothing is queued for or reaches the instrument on a connection whose   *)
(* handshake has not been accepted, whatever its peer sends.               *)
HandshakeFirst ==
  \A c \in Clients :
    workState[c] # "none" \/ (\E k \in DOMAIN executed : executed[k][1] = c) => session[c]

(* Heartbeats never disturb a client: as long as none of its requests was  *)
(* given up, no response or notification comes that it does not expect.    *)
UndisturbedClient ==
  \A c \in Clients :
    (\A k \in DOMAIN results[c] : results[c][k].ending # "interrupt")
      => \A k \in DOMAIN results[c] : results[c][k].ending # "protocol"

(* A request never hangs: it is answered, or the connection ends, or the   *)
(* gateway is stopped and its process exits - also for a batch that was    *)
(* queued behind the None and that no worker will ever take.               *)
RequestEnds == \A c \in Clients : cState[c] = "waiting" ~> cState[c] # "waiting"
===============================================================================
