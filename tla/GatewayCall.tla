------------------------------ MODULE GatewayCall ------------------------------
(***************************************************************************)
(* What the calls of execute() keep of their batches and outcomes on the   *)
(* way through the gateway: the limits and conversions of                  *)
(* gateway/protocol.py, the unbuffered stream of the client, where a write *)
(* may be cut and where an interrupted or timed-out call leaves its        *)
(* response behind, and the clock that heartbeats hold against the         *)
(* client's timeout.  Gateway has the sessions and works of many clients;  *)
(* here is one session after its handshake, with messages that have sizes  *)
(* and ages and exceptions that have classes.                              *)
(***************************************************************************)
EXTENDS Integers, Sequences

CONSTANTS
  MaxCommands,    \* MAX_BATCH_COMMANDS
  MaxCommand,     \* MAX_COMMAND_BYTES
  MaxMessage,     \* MAX_MESSAGE_BYTES
  MessageSizes,   \* sizes of encoded requests and responses to try
  SendBuffer,     \* a send() may take any part of its bytes from so many on
  Timeouts,       \* the timeout of a session, in ticks
  MaxHeartbeat,   \* _MAX_HEARTBEAT_INTERVAL_S, in ticks
  Latency,        \* longest way of a message from one end to the other, in ticks
  MaxUnread,      \* bound: messages of the server on their way or not read yet
  MaxCalls        \* bound: calls of execute()

\* A responsive connection: a round trip takes less than half the timeout.
ASSUME CallAssumption ==
  /\ {MaxCommands, MaxCommand, MaxMessage, SendBuffer, MaxHeartbeat, MaxUnread,
      MaxCalls} \subseteq Nat \ {0}
  /\ MessageSizes \subseteq Nat /\ Latency \in 0 .. MaxHeartbeat
  /\ \A t \in Timeouts : t \in Nat /\ t % 2 = 0 /\ t > 4 * Latency

VARIABLES
  timeout,    \* settings.timeout of the session
  calls,      \* calls begun
  result,     \* how each call ended at the client, NotRun before
  direct,     \* how the executor of the server ended each batch, NotRun before
  waiting,    \* the last call is under way, in readline()
  cut,        \* its write() has sent a part of its request only
  latched,    \* the client's stream has timed out once and will not be read again
  closed,     \* the connection is closed or broken
  requests,   \* sent and not yet dealt with by the handler, oldest first
  running,    \* the first of them is a work of the owner
  partial,    \* bytes of a line without its end that the handler holds
  replies,    \* what the handler has written and the client not read, oldest first
  silent,     \* ticks since the waiting client last read something
  waited      \* ticks since the handler of a running work last wrote something

callVars == <<timeout, calls>>
vars == <<timeout, calls, result, direct, waiting, cut, latched, closed, requests,
          running, partial, replies, silent, waited>>

NoIndex == -1

\* An outcome: "values" of some encoded size, or an exception and its index.
Outcome(class, index, size) == [class |-> class, index |-> index, size |-> size]
Failure(class) == Outcome(class, NoIndex, 0)
NotRun == Failure("none")

----------------------------------------------------------------------------
(* gateway/protocol.py                                                     *)

Canonical == {"SPD3000Error", "SPD3000TimeoutError", "SPD3000ConnectionError",
              "SPD3000ProtocolError", "SPD3000CommandError", "SPD3000ValidationError",
              "SPD3000DeferredResultError", "SPD3000VerificationError",
              "UnsupportedFeatureError", "UnknownModelError"}
GatewayErrors == {"GatewayConnectionError", "GatewayConfigurationError",
                  "GatewayAuthenticationError", "GatewayVersionMismatchError",
                  "GatewayProtocolError", "GatewayInternalError"}
Rebuilt == GatewayErrors \ {"GatewayConnectionError", "GatewayConfigurationError"}

\* Mutant of SerializeException: `if value` where 0 is a value.
SerializeExceptionTruthy(e) ==
  IF e.class \in Canonical
  THEN [kind |-> "southbound", class |-> e.class,
        index |-> IF e.index > 0 THEN e.index ELSE NoIndex]
  ELSE [kind |-> "gateway", index |-> NoIndex,
        class |-> IF e.class \in GatewayErrors THEN e.class ELSE "GatewayInternalError"]

SerializeException(e) ==
  IF e.class \in Canonical
  THEN [kind |-> "southbound", class |-> e.class, index |-> e.index]
  ELSE [kind |-> "gateway", index |-> NoIndex,
        class |-> IF e.class \in GatewayErrors THEN e.class ELSE "GatewayInternalError"]

ReconstructException(data) ==
  IF data.kind = "southbound"
  THEN IF data.class \in Canonical
       THEN Outcome(data.class, data.index, 0)
       ELSE Failure("GatewayProtocolError")
  ELSE Failure(IF data.class \in Rebuilt THEN data.class ELSE "GatewayInternalError")

\* What the message of an outcome is rebuilt to at the other end.
Arrived(d) == IF d.class = "values" THEN d ELSE ReconstructException(SerializeException(d))

\* Mutant of Encodable: the limit is that of the line with its LF.
EncodableWithLF(size) == size <= MaxMessage + 1

\* encode_message()
Encodable(size) == size <= MaxMessage

\* readline(MAX + 2) of `size` bytes and LF, then the check of both ends.
Readable(size) ==
  LET line == IF size + 1 < MaxMessage + 2 THEN size + 1 ELSE MaxMessage + 2 IN
  line <= MaxMessage + 1 /\ line = size + 1

\* What is on its way to the client: the answer to a request, a heartbeat, a line
\* without its end or the end of the stream.
Message(id, says) == [id |-> id, says |-> says, age |-> 0]
NoId == 0          \* "id": null, of a line that is no request
Heartbeat == Failure("heartbeat")
Fragment == Message(NoId, Failure("fragment"))
End == Message(NoId, Failure("end"))
Refusal(id) == Message(id, Arrived(Failure("GatewayProtocolError")))

----------------------------------------------------------------------------
Requests == [commands : 1 .. MaxCommands + 1, longest : {1, MaxCommand, MaxCommand + 1},
             size : MessageSizes]

\* How DirectExecutor may end a batch, or the owner instead of it.
DirectOutcomes(commands) ==
  {Outcome("values", NoIndex, n) : n \in MessageSizes}
  \cup {Outcome(c, i, 0) : c \in {"SPD3000TimeoutError", "SPD3000ConnectionError",
                                  "SPD3000ProtocolError"},
                           i \in 0 .. commands - 1}
  \cup {Failure("SPD3000ConnectionError"), Failure("RuntimeError")}

Init ==
  /\ timeout \in Timeouts
  /\ calls = 0
  /\ result = [n \in 1 .. MaxCalls |-> NotRun] /\ direct = [n \in 1 .. MaxCalls |-> NotRun]
  /\ waiting = FALSE /\ cut = FALSE /\ latched = FALSE /\ closed = FALSE
  /\ requests = <<>> /\ running = FALSE /\ partial = 0 /\ replies = <<>>
  /\ silent = 0 /\ waited = 0

serverVars == <<direct, running, partial, waited>>

----------------------------------------------------------------------------
(* The client.                                                             *)

\* Call n ends with this outcome.
Finish(n, outcome) ==
  /\ result' = [result EXCEPT ![n] = outcome]
  /\ waiting' = FALSE /\ cut' = FALSE /\ silent' = 0

NewCall ==
  /\ ~ waiting /\ calls < MaxCalls
  /\ calls' = calls + 1

Serializable(r) == r.longest <= MaxCommand /\ Encodable(r.size)

\* serialize_command() or encode_message() refuses: nothing is sent.
Refuse ==
  /\ NewCall
  /\ \E r \in Requests : ~ Serializable(r)
  /\ Finish(calls', Failure("GatewayProtocolError"))
  /\ UNCHANGED <<timeout, latched, closed, requests, replies, serverVars>>

\* write() raises before it has sent anything, or is interrupted.
SendFails ==
  /\ NewCall
  /\ \E r \in Requests : Serializable(r)
  /\ \E c \in {"GatewayConnectionError", "KeyboardInterrupt"} : Finish(calls', Failure(c))
  /\ UNCHANGED <<timeout, latched, closed, requests, replies, serverVars>>

\* write() returns, perhaps having sent only a part (client.py:98), which the next
\* request will continue. A stream that has timed out is still written, and only then
\* refuses to be read; what is written to a closed one is lost.
Send ==
  /\ NewCall
  /\ \E r \in Requests, sent \in 1 .. MaxMessage + 1 :
       /\ Serializable(r)
       /\ sent = r.size + 1 \/ sent \in SendBuffer .. r.size
       /\ requests' = IF closed THEN requests
                      ELSE Append(requests, [call |-> calls + 1, commands |-> r.commands,
                                             bytes |-> sent, whole |-> sent = r.size + 1, age |-> 0])
       /\ IF latched THEN Finish(calls + 1, Failure("GatewayConnectionError"))
          ELSE waiting' = TRUE /\ cut' = (sent # r.size + 1) /\ silent' = 0 /\ UNCHANGED result
  /\ UNCHANGED <<timeout, latched, closed, replies, serverVars>>

Mine(m) == m.id = calls
OwnHeartbeat(m) == Mine(m) /\ m.says = Heartbeat

\* A heartbeat of this request is read and dropped.
ReadHeartbeat ==
  /\ waiting /\ replies # <<>> /\ OwnHeartbeat(Head(replies))
  /\ replies' = Tail(replies) /\ silent' = 0
  /\ UNCHANGED <<callVars, result, waiting, cut, latched, closed, requests, serverVars>>

\* Anything else ends the call: its own response, or what an earlier one has left.
ReadReply ==
  /\ waiting /\ replies # <<>>
  /\ LET m == Head(replies) IN
       /\ m.says # End.says /\ ~ OwnHeartbeat(m)
       /\ Finish(calls, IF Mine(m) /\ Readable(m.says.size) THEN m.says
                        ELSE Failure("GatewayProtocolError"))
  /\ replies' = Tail(replies)
  /\ UNCHANGED <<callVars, latched, closed, requests, serverVars>>

ReadEnd ==
  /\ waiting /\ replies # <<>> /\ Head(replies).says = End.says
  /\ Finish(calls, Failure("GatewayConnectionError"))
  /\ UNCHANGED <<callVars, latched, closed, requests, replies, serverVars>>

TimeOut ==
  /\ waiting /\ silent >= timeout
  /\ Finish(calls, Failure("GatewayConnectionError"))
  /\ latched' = TRUE
  /\ UNCHANGED <<callVars, closed, requests, replies, serverVars>>

\* A KeyboardInterrupt while the call waits: what comes later stays in the
\* connection, also the end of a line that had begun to come; perhaps a whole line
\* was read already.
Interrupt ==
  /\ waiting
  /\ Finish(calls, Failure("KeyboardInterrupt"))
  /\ \/ UNCHANGED replies
     \/ replies # <<>> /\ Head(replies).says # End.says /\ replies' = Tail(replies)
  /\ UNCHANGED <<callVars, latched, closed, requests, serverVars>>

----------------------------------------------------------------------------
(* The handler of the server.                                              *)

clientVars == <<timeout, calls, result, waiting, cut, latched, silent>>

Written(s, m) == IF closed THEN s ELSE Append(s, m)
Write(m) == replies' = Written(replies, m)

\* The bytes of the line that a request continues.
Joined(r) == partial + r.bytes

\* A request within all limits becomes a work of the owner.
Acceptable(r) == r.whole /\ partial = 0 /\ Readable(r.bytes - 1) /\ r.commands <= MaxCommands

Receive ==
  /\ requests # <<>> /\ ~ running /\ Acceptable(Head(requests))
  /\ running' = TRUE /\ waited' = 0
  /\ UNCHANGED <<clientVars, direct, closed, requests, partial, replies>>

\* Refused: too many commands, or the end of a line that began with an earlier
\* part, which readline(MAX + 2) takes in two when it is longer than that.
RefuseLine ==
  /\ requests # <<>> /\ ~ running /\ Head(requests).whole /\ ~ Acceptable(Head(requests))
  /\ IF partial = 0 THEN Write(Refusal(Head(requests).call))
     ELSE IF Joined(Head(requests)) <= MaxMessage + 2 THEN Write(Refusal(NoId))
     ELSE replies' = Written(Written(replies, Refusal(NoId)), Refusal(NoId))
  /\ requests' = Tail(requests) /\ partial' = 0
  /\ UNCHANGED <<clientVars, direct, closed, running, waited>>

\* A part of a line waits for its end, unless readline() is full with it.
ReceivePart ==
  /\ requests # <<>> /\ ~ running /\ ~ Head(requests).whole
  /\ \/ /\ Joined(Head(requests)) < MaxMessage + 2
        /\ partial' = Joined(Head(requests)) /\ UNCHANGED replies
     \/ /\ Joined(Head(requests)) >= MaxMessage + 2
        /\ partial' = Joined(Head(requests)) - (MaxMessage + 2) /\ Write(Refusal(NoId))
  /\ requests' = Tail(requests)
  /\ UNCHANGED <<clientVars, direct, closed, running, waited>>

\* Mutant of HeartbeatInterval: the client's timeout is not looked at.
HeartbeatIntervalFixed == MaxHeartbeat

\* min(_MAX_HEARTBEAT_INTERVAL_S, settings.timeout / 2.0)
HeartbeatInterval == IF MaxHeartbeat < timeout \div 2 THEN MaxHeartbeat ELSE timeout \div 2

SendHeartbeat ==
  /\ running /\ waited = HeartbeatInterval /\ Len(replies) < MaxUnread
  /\ Write(Message(Head(requests).call, Heartbeat))
  /\ waited' = 0
  /\ UNCHANGED <<clientVars, direct, closed, requests, running, partial>>

\* The owner ends the work; a response that encode_message() refuses escapes
\* _handle, whose caller closes the connection.
EndWork ==
  /\ running
  /\ \E d \in DirectOutcomes(Head(requests).commands) :
       /\ direct' = [direct EXCEPT ![Head(requests).call] = d]
       /\ IF Encodable(d.size)
          THEN /\ Write(Message(Head(requests).call, Arrived(d)))
               /\ requests' = Tail(requests) /\ UNCHANGED closed
          ELSE Write(End) /\ requests' = <<>> /\ closed' = TRUE
  /\ running' = FALSE /\ waited' = 0
  /\ UNCHANGED <<clientVars, partial>>

----------------------------------------------------------------------------
\* The connection breaks: some of what is on its way still arrives at either end,
\* the last line perhaps without its end.
LinkBreaks ==
  /\ ~ closed /\ closed' = TRUE
  /\ \E i \in 0 .. Len(replies) :
       \/ replies' = Append(SubSeq(replies, 1, i), End)
       \/ i < Len(replies) /\ replies' = Append(Append(SubSeq(replies, 1, i), Fragment), End)
  /\ \E j \in (IF running THEN 1 ELSE 0) .. Len(requests) : requests' = SubSeq(requests, 1, j)
  /\ UNCHANGED <<clientVars, serverVars>>

Older(messages) ==
  [i \in DOMAIN messages |->
    IF messages[i].age < Latency THEN [messages[i] EXCEPT !.age = @ + 1] ELSE messages[i]]

\* Time passes: no message is on its way for longer than Latency, an end that
\* waits for one takes it when it is there, and a wait of the handler ends in time.
Tick ==
  /\ waiting \/ requests # <<>>
  /\ waiting => silent < timeout /\ (replies # <<>> => Head(replies).age < Latency)
  /\ running => waited < HeartbeatInterval
  /\ ~ running /\ requests # <<>> => closed \/ Head(requests).age < Latency
  /\ silent' = IF waiting THEN silent + 1 ELSE silent
  /\ waited' = IF running THEN waited + 1 ELSE waited
  /\ requests' = Older(requests) /\ replies' = Older(replies)
  /\ UNCHANGED <<callVars, result, direct, waiting, cut, latched, closed, running, partial>>

Next ==
  \/ Refuse \/ SendFails \/ Send \/ ReadHeartbeat \/ ReadReply \/ ReadEnd \/ TimeOut \/ Interrupt
  \/ Receive \/ RefuseLine \/ ReceivePart \/ SendHeartbeat \/ EndWork \/ LinkBreaks \/ Tick

Spec == Init /\ [][Next]_vars

----------------------------------------------------------------------------
(* Properties.                                                             *)

TypeOK ==
  /\ timeout \in Timeouts /\ calls \in 0 .. MaxCalls
  /\ \A n \in 1 .. MaxCalls : \A o \in {result[n], direct[n]} :
       o.class \in Canonical \cup GatewayErrors \cup {"none", "values", "RuntimeError", "KeyboardInterrupt"}
  /\ {waiting, cut, latched, closed, running} \subseteq BOOLEAN
  /\ partial \in 0 .. MaxMessage + 1
  /\ silent \in 0 .. timeout /\ waited \in 0 .. MaxHeartbeat
  /\ \A i \in DOMAIN requests : requests[i].age \in 0 .. Latency
  /\ \A i \in DOMAIN replies : replies[i].age \in 0 .. Latency

Ended(n) == result[n] # NotRun

\* What the caller of a DirectExecutor would have seen; what is no exception of
\* the driver becomes a GatewayInternalError (server.py:237-256).
Own(n) ==
  IF direct[n].class \in Canonical \cup {"values"} THEN direct[n]
  ELSE Failure("GatewayInternalError")

\* Whatever was interrupted, cut, timed out or lost before: what execute() tells of
\* the instrument, its values or an exception with the index that the driver needs
\* to blame the right operation, is what happened to this very batch; and the
\* outcome of a batch that has ended is hidden only behind the errors of the
\* gateway, behind a GatewayConnectionError only when the session has no reader
\* or no connection any more.
SameAsDirect ==
  \A n \in 1 .. calls :
    /\ result[n].class \in Canonical \cup {"values", "GatewayInternalError"} => direct[n] # NotRun
    /\ Ended(n) /\ direct[n] # NotRun /\ result[n] # Own(n) =>
         \/ result[n].class \in {"KeyboardInterrupt", "GatewayProtocolError"}
         \/ result[n].class = "GatewayConnectionError" /\ (latched \/ closed)

\* While the connection holds, a GatewayProtocolError says that the request was
\* refused, and nothing of its batch reaches the instrument, then or later, also at
\* the limits themselves: unless an earlier call of the session was interrupted. That
\* leaves a response behind, which the next call takes for a wrong one though its own
\* batch runs.
ProtocolErrorMeansNotRun ==
  \A n \in 1 .. calls :
    result[n].class = "GatewayProtocolError" /\ direct[n] # NotRun =>
      closed \/ \E m \in 1 .. n - 1 : result[m].class = "KeyboardInterrupt"

\* "often enough to keep a responsive gateway connection from reaching the
\* client's inactivity timeout" (README.md:540), however long a batch waits, for
\* every timeout of a session and also behind abandoned batches: while the connection
\* holds, only a call whose request was cut times out.
HeardInTime == [][latched' /\ ~ latched => cut \/ closed]_vars
===============================================================================
