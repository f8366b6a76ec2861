---------------------------- MODULE DirectExecutor ----------------------------
(***************************************************************************)
(* The DirectExecutor of execution.py: the one object through which a      *)
(* physical SPD3000 is written and read.  Any thread may call execute() or *)
(* close(); an RLock makes each call exclusive, a recorded write time      *)
(* spaces the commands, and a query is a write, a sleep and a read of the  *)
(* transport's byte stream.                                                *)
(*                                                                         *)
(* Commands are abstracted to their class, Write or Query.  A query is     *)
(* named by the pair <<batch, command index>> and an answer carries the    *)
(* name of the query it answers, so that the model can tell a fresh answer *)
(* from one that was meant for an earlier query.                           *)
(***************************************************************************)
EXTENDS Integers, Sequences

CONSTANTS
  Threads,       \* the threads that share the executor
  MainThreads,   \* the ones a KeyboardInterrupt can reach
  NoThread,      \* the owner of a free lock
  Batches,       \* the command batches that callers submit
  Intervals,     \* the values of ExecutionSettings.min_command_interval
  Delays,        \* how long a step may take beyond what it sleeps
  MaxBatches     \* bound: calls of execute()

Kinds == {"write", "query"}

ASSUME ThreadsAssumption == NoThread \notin Threads /\ MainThreads \subseteq Threads
ASSUME BatchesAssumption == Batches \subseteq Seq(Kinds) \ {<<>>}
ASSUME TimeAssumption    == Intervals \subseteq Nat /\ Delays \subseteq Nat
ASSUME BoundAssumption   == MaxBatches \in Nat

NoTime  == -1           \* _last_write_at = None
NoValue == <<0, 0>>     \* the None that a write contributes to BatchResult

VARIABLES
  now,          \* the monotonic clock
  interval,     \* settings.min_command_interval
  lastWriteAt,  \* _last_write_at
  holder,       \* the thread inside "with self._lock"
  closed,       \* _closed
  linkUp,       \* the transport can still be written
  pc,           \* where each thread is
  job,          \* the batch each thread executes, 0 if none
  index,        \* command_index (from 1) of each thread's loop
  values,       \* the values list of each thread's loop
  batches,      \* history: every batch submitted
  outcome,      \* history: how each batch ended
  wire,         \* history: every attempted transport.write, in order
  owed,         \* queries the instrument has received and not answered
  pipe          \* answers that no read has consumed yet

callVars       == <<pc, job, index, values, batches, outcome>>
instrumentVars == <<owed, pipe>>
lockVars       == <<holder, closed, linkUp>>
vars == <<now, interval, lastWriteAt, lockVars, callVars, wire, instrumentVars>>

InBatch   == {"wait", "write", "settle", "read"}
Locations == {"idle", "acquire", "closing"} \cup InBatch
Endings   == {"result", "closed", "timeout", "connection", "protocol", "interrupt"}
QueryIds  == (1..MaxBatches) \X (Nat \ {0})
Pending   == [kind |-> "pending", index |-> 0, values |-> <<>>]

CommandOf(t) == batches[job[t]][index[t]]
IdOf(t)      == <<job[t], index[t]>>

-------------------------------------------------------------------------------
Init ==
  /\ now = 0
  /\ interval \in Intervals
  /\ lastWriteAt = NoTime
  /\ holder = NoThread
  /\ closed = FALSE
  /\ linkUp = TRUE
  /\ pc = [t \in Threads |-> "idle"]
  /\ job = [t \in Threads |-> 0]
  /\ index = [t \in Threads |-> 1]
  /\ values = [t \in Threads |-> <<>>]
  /\ batches = <<>>
  /\ outcome = <<>>
  /\ wire = <<>>
  /\ owed = <<>>
  /\ pipe = <<>>

(***************************************************************************)
(* Entering execute().                                                     *)
(***************************************************************************)
Call(t, commands) ==
  /\ pc[t] = "idle"
  /\ Len(batches) < MaxBatches
  /\ batches' = Append(batches, commands)
  /\ outcome' = Append(outcome, Pending)
  /\ job' = [job EXCEPT ![t] = Len(batches) + 1]
  /\ pc' = [pc EXCEPT ![t] = "acquire"]
  /\ UNCHANGED <<now, interval, lastWriteAt, lockVars, index, values, wire,
                 instrumentVars>>

\* Mutant of Acquire: the lock is not taken.
AcquireWithoutLock(t) ==
  /\ pc[t] = "acquire"
  /\ ~closed
  /\ holder' = t
  /\ pc' = [pc EXCEPT ![t] = "wait"]
  /\ UNCHANGED <<now, interval, lastWriteAt, closed, linkUp, job, index, values,
                 batches, outcome, wire, instrumentVars>>

\* Mutant of Acquire: _closed is not looked at under the lock.
AcquireClosed(t) ==
  /\ pc[t] = "acquire"
  /\ holder = NoThread
  /\ holder' = t
  /\ pc' = [pc EXCEPT ![t] = "wait"]
  /\ UNCHANGED <<now, interval, lastWriteAt, closed, linkUp, job, index, values,
                 batches, outcome, wire, instrumentVars>>

Acquire(t) ==
  /\ pc[t] = "acquire"
  /\ holder = NoThread
  /\ ~closed
  /\ holder' = t
  /\ pc' = [pc EXCEPT ![t] = "wait"]
  /\ UNCHANGED <<now, interval, lastWriteAt, closed, linkUp, job, index, values,
                 batches, outcome, wire, instrumentVars>>

(* The call of t ends: the with block releases the lock on every way out.  *)
(* vals is the values list at that moment, which only a result returns.    *)
Leave(t, kind, i, vals) ==
  /\ outcome' = [outcome EXCEPT ![job[t]] = [kind |-> kind, index |-> i, values |-> vals]]
  /\ pc' = [pc EXCEPT ![t] = "idle"]
  /\ job' = [job EXCEPT ![t] = 0]
  /\ index' = [index EXCEPT ![t] = 1]
  /\ values' = [values EXCEPT ![t] = <<>>]
  /\ UNCHANGED batches

Release(t) == holder' = IF holder = t THEN NoThread ELSE holder

RejectClosed(t) ==
  /\ pc[t] = "acquire"
  /\ holder = NoThread
  /\ closed
  /\ Leave(t, "closed", 0, <<>>)
  /\ UNCHANGED <<now, interval, lastWriteAt, lockVars, wire, instrumentVars>>

(***************************************************************************)
(* The loop over the commands.                                             *)
(***************************************************************************)
\* One more command is done, with the value it contributes.
Advance(t, value) ==
  LET vals == Append(values[t], value) IN
  IF index[t] = Len(batches[job[t]])
  THEN /\ Leave(t, "result", 0, vals)
       /\ Release(t)
  ELSE /\ values' = [values EXCEPT ![t] = vals]
       /\ index' = [index EXCEPT ![t] = @ + 1]
       /\ pc' = [pc EXCEPT ![t] = "wait"]
       /\ UNCHANGED <<job, batches, outcome, holder>>

\* Mutant of Fail: the error is annotated with the number of values so far.
FailOffByOne(t, kind) ==
  /\ Leave(t, kind, Len(values[t]), values[t])
  /\ Release(t)

\* Mutant of Fail: the lock is released on the normal way out only.
FailHoldingLock(t, kind) ==
  /\ Leave(t, kind, index[t], values[t])
  /\ UNCHANGED holder

\* The index of the command goes with every error that execute() catches;
\* a KeyboardInterrupt passes as it is.
Fail(t, kind) ==
  /\ Leave(t, kind, IF kind = "interrupt" THEN 0 ELSE index[t], values[t])
  /\ Release(t)

\* Mutant of WriteAllowedAt: _last_write_at is assumed to be set.
WriteAllowedAtUnset ==
  IF lastWriteAt + interval <= now /\ lastWriteAt # NoTime
  THEN now
  ELSE lastWriteAt + interval

\* The earliest time at which the wait before a write ends.
WriteAllowedAt ==
  IF lastWriteAt = NoTime \/ lastWriteAt + interval <= now
  THEN now
  ELSE lastWriteAt + interval

WaitBeforeWrite(t) ==
  /\ pc[t] = "wait"
  /\ \E d \in Delays : now' = WriteAllowedAt + d
  /\ pc' = [pc EXCEPT ![t] = "write"]
  /\ UNCHANGED <<interval, lastWriteAt, lockVars, job, index, values, batches,
                 outcome, wire, instrumentVars>>

\* The instrument receives the command; it will answer a query later.
Deliver(t) ==
  owed' = IF CommandOf(t) = "query" THEN Append(owed, IdOf(t)) ELSE owed

Record(t, duration, delivered, ok) ==
  wire' = Append(wire, [id |-> IdOf(t), start |-> now, end |-> now + duration,
                        delivered |-> delivered, ok |-> ok, interval |-> interval])

\* Mutant of TransportWrite: a query leaves no write time.
TransportWriteQueryUnstamped(t) ==
  /\ pc[t] = "write"
  /\ linkUp
  /\ \E d \in Delays :
       /\ Record(t, d, TRUE, TRUE)
       /\ now' = now + d
       /\ lastWriteAt' = IF CommandOf(t) = "query" THEN lastWriteAt ELSE now + d
  /\ Deliver(t)
  /\ IF CommandOf(t) = "query"
     THEN /\ pc' = [pc EXCEPT ![t] = "settle"]
          /\ UNCHANGED <<job, index, values, batches, outcome, holder>>
     ELSE Advance(t, NoValue)
  /\ UNCHANGED <<interval, closed, linkUp, pipe>>

TransportWrite(t) ==
  /\ pc[t] = "write"
  /\ linkUp
  /\ \E d \in Delays :
       /\ Record(t, d, TRUE, TRUE)
       /\ now' = now + d
       /\ lastWriteAt' = now + d
  /\ Deliver(t)
  /\ IF CommandOf(t) = "query"
     THEN /\ pc' = [pc EXCEPT ![t] = "settle"]
          /\ UNCHANGED <<job, index, values, batches, outcome, holder>>
     ELSE Advance(t, NoValue)
  /\ UNCHANGED <<interval, closed, linkUp, pipe>>

\* Mutant of TransportWriteFails: a failed write of a query is left to the read.
TransportWriteFailsLate(t) ==
  /\ pc[t] = "write"
  /\ \E kind \in {"timeout", "connection", "interrupt"}, delivered \in BOOLEAN, d \in Delays :
       /\ kind = "interrupt" => t \in MainThreads
       /\ linkUp \/ (kind # "timeout" /\ ~delivered)
       /\ Record(t, d, delivered, FALSE)
       /\ now' = now + d
       /\ IF delivered THEN Deliver(t) ELSE UNCHANGED owed
       /\ linkUp' \in IF kind = "connection" THEN {FALSE, linkUp} ELSE {linkUp}
       /\ IF kind = "connection" /\ CommandOf(t) = "query"
          THEN /\ pc' = [pc EXCEPT ![t] = "settle"]
               /\ UNCHANGED <<job, index, values, batches, outcome, holder>>
          ELSE Fail(t, kind)
  /\ UNCHANGED <<interval, lastWriteAt, closed, pipe>>

\* transport.write raised, or the thread was interrupted before it recorded
\* the time of the write: the command may have reached the instrument.
TransportWriteFails(t) ==
  /\ pc[t] = "write"
  /\ \E kind \in {"timeout", "connection", "interrupt"}, delivered \in BOOLEAN, d \in Delays :
       /\ kind = "interrupt" => t \in MainThreads
       /\ linkUp \/ (kind # "timeout" /\ ~delivered)
       /\ Record(t, d, delivered, FALSE)
       /\ now' = now + d
       /\ IF delivered THEN Deliver(t) ELSE UNCHANGED owed
       /\ linkUp' \in IF kind = "connection" THEN {FALSE, linkUp} ELSE {linkUp}
       /\ Fail(t, kind)
  /\ UNCHANGED <<interval, lastWriteAt, closed, pipe>>

SettleSleep(t) ==
  /\ pc[t] = "settle"
  /\ \E d \in Delays : now' = now + interval + d
  /\ pc' = [pc EXCEPT ![t] = "read"]
  /\ UNCHANGED <<interval, lastWriteAt, lockVars, job, index, values, batches,
                 outcome, wire, instrumentVars>>

\* Mutant of TransportRead: the line stays in the receive buffer.
TransportReadPeek(t) ==
  /\ pc[t] = "read"
  /\ pipe # <<>>
  /\ \E d \in Delays : now' = now + d
  /\ IF Head(pipe).ascii
     THEN Advance(t, Head(pipe).answers)
     ELSE Fail(t, "protocol")
  /\ UNCHANGED <<interval, lastWriteAt, closed, linkUp, wire, instrumentVars>>

\* transport.read returns one whole line, whichever query it answers.
TransportRead(t) ==
  /\ pc[t] = "read"
  /\ pipe # <<>>
  /\ \E d \in Delays : now' = now + d
  /\ pipe' = Tail(pipe)
  /\ IF Head(pipe).ascii
     THEN Advance(t, Head(pipe).answers)
     ELSE Fail(t, "protocol")
  /\ UNCHANGED <<interval, lastWriteAt, closed, linkUp, wire, owed>>

TransportReadFails(t) ==
  /\ pc[t] = "read"
  /\ \E kind \in {"timeout", "connection"}, d \in Delays :
       /\ kind = "timeout" => pipe = <<>>
       /\ now' = now + d
       /\ linkUp' \in IF kind = "connection" THEN {FALSE, linkUp} ELSE {linkUp}
       /\ Fail(t, kind)
  /\ UNCHANGED <<interval, lastWriteAt, closed, wire, instrumentVars>>

\* KeyboardInterrupt while the thread waits for the lock, sleeps or reads:
\* no except clause catches it, the with block releases the lock.  A line
\* that the transport has just returned is lost with it.
Interrupt(t) ==
  /\ t \in MainThreads
  /\ pc[t] \in {"acquire", "wait", "settle", "read"}
  /\ pipe' \in IF pc[t] = "read" /\ pipe # <<>> THEN {pipe, Tail(pipe)} ELSE {pipe}
  /\ Fail(t, "interrupt")
  /\ UNCHANGED <<now, interval, lastWriteAt, closed, linkUp, wire, owed>>

(***************************************************************************)
(* close().                                                                *)
(***************************************************************************)
CallClose(t) ==
  /\ pc[t] = "idle"
  /\ pc' = [pc EXCEPT ![t] = "closing"]
  /\ UNCHANGED <<now, interval, lastWriteAt, lockVars, job, index, values, batches,
                 outcome, wire, instrumentVars>>

\* Mutant of Close: close() does not take the lock.
CloseWithoutLock(t) ==
  /\ pc[t] = "closing"
  /\ closed' \in IF closed THEN {TRUE} ELSE BOOLEAN
  /\ linkUp' = FALSE
  /\ pc' = [pc EXCEPT ![t] = "idle"]
  /\ UNCHANGED <<now, interval, lastWriteAt, holder, job, index, values, batches,
                 outcome, wire, instrumentVars>>

\* The transport is shut in either case; when transport.close() raises, perhaps
\* again, the assignment of _closed is skipped.
Close(t) ==
  /\ pc[t] = "closing"
  /\ holder = NoThread
  /\ closed' \in IF closed THEN {TRUE} ELSE BOOLEAN
  /\ linkUp' = FALSE
  /\ pc' = [pc EXCEPT ![t] = "idle"]
  /\ UNCHANGED <<now, interval, lastWriteAt, holder, job, index, values, batches,
                 outcome, wire, instrumentVars>>

(***************************************************************************)
(* The instrument answers queries in the order it received them, at a time *)
(* of its own; it may ignore one, and an answer may be unreadable.         *)
(***************************************************************************)
Answer ==
  /\ owed # <<>>
  /\ \E ascii \in BOOLEAN :
       pipe' = Append(pipe, [answers |-> Head(owed), ascii |-> ascii])
  /\ owed' = Tail(owed)
  /\ UNCHANGED <<now, interval, lastWriteAt, lockVars, callVars, wire>>

Ignore ==
  /\ owed # <<>>
  /\ owed' = Tail(owed)
  /\ UNCHANGED <<now, interval, lastWriteAt, lockVars, callVars, wire, pipe>>

-------------------------------------------------------------------------------
\* What a call does once it holds, or is about to be refused, the lock.
Step(t) ==
  \/ Acquire(t)
  \/ RejectClosed(t)
  \/ WaitBeforeWrite(t)
  \/ TransportWrite(t)
  \/ TransportWriteFails(t)
  \/ SettleSleep(t)
  \/ TransportRead(t)
  \/ TransportReadFails(t)
  \/ Close(t)

Next ==
  \/ \E t \in Threads :
       \/ \E commands \in Batches : Call(t, commands)
       \/ CallClose(t)
       \/ Step(t)
       \/ Interrupt(t)
  \/ Answer
  \/ Ignore

\* Each thread inside the executor keeps running: its sleeps are finite and
\* every transport operation ends, at the latest by its timeout.
Fairness == \A t \in Threads : WF_vars(Step(t))

Spec == Init /\ [][Next]_vars /\ Fairness

-------------------------------------------------------------------------------
ClockTypeOK ==
  /\ now \in Nat
  /\ interval \in Intervals
  /\ lastWriteAt \in Nat \cup {NoTime}

LockTypeOK ==
  /\ holder \in Threads \cup {NoThread}
  /\ closed \in BOOLEAN
  /\ linkUp \in BOOLEAN

Values   == QueryIds \cup {NoValue}
Outcomes == [kind : Endings \cup {"pending"}, index : Nat, values : Seq(Values)]
Attempts == [id : QueryIds, start : Nat, end : Nat, delivered : BOOLEAN, ok : BOOLEAN,
             interval : Intervals]
Answers  == [answers : QueryIds, ascii : BOOLEAN]

CallsTypeOK ==
  /\ pc \in [Threads -> Locations]
  /\ job \in [Threads -> 0..MaxBatches]
  /\ index \in [Threads -> Nat \ {0}]
  /\ values \in [Threads -> Seq(Values)]
  /\ batches \in Seq(Batches)
  /\ outcome \in Seq(Outcomes)

WireTypeOK ==
  /\ wire \in Seq(Attempts)
  /\ owed \in Seq(QueryIds)
  /\ pipe \in Seq(Answers)

TypeOK == ClockTypeOK /\ LockTypeOK /\ CallsTypeOK /\ WireTypeOK

(* Global command timing: a write starts no earlier than                   *)
(* min_command_interval after the end of the last write that succeeded,    *)
(* also when the two belong to batches of different threads.               *)
CommandSpacing ==
  \A j, k \in DOMAIN wire :
    j < k /\ wire[j].ok => wire[k].start >= wire[j].end + wire[k].interval

(* The index that an error carries is the number of commands that were     *)
(* attempted; all before it succeeded and none after it was tried.  A      *)
(* result has one value per command, None exactly at the writes.           *)
Attempted(b) == {k \in DOMAIN wire : wire[k].id[1] = b}
OutcomeTellsWhatWasSent ==
  \A b \in DOMAIN outcome :
    LET o == outcome[b]
        n == Len(batches[b])
        sent == {wire[k].id[2] : k \in Attempted(b)} IN
    /\ o.kind = "closed" => sent = {}
    /\ o.kind = "result" =>
         /\ sent = 1..n /\ Len(o.values) = n
         /\ \A k \in Attempted(b) : wire[k].ok
         /\ \A i \in 1..n : (o.values[i] = NoValue) <=> (batches[b][i] = "write")
    /\ o.index > 0 =>
         /\ sent = 1..o.index /\ Len(o.values) = o.index - 1
         /\ \A k \in Attempted(b) : wire[k].id[2] < o.index => wire[k].ok

(* The queries that reached the instrument and whose read was given up.    *)
Abandoned ==
  {wire[k].id : k \in {j \in DOMAIN wire :
     LET b == wire[j].id[1]
         i == wire[j].id[2] IN
     /\ wire[j].delivered
     /\ batches[b][i] = "query"
     /\ outcome[b].kind \in {"timeout", "connection", "interrupt"}
     /\ i > Len(outcome[b].values)}}

(* As long as no read was given up, every query returns the answer to      *)
(* itself.  Even when reads were given up, answers are used in the order   *)
(* of the queries and none is used twice: the k-th query to return a value *)
(* got an answer to a query written no later than itself, and later than   *)
(* the one whose answer the query before it got.                           *)
Value(k)     == LET b == wire[k].id[1] IN outcome[b].values[wire[k].id[2]]
Returned     == {k \in DOMAIN wire : LET b == wire[k].id[1] IN
                   /\ wire[k].id[2] \in DOMAIN outcome[b].values
                   /\ batches[b][wire[k].id[2]] = "query"}
WrittenAt(q) == CHOOSE k \in DOMAIN wire : wire[k].id = q
AnswersInOrder ==
  \A k \in Returned :
    /\ WrittenAt(Value(k)) <= k
    /\ Abandoned = {} => WrittenAt(Value(k)) = k
    /\ \A l \in Returned : l < k => WrittenAt(Value(l)) < WrittenAt(Value(k))

(* "Every instrument-state property read performs a fresh hardware query": *)
(* a value that a query returns answers that query.                        *)
FreshAnswers ==
  \A b \in DOMAIN outcome : \A i \in DOMAIN outcome[b].values :
    outcome[b].values[i] \in {NoValue, <<b, i>>}

(* close() never shuts the transport under a running batch: only an error  *)
(* of the batch's own transport call can take the link away from it.       *)
CloseWaitsForTheBatch ==
  [][ linkUp /\ ~linkUp' /\ holder # NoThread => pc'[holder] = "idle" /\ holder' = NoThread ]_vars

(* Nothing is written once close() has succeeded.                          *)
NothingAfterClose == [][ closed => UNCHANGED wire /\ closed' ]_vars

(* From a transport that is broken or shut nothing is got any more, also   *)
(* when its close() raised and _closed is still False: each later call, of *)
(* any thread, ends with a connection error, of the executor or of its     *)
(* first command, unless it is interrupted; it returns no value, not even  *)
(* an answer that an earlier query has left in the pipe.                   *)
NothingFromAShutTransport ==
  [][ ~linkUp =>
        /\ ~linkUp'
        /\ \A b \in DOMAIN outcome : outcome'[b] # outcome[b] =>
             /\ outcome'[b].kind \in {"closed", "connection", "interrupt"}
             /\ outcome'[b].index \in {0, 1} /\ outcome'[b].values = <<>>
        /\ wire' # wire => LET last == wire'[Len(wire')] IN
             ~last.delivered /\ last.id[2] = 1 ]_vars

(* The batches take turns on the wire as SerialBatches says: the turn is   *)
(* the lock, and what is next to be sent follows from where its holder is. *)
Turn ==
  IF holder = NoThread THEN NoValue
  ELSE IF pc[holder] \in {"wait", "write"} THEN IdOf(holder)
  ELSE <<job[holder], index[holder] + 1>>

Serial == INSTANCE SerialBatches
            WITH BatchIds <- 1..MaxBatches,
                 log <- [k \in DOMAIN wire |-> wire[k].id],
                 current <- Turn

BatchesTakeTurns == Serial!Spec

(* The lock is always given back: by a result, an error, a timeout or an   *)
(* interrupt.                                                              *)
LockIsReleased == \A t \in Threads : holder = t ~> holder # t

===============================================================================
