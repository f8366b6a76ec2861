-------------------------- MODULE PhysicalOwnerProofs --------------------------
(***************************************************************************)
(* Proofs about PhysicalOwner for any batches, intervals, delays and       *)
(* number of works: works run in order and under their own settings, keep  *)
(* their distance, and are refused by no orderly stop.                     *)
(*                                                                         *)
(* Every step of the owner but SpaceWorks is one of the executor or leaves *)
(* the executor alone, so what DirectExecutorProofs shows of the executor  *)
(* holds inside the owner too.                                             *)
(***************************************************************************)
EXTENDS DirectExecutorProofs, PhysicalOwner

-------------------------------------------------------------------------------
(* The inductive invariant.                                                *)
Works == [commands : Batches, interval : Intervals]

OwnerTyped ==
  /\ work \in Seq(Works) /\ Len(work) <= MaxBatches
  /\ workState \in Seq({"queued", "executing", "done"}) /\ Len(workState) = Len(work)
  /\ queue \in Seq(Nat)
  /\ current \in 0..MaxBatches
  /\ ownerPc \in {"get", "space", "call", "running", "stopped"}
  /\ previousInterval \in Intervals \cup {NoTime}
  /\ lastCompletedAt \in Nat \cup {NoTime}
  /\ closePc \in {"open", "joining", "closing", "closed"}
  /\ joinTimedOut \in BOOLEAN

\* How many works have left the queue.
Taken == IF ownerPc \in {"space", "call"} THEN Len(batches) + 1 ELSE Len(batches)

\* The queue holds the numbers that follow, with one Stop, at place s, from
\* close() on until the worker has taken it.
QueueIs(q, s, first) ==
  \A i \in DOMAIN q : q[i] = IF i < s THEN first + i ELSE IF i = s THEN Stop ELSE first + i - 1
QueueOK ==
  \E s \in 1..(Len(queue) + 1) :
    /\ QueueIs(queue, s, Taken)
    /\ Taken + Len(queue) = IF s = Len(queue) + 1 THEN Len(work) ELSE Len(work) + 1
    /\ s = Len(queue) + 1 <=> closePc = "open" \/ ownerPc = "stopped"
    /\ ownerPc = "stopped" => closePc # "open"

\* The work in the worker's hands is the one after the batches of the executor,
\* or their last.
CurrentOK ==
  /\ current = IF ownerPc \in {"space", "call"} THEN Len(batches) + 1
               ELSE IF ownerPc = "running" THEN Len(batches) ELSE 0
  /\ ownerPc = "running" => Len(batches) > 0

\* Where the two threads are in the executor.
PlacesOK ==
  /\ pc[worker] # "closing" /\ ~Inside(closer)
  /\ pc[worker] # "idle" => ownerPc = "running" /\ job[worker] = current
  /\ pc[closer] # "idle" => closePc = "closing"

WorksOK ==
  /\ \A b \in DOMAIN batches : batches[b] = work[b].commands
  /\ \A k \in DOMAIN wire : wire[k].interval = work[wire[k].id[1]].interval
  /\ ownerPc \in {"call", "running"} => interval = work[current].interval
  /\ \A w \in DOMAIN work : workState[w] = "done" => w \in DOMAIN batches /\ w # current
  /\ \A w \in DOMAIN outcome : outcome[w].kind = "pending" => Inside(worker) /\ w = current

\* Only a join that was given up closes the executor under the worker.
CloseOK ==
  /\ closePc \in {"open", "joining"} => ~joinTimedOut
  /\ closed \/ pc[closer] = "closing" => closePc \in {"closing", "closed"}
  /\ closePc \in {"closing", "closed"} /\ ~joinTimedOut => ownerPc = "stopped"
  /\ QuietStopRefusesNobody

\* Between two works, the distance of the commands is behind the completion of
\* the last one; while one runs, behind the present.
TimesOK ==
  /\ lastCompletedAt <= now
  /\ \A k \in DOMAIN wire : wire[k].end <= now
  /\ ownerPc \notin {"call", "running"} =>
       \A k \in DOMAIN wire :
         /\ lastCompletedAt # NoTime /\ previousInterval # NoTime
         /\ wire[k].end <= lastCompletedAt
         /\ wire[k].end + wire[k].interval <= lastCompletedAt + previousInterval
  /\ ownerPc \in {"call", "running"} =>
       \A k \in DOMAIN wire : wire[k].id[1] # current =>
         /\ wire[k].end + wire[k].interval <= now
         /\ wire[k].end + interval <= now

ControlInv == OutcomeInv /\ OwnerTyped /\ QueueOK /\ CurrentOK /\ PlacesOK
OwnerInv   == ControlInv /\ WorksOK /\ CloseOK /\ TimesOK /\ WorksSpaced

-------------------------------------------------------------------------------
(* What the executor does in a step of the owner.                          *)

\* The entry, if any, that a step of t adds to the wire.
Adds(t) ==
  \/ UNCHANGED wire
  \/ \E e \in Attempts :
       /\ wire' = Append(wire, e)
       /\ e.id = IdOf(t) /\ e.start = now /\ e.end = now' /\ e.interval = interval

\* The call of t has ended with this outcome.
Ended(t, o) ==
  /\ pc'[t] = "idle"
  /\ outcome' = [outcome EXCEPT ![job[t]] = o]
  /\ o.kind # "pending"
  /\ o.kind = "closed" => closed

\* A step of t inside execute().
Worked(t) ==
  /\ Inside(t) /\ UNCHANGED closed /\ Adds(t)
  /\ \/ Inside(t)' /\ job'[t] = job[t] /\ UNCHANGED outcome
     \/ \E o \in Outcomes : Ended(t, o)

\* A step of t.
Stepped(t) ==
  /\ UNCHANGED <<batches, interval>>
  /\ now' >= now
  /\ \A u \in Threads \ {t} : pc'[u] = pc[u] /\ job'[u] = job[u]
  /\ \/ pc[t] = "closing" /\ pc'[t] = "idle" /\ UNCHANGED <<outcome, wire>>
     \/ Worked(t)

\* The call ends ...
LEMMA LeaveEnds ==
  ASSUME CallsTypeOK, NEW t \in Threads, NEW kind \in Endings, NEW i \in Nat,
         NEW vals \in Seq(Values), Leave(t, kind, i, vals), kind = "closed" => closed
  PROVE  /\ \E o \in Outcomes : Ended(t, o)
         /\ UNCHANGED batches
         /\ \A u \in Threads \ {t} : pc'[u] = pc[u] /\ job'[u] = job[u]
  <1> DEFINE o == [kind |-> kind, index |-> i, values |-> vals]
  <1>1. o \in Outcomes /\ o.kind = kind
    BY DEF Outcomes
  <1>2. pc'[t] = "idle" /\ outcome' = [outcome EXCEPT ![job[t]] = o]
    BY DEF Leave, CallsTypeOK
  <1>3. kind # "pending"
    BY DEF Endings
  <1> HIDE DEF o
  <1>4. Ended(t, o)
    BY <1>1, <1>2, <1>3 DEF Ended
  <1>5. UNCHANGED batches /\ \A u \in Threads \ {t} : pc'[u] = pc[u] /\ job'[u] = job[u]
    BY DEF Leave, CallsTypeOK
  <1> QED BY <1>1, <1>4, <1>5

\* ... with an error ...
LEMMA FailEnds ==
  ASSUME CallsTypeOK, NEW t \in Threads, NEW kind \in Endings \ {"closed"}, Fail(t, kind)
  PROVE  /\ \E o \in Outcomes : Ended(t, o)
         /\ UNCHANGED batches
         /\ \A u \in Threads \ {t} : pc'[u] = pc[u] /\ job'[u] = job[u]
  <1> DEFINE i == IF kind = "interrupt" THEN 0 ELSE index[t]
  <1>1. i \in Nat /\ values[t] \in Seq(Values) /\ Leave(t, kind, i, values[t])
    BY DEF CallsTypeOK, Fail
  <1> HIDE DEF i
  <1> QED BY <1>1, LeaveEnds

\* ... or is one command further.
LEMMA AdvanceEnds ==
  ASSUME CallsTypeOK, NEW t \in Threads, NEW v \in Values, Advance(t, v)
  PROVE  /\ \/ pc'[t] = "wait" /\ job'[t] = job[t] /\ UNCHANGED outcome
            \/ \E o \in Outcomes : Ended(t, o)
         /\ UNCHANGED batches
         /\ \A u \in Threads \ {t} : pc'[u] = pc[u] /\ job'[u] = job[u]
  <1>1. CASE index[t] = Len(batches[job[t]])
    <2>1. Append(values[t], v) \in Seq(Values)
      BY AppendProperties DEF CallsTypeOK
    <2>2. Leave(t, "result", 0, Append(values[t], v))
      BY <1>1 DEF Advance
    <2> QED BY <2>1, <2>2, LeaveEnds DEF Endings
  <1>2. CASE index[t] # Len(batches[job[t]])
    BY <1>2 DEF Advance, CallsTypeOK
  <1> QED BY <1>1, <1>2

\* The entry that Record adds.
LEMMA RecordAdds ==
  ASSUME Typed, NEW t \in Threads, pc[t] \in InBatch, NEW d \in Delays,
         NEW delivered \in BOOLEAN, NEW ok \in BOOLEAN, Record(t, d, delivered, ok),
         now' = now + d
  PROVE  Adds(t) /\ now' >= now
  <1> DEFINE e == [id |-> IdOf(t), start |-> now, end |-> now + d, delivered |-> delivered,
                   ok |-> ok, interval |-> interval]
  <1>1. IdOf(t) \in QueryIds
    BY IdTyped DEF Typed, TypeOK, CallsOK, JobsOK, InBatch
  <1>2. e \in Attempts /\ now' >= now
    BY <1>1, TimeAssumption DEF Typed, TypeOK, ClockTypeOK, Attempts
  <1>3. wire' = Append(wire, e) /\ e.id = IdOf(t) /\ e.start = now /\ e.end = now'
        /\ e.interval = interval
    BY DEF Record
  <1> HIDE DEF e
  <1> QED BY <1>2, <1>3 DEF Adds

\* Every step of a thread inside the executor.
LEMMA StepIs ==
  ASSUME Typed, NEW t \in Threads, Step(t)
  PROVE  Stepped(t)
  <1>1. CallsTypeOK /\ now \in Nat /\ interval \in Nat
    BY TimeAssumption DEF Typed, TypeOK, ClockTypeOK
  <1>2. CASE Acquire(t)
    BY <1>1, <1>2 DEF Acquire, Stepped, Worked, Adds, Inside, CallsTypeOK
  <1>3. CASE RejectClosed(t)
    <2>1. Leave(t, "closed", 0, <<>>) /\ closed /\ <<>> \in Seq(Values) /\ "closed" \in Endings
      BY <1>3, EmptySeq DEF RejectClosed, Endings
    <2>2. /\ \E o \in Outcomes : Ended(t, o)
          /\ UNCHANGED batches
          /\ \A u \in Threads \ {t} : pc'[u] = pc[u] /\ job'[u] = job[u]
      BY <1>1, <2>1, LeaveEnds
    <2>3. UNCHANGED <<now, interval, closed, wire>> /\ pc[t] = "acquire"
      BY <1>3 DEF RejectClosed, lockVars
    <2> QED BY <1>1, <2>2, <2>3 DEF Stepped, Worked, Adds, Inside
  <1>4. CASE WaitBeforeWrite(t)
    <2>1. now' >= now
      BY <1>4, AllowedTyped, TimeAssumption DEF WaitBeforeWrite, Typed, TypeOK, ClockTypeOK
    <2> QED BY <1>1, <1>4, <2>1 DEF WaitBeforeWrite, Stepped, Worked, Adds, Inside, CallsTypeOK,
                                    lockVars
  <1>5. CASE TransportWrite(t)
    <2>1. PICK d \in Delays : Record(t, d, TRUE, TRUE) /\ now' = now + d
      BY <1>5 DEF TransportWrite
    <2>2. pc[t] = "write" /\ UNCHANGED <<interval, closed>>
      BY <1>5 DEF TransportWrite
    <2>3. Adds(t) /\ now' >= now
      BY <2>1, <2>2, RecordAdds DEF InBatch
    <2>4. CASE CommandOf(t) = "query"
      BY <1>1, <1>5, <2>2, <2>3, <2>4 DEF TransportWrite, Stepped, Worked, Inside, CallsTypeOK
    <2>5. CASE CommandOf(t) # "query"
      <3>1. Advance(t, NoValue) /\ NoValue \in Values
        BY <1>5, <2>5 DEF TransportWrite, Values
      <3>2. /\ \/ pc'[t] = "wait" /\ job'[t] = job[t] /\ UNCHANGED outcome
               \/ \E o \in Outcomes : Ended(t, o)
            /\ UNCHANGED batches
            /\ \A u \in Threads \ {t} : pc'[u] = pc[u] /\ job'[u] = job[u]
        BY <1>1, <3>1, AdvanceEnds
      <3> QED BY <2>2, <2>3, <3>2 DEF Stepped, Worked, Inside
    <2> QED BY <2>4, <2>5
  <1>6. CASE TransportWriteFails(t)
    <2>1. PICK kind \in {"timeout", "connection", "interrupt"}, delivered \in BOOLEAN,
               d \in Delays :
            Record(t, d, delivered, FALSE) /\ now' = now + d /\ Fail(t, kind)
      BY <1>6 DEF TransportWriteFails
    <2>2. pc[t] = "write" /\ UNCHANGED <<interval, closed>>
      BY <1>6 DEF TransportWriteFails
    <2>3. Adds(t) /\ now' >= now
      BY <2>1, <2>2, RecordAdds DEF InBatch
    <2>4. kind \in Endings \ {"closed"}
      BY DEF Endings
    <2>5. /\ \E o \in Outcomes : Ended(t, o)
          /\ UNCHANGED batches
          /\ \A u \in Threads \ {t} : pc'[u] = pc[u] /\ job'[u] = job[u]
      BY <1>1, <2>1, <2>4, FailEnds
    <2> QED BY <2>2, <2>3, <2>5 DEF Stepped, Worked, Inside
  <1>7. CASE SettleSleep(t)
    <2>1. now' >= now
      BY <1>1, <1>7, TimeAssumption DEF SettleSleep
    <2> QED BY <1>1, <1>7, <2>1 DEF SettleSleep, Stepped, Worked, Adds, Inside, CallsTypeOK,
                                    lockVars
  <1>8. CASE TransportRead(t)
    <2>1. pc[t] = "read" /\ UNCHANGED <<interval, closed, wire>> /\ now' >= now
      BY <1>1, <1>8, TimeAssumption DEF TransportRead
    <2>2. Head(pipe) \in Answers
      BY <1>8, HeadTailProperties DEF TransportRead, Typed, TypeOK, WireTypeOK
    <2>3. CASE Head(pipe).ascii
      <3>1. Advance(t, Head(pipe).answers) /\ Head(pipe).answers \in Values
        BY <1>8, <2>2, <2>3 DEF TransportRead, Values, Answers
      <3>2. /\ \/ pc'[t] = "wait" /\ job'[t] = job[t] /\ UNCHANGED outcome
               \/ \E o \in Outcomes : Ended(t, o)
            /\ UNCHANGED batches
            /\ \A u \in Threads \ {t} : pc'[u] = pc[u] /\ job'[u] = job[u]
        BY <1>1, <3>1, AdvanceEnds
      <3> QED BY <2>1, <3>2 DEF Stepped, Worked, Adds, Inside
    <2>4. CASE ~Head(pipe).ascii
      <3>1. Fail(t, "protocol") /\ "protocol" \in Endings \ {"closed"}
        BY <1>8, <2>4 DEF TransportRead, Endings
      <3>2. /\ \E o \in Outcomes : Ended(t, o)
            /\ UNCHANGED batches
            /\ \A u \in Threads \ {t} : pc'[u] = pc[u] /\ job'[u] = job[u]
        BY <1>1, <3>1, FailEnds
      <3> QED BY <2>1, <3>2 DEF Stepped, Worked, Adds, Inside
    <2> QED BY <2>3, <2>4
  <1>9. CASE TransportReadFails(t)
    <2>1. pc[t] = "read" /\ UNCHANGED <<interval, closed, wire>> /\ now' >= now
      BY <1>1, <1>9, TimeAssumption DEF TransportReadFails
    <2>2. PICK kind \in {"timeout", "connection"} : Fail(t, kind)
      BY <1>9 DEF TransportReadFails
    <2>3. kind \in Endings \ {"closed"}
      BY DEF Endings
    <2>4. /\ \E o \in Outcomes : Ended(t, o)
          /\ UNCHANGED batches
          /\ \A u \in Threads \ {t} : pc'[u] = pc[u] /\ job'[u] = job[u]
      BY <1>1, <2>2, <2>3, FailEnds
    <2> QED BY <2>1, <2>4 DEF Stepped, Worked, Adds, Inside
  <1>10. CASE Close(t)
    BY <1>1, <1>10 DEF Close, Stepped, CallsTypeOK
  <1> QED BY <1>2, <1>3, <1>4, <1>5, <1>6, <1>7, <1>8, <1>9, <1>10 DEF Step

-------------------------------------------------------------------------------
(* What the lengths and the numbers of the works are.                      *)
LEMMA OwnerLengths ==
  ASSUME ControlInv
  PROVE  /\ Len(work) \in Nat /\ DOMAIN work = 1..Len(work)
         /\ DOMAIN workState = 1..Len(work)
         /\ Len(queue) \in Nat /\ DOMAIN queue = 1..Len(queue)
         /\ Len(batches) \in Nat /\ DOMAIN batches = 1..Len(batches)
         /\ DOMAIN outcome = 1..Len(batches)
         /\ Taken \in Nat /\ Taken <= Len(work) /\ Len(batches) <= Len(work)
         /\ ownerPc \in {"space", "call"} => Len(batches) + 1 <= Len(work)
  <1>1. /\ Len(work) \in Nat /\ DOMAIN work = 1..Len(work)
        /\ DOMAIN workState = 1..Len(work)
        /\ Len(queue) \in Nat /\ DOMAIN queue = 1..Len(queue)
    BY LenProperties DEF ControlInv, OwnerTyped
  <1>2. /\ Len(batches) \in Nat /\ DOMAIN batches = 1..Len(batches)
        /\ DOMAIN outcome = 1..Len(batches)
    BY LenProperties DEF ControlInv, OutcomeInv, TurnsInv, Typed, TypeOK, CallsTypeOK, OutcomesTell
  <1>3. Taken \in Nat /\ Len(batches) <= Taken
        /\ (ownerPc \in {"space", "call"} => Taken = Len(batches) + 1)
    BY <1>2 DEF Taken
  <1>4. Taken <= Len(work)
    <2>1. PICK s \in 1..(Len(queue) + 1) :
            Taken + Len(queue) = IF s = Len(queue) + 1 THEN Len(work) ELSE Len(work) + 1
      BY DEF ControlInv, QueueOK
    <2> HIDE DEF Taken
    <2> QED BY <1>1, <1>3, <2>1
  <1> HIDE DEF Taken
  <1> QED BY <1>1, <1>2, <1>3, <1>4

(* A work in the worker's hands is one of those submitted.                 *)
LEMMA CurrentTyped ==
  ASSUME ControlInv, ownerPc \in {"space", "call", "running"}
  PROVE  /\ current \in DOMAIN work /\ current > 0
         /\ work[current] \in Works /\ work[current].interval \in Intervals
         /\ work[current].interval \in Nat /\ work[current].commands \in Batches
  <1>1. current \in DOMAIN work /\ current > 0
    <2>1. /\ Len(batches) \in Nat /\ Len(work) \in Nat /\ DOMAIN work = 1..Len(work)
          /\ Len(batches) <= Len(work)
          /\ ownerPc \in {"space", "call"} => Len(batches) + 1 <= Len(work)
      BY OwnerLengths
    <2>2. /\ current = IF ownerPc \in {"space", "call"} THEN Len(batches) + 1
                       ELSE IF ownerPc = "running" THEN Len(batches) ELSE 0
          /\ ownerPc = "running" => Len(batches) > 0
      BY DEF ControlInv, CurrentOK
    <2>3. CASE ownerPc \in {"space", "call"}
      BY <2>1, <2>2, <2>3
    <2>4. CASE ownerPc = "running"
      BY <2>1, <2>2, <2>4
    <2> QED BY <2>3, <2>4
  <1>2. work[current] \in Works
    BY <1>1, ElementOfSeq, OwnerLengths DEF ControlInv, OwnerTyped
  <1> QED BY <1>1, <1>2, TimeAssumption DEF Works

\* What is next in the queue.
LEMMA QueueHead ==
  ASSUME ControlInv, ownerPc = "get", queue # <<>>
  PROVE  /\ Head(queue) = queue[1]
         /\ Head(queue) # Stop => Head(queue) = Len(batches) + 1 /\ Len(batches) + 1 <= Len(work)
  <1>1. Len(queue) >= 1 /\ Head(queue) = queue[1] /\ Len(queue) \in Nat /\ Taken = Len(batches)
    BY HeadTailProperties, LenProperties, EmptySeq DEF ControlInv, OwnerTyped, Taken
  <1>2. PICK s \in 1..(Len(queue) + 1) :
          /\ QueueIs(queue, s, Taken)
          /\ Taken + Len(queue) = IF s = Len(queue) + 1 THEN Len(work) ELSE Len(work) + 1
    BY DEF ControlInv, QueueOK
  <1>3. queue[1] = IF 1 < s THEN Taken + 1 ELSE IF 1 = s THEN Stop ELSE Taken + 1 - 1
    BY <1>1, <1>2, OwnerLengths DEF QueueIs
  <1>4. CASE s = 1
    BY <1>1, <1>3, <1>4
  <1>5. CASE s > 1
    <2>1. Taken + 1 <= Len(work)
      BY <1>1, <1>2, <1>5, OwnerLengths
    <2> QED BY <1>1, <1>3, <1>5, <2>1
  <1> QED BY <1>2, <1>4, <1>5

-------------------------------------------------------------------------------
(* Every step of the owner is a step of the executor, except the one that  *)
(* sleeps between two works and sets the executor's interval.              *)
LEMMA SpaceTyped ==
  ASSUME ControlInv, SpaceWorks
  PROVE  /\ now' \in Nat /\ now' >= now
         /\ interval' = work[current].interval /\ interval' \in Intervals
         /\ lastCompletedAt # NoTime =>
              now' >= lastCompletedAt + Required(work[current].interval)
  <1> DEFINE new == work[current].interval
             allowedAt == lastCompletedAt + Required(new)
  <1>1. new \in Intervals /\ new \in Nat
    BY CurrentTyped DEF SpaceWorks
  <1>2. now \in Nat /\ lastCompletedAt \in Nat \cup {NoTime}
        /\ previousInterval \in Nat \cup {NoTime}
    BY TimeAssumption DEF ControlInv, OutcomeInv, TurnsInv, Typed, TypeOK, ClockTypeOK, OwnerTyped
  <1>3. Required(new) \in Nat
    BY <1>1, <1>2 DEF Required, NoTime
  <1>4. PICK d \in Delays :
          now' = d + IF lastCompletedAt = NoTime \/ allowedAt <= now THEN now ELSE allowedAt
    BY DEF SpaceWorks
  <1>5. interval' = new /\ d \in Nat
    BY TimeAssumption DEF SpaceWorks
  <1>6. now' \in Nat /\ now' >= now
        /\ (lastCompletedAt # NoTime => now' >= lastCompletedAt + Required(new))
    <2> HIDE DEF new
    <2>1. lastCompletedAt # NoTime => allowedAt \in Nat
      BY <1>2, <1>3
    <2> HIDE DEF allowedAt
    <2>2. CASE lastCompletedAt = NoTime \/ allowedAt <= now
      <3>1. now' = d + now
        BY <1>4, <2>2
      <3> QED BY <1>2, <1>5, <2>1, <2>2, <3>1 DEF allowedAt
    <2>3. CASE ~(lastCompletedAt = NoTime \/ allowedAt <= now)
      <3>1. now' = d + allowedAt
        BY <1>4, <2>3
      <3> QED BY <1>2, <1>5, <2>1, <2>3, <3>1 DEF allowedAt
    <2> QED BY <2>2, <2>3
  <1> QED BY <1>1, <1>5, <1>6

LEMMA OwnerOutcome ==
  ASSUME ControlInv, [OwnerNext]_allVars
  PROVE  OutcomeInv'
  <1>1. OutcomeInv
    BY DEF ControlInv
  <1>2. ASSUME NEW t \in Threads, Step(t) \/ CallClose(t) \/ \E c \in Batches : Call(t, c)
        PROVE  OutcomeInv'
    BY <1>1, <1>2, OutcomeNext DEF Next
  <1>3. CASE UNCHANGED vars \/ Answer \/ Ignore
    BY <1>1, <1>3, OutcomeNext DEF Next
  <1>4. CASE SpaceWorks
    <2>1. ClockTypeOK'
      BY <1>1, <1>4, SpaceTyped
         DEF SpaceWorks, OutcomeInv, TurnsInv, Typed, TypeOK, ClockTypeOK
    <2>2. UNCHANGED <<lockVars, callVars, wire, instrumentVars>>
      BY <1>4 DEF SpaceWorks
    <2>3. Typed'
      BY <1>1, <2>1, <2>2
         DEF OutcomeInv, TurnsInv, Typed, TypeOK, LockTypeOK, CallsTypeOK, WireTypeOK, JobsOK,
             lockVars, callVars, instrumentVars
    <2>4. LockOK' /\ CalledOnce' /\ WireOK' /\ PositionOK' /\ BatchesNotInterleaved'
      BY <1>1, <2>2
         DEF OutcomeInv, TurnsInv, LockOK, CalledOnce, WireOK, PositionOK, BatchesNotInterleaved,
             Inside, Unsent, LastSent, IdOf, lockVars, callVars
    <2>5. OutcomesTell'
      BY <1>1, <2>2 DEF OutcomeInv, OutcomesTell, ThreadTells, Inside, Tried, callVars
    <2> QED BY <2>3, <2>4, <2>5 DEF OutcomeInv, TurnsInv
  <1>5. CASE CallExecutor
    <2>1. work[current].commands \in Batches /\ worker \in Threads
      BY <1>5, CurrentTyped, OwnerAssumption DEF CallExecutor
    <2> QED BY <1>2, <1>5, <2>1 DEF CallExecutor
  <1>6. CASE Join
    BY <1>2, <1>6, OwnerAssumption DEF Join
  <1>7. CASE ExecutorStep
    BY <1>2, <1>7, OwnerAssumption DEF ExecutorStep
  <1>8. ASSUME NEW commands \in Batches, NEW i \in Intervals, Submit(commands, i)
        PROVE  OutcomeInv'
    BY <1>3, <1>8 DEF Submit
  <1>9. CASE GetWork \/ GetStop \/ FinishWork \/ PutStop \/ Closed
    BY <1>3, <1>9 DEF GetWork, GetStop, FinishWork, PutStop, Closed
  <1>10. CASE InstrumentStep
    BY <1>3, <1>10 DEF InstrumentStep
  <1>11. CASE UNCHANGED allVars
    BY <1>3, <1>11 DEF allVars
  <1> QED BY <1>4, <1>5, <1>6, <1>7, <1>8, <1>9, <1>10, <1>11 DEF OwnerNext, WorkerStep

-------------------------------------------------------------------------------
(* The order of the queue.  A step that neither puts nor gets ...          *)
LEMMA QueueStays ==
  ASSUME ControlInv, UNCHANGED queue, Taken' = Taken, Len(work') = Len(work),
         (closePc' = "open" \/ ownerPc' = "stopped") <=> (closePc = "open" \/ ownerPc = "stopped"),
         ownerPc' = "stopped" => closePc' # "open"
  PROVE  QueueOK'
  <1>1. PICK s \in 1..(Len(queue) + 1) :
          /\ QueueIs(queue, s, Taken)
          /\ Taken + Len(queue) = IF s = Len(queue) + 1 THEN Len(work) ELSE Len(work) + 1
          /\ s = Len(queue) + 1 <=> closePc = "open" \/ ownerPc = "stopped"
    BY DEF ControlInv, QueueOK
  <1> HIDE DEF Taken
  <1>2. /\ s \in 1..(Len(queue') + 1)
        /\ QueueIs(queue', s, Taken')
        /\ Taken' + Len(queue') = IF s = Len(queue') + 1 THEN Len(work') ELSE Len(work') + 1
        /\ s = Len(queue') + 1 <=> closePc' = "open" \/ ownerPc' = "stopped"
    BY <1>1
  <1> QED BY <1>2 DEF QueueOK

\* ... a work put at its end ...
LEMMA QueueSubmit ==
  ASSUME ControlInv, NEW commands \in Batches, NEW i \in Intervals, Submit(commands, i)
  PROVE  QueueOK'
  <1> DEFINE L == Len(queue)
             n == Len(work)
  <1>1. L \in Nat /\ n \in Nat /\ Taken \in Nat /\ DOMAIN queue = 1..L
    BY OwnerLengths
  <1>2. /\ Len(queue') = L + 1 /\ DOMAIN queue' = 1..(L + 1)
        /\ \A j \in 1..L : queue'[j] = queue[j]
        /\ queue'[L + 1] = n + 1
    BY <1>1, AppendProperties, LenProperties DEF Submit, ControlInv, OwnerTyped
  <1>3. Len(work') = n + 1
    BY AppendProperties DEF Submit, ControlInv, OwnerTyped, Works
  <1>4. Taken' = Taken /\ UNCHANGED <<closePc, ownerPc>>
    BY DEF Taken, Submit, vars, callVars
  <1>5. PICK s \in 1..(L + 1) :
          /\ QueueIs(queue, s, Taken)
          /\ Taken + L = IF s = L + 1 THEN n ELSE n + 1
          /\ s = L + 1 <=> closePc = "open" \/ ownerPc = "stopped"
          /\ ownerPc = "stopped" => closePc # "open"
    BY DEF ControlInv, QueueOK
  <1> DEFINE r == IF s = L + 1 THEN L + 2 ELSE s
  <1> HIDE DEF L, n, Taken
  <1>6. /\ r \in 1..(L + 2)
        /\ r = L + 2 <=> s = L + 1
        /\ Taken + (L + 1) = IF r = L + 2 THEN n + 1 ELSE n + 2
    BY <1>1, <1>5
  <1>7. QueueIs(queue', r, Taken)
    <2>1. ASSUME NEW j \in 1..L
          PROVE  queue'[j] = IF j < r THEN Taken + j ELSE IF j = r THEN Stop ELSE Taken + j - 1
      <3>1. queue'[j] = IF j < s THEN Taken + j ELSE IF j = s THEN Stop ELSE Taken + j - 1
        BY <1>1, <1>2, <1>5 DEF QueueIs
      <3>2. (j < r <=> j < s) /\ (j = r <=> j = s)
        BY <1>1
      <3> QED BY <3>1, <3>2
    <2>2. queue'[L + 1] = IF L + 1 < r THEN Taken + (L + 1)
                          ELSE IF L + 1 = r THEN Stop ELSE Taken + (L + 1) - 1
      <3>1. CASE s = L + 1
        <4>1. queue'[L + 1] = Taken + (L + 1) /\ L + 1 < r
          BY <1>1, <1>2, <1>5, <3>1
        <4> HIDE DEF r
        <4> QED BY <4>1, Zenon
      <3>2. CASE s # L + 1
        <4>1. queue'[L + 1] = Taken + (L + 1) - 1 /\ ~(L + 1 < r) /\ L + 1 # r
          BY <1>1, <1>2, <1>5, <3>2
        <4> HIDE DEF r
        <4> QED BY <4>1, Zenon
      <3> QED BY <3>1, <3>2
    <2>3. \A j \in DOMAIN queue' : j \in 1..L \/ j = L + 1
      BY <1>1, <1>2
    <2> QED BY <2>1, <2>2, <2>3 DEF QueueIs
  <1> HIDE DEF r
  <1>8. /\ r \in 1..(Len(queue') + 1)
        /\ QueueIs(queue', r, Taken')
        /\ Taken' + Len(queue') = IF r = Len(queue') + 1 THEN Len(work') ELSE Len(work') + 1
        /\ r = Len(queue') + 1 <=> closePc' = "open" \/ ownerPc' = "stopped"
        /\ ownerPc' = "stopped" => closePc' # "open"
    BY <1>1, <1>2, <1>3, <1>4, <1>5, <1>6, <1>7
  <1> QED BY <1>8 DEF QueueOK

\* ... the None of close() ...
LEMMA QueueStop ==
  ASSUME ControlInv, PutStop
  PROVE  QueueOK'
  <1> DEFINE L == Len(queue)
             n == Len(work)
  <1>1. L \in Nat /\ n \in Nat /\ Taken \in Nat /\ DOMAIN queue = 1..L
    BY OwnerLengths
  <1>2. /\ Len(queue') = L + 1 /\ DOMAIN queue' = 1..(L + 1)
        /\ \A j \in 1..L : queue'[j] = queue[j]
        /\ queue'[L + 1] = Stop
    BY <1>1, AppendProperties, LenProperties DEF PutStop, ControlInv, OwnerTyped, Stop
  <1>3. Len(work') = n /\ Taken' = Taken /\ closePc' = "joining" /\ ownerPc' = ownerPc
        /\ closePc = "open"
    BY DEF Taken, PutStop, vars, callVars
  <1>4. /\ QueueIs(queue, L + 1, Taken) /\ Taken + L = n
        /\ ownerPc # "stopped"
    BY <1>3 DEF ControlInv, QueueOK
  <1> HIDE DEF L, n, Taken
  <1>5. QueueIs(queue', L + 1, Taken)
    <2>1. ASSUME NEW j \in 1..L PROVE queue'[j] = Taken + j /\ j < L + 1
      BY <1>1, <1>2, <1>4 DEF QueueIs
    <2>2. \A j \in DOMAIN queue' : j \in 1..L \/ j = L + 1
      BY <1>1, <1>2
    <2> QED BY <1>1, <1>2, <2>1, <2>2 DEF QueueIs
  <1>6. /\ L + 1 \in 1..(Len(queue') + 1)
        /\ QueueIs(queue', L + 1, Taken')
        /\ Taken' + Len(queue') = IF L + 1 = Len(queue') + 1 THEN Len(work') ELSE Len(work') + 1
        /\ L + 1 = Len(queue') + 1 <=> closePc' = "open" \/ ownerPc' = "stopped"
        /\ ownerPc' = "stopped" => closePc' # "open"
    BY <1>1, <1>2, <1>3, <1>4, <1>5
  <1> QED BY <1>6 DEF QueueOK

\* ... and what the worker takes from its head.
LEMMA QueueTaken ==
  ASSUME ControlInv, GetWork \/ GetStop
  PROVE  QueueOK'
  <1> DEFINE L == Len(queue)
             n == Len(work)
  <1>1. L \in Nat /\ n \in Nat /\ Taken \in Nat /\ DOMAIN queue = 1..L /\ Len(batches) \in Nat
    BY OwnerLengths
  <1>2. /\ L >= 1 /\ Head(queue) = queue[1]
        /\ Len(queue') = L - 1 /\ DOMAIN queue' = 1..(L - 1)
        /\ \A j \in 1..(L - 1) : queue'[j] = queue[j + 1]
    <2>1. queue \in Seq(Nat) /\ queue # <<>> /\ queue' = Tail(queue)
      BY DEF GetWork, GetStop, ControlInv, OwnerTyped
    <2>2. L >= 1 /\ Head(queue) = queue[1]
      BY <2>1, EmptySeq
    <2>3. Tail(queue) \in Seq(Nat) /\ Len(Tail(queue)) = L - 1
          /\ \A j \in 1..Len(Tail(queue)) : Tail(queue)[j] = queue[j + 1]
      BY <2>1, HeadTailProperties
    <2>4. DOMAIN Tail(queue) = 1..(L - 1)
      BY <2>3, LenProperties
    <2> QED BY <2>1, <2>2, <2>3, <2>4
  <1>3. UNCHANGED <<closePc, batches>> /\ ownerPc = "get" /\ Taken = Len(batches)
        /\ Len(work') = n
    BY DEF GetWork, GetStop, vars, callVars, Taken
  <1>4. PICK s \in 1..(L + 1) :
          /\ QueueIs(queue, s, Taken)
          /\ Taken + L = IF s = L + 1 THEN n ELSE n + 1
          /\ s = L + 1 <=> closePc = "open"
    BY <1>3 DEF ControlInv, QueueOK
  <1>5. queue[1] = IF 1 < s THEN Taken + 1 ELSE IF 1 = s THEN Stop ELSE Taken + 1 - 1
    BY <1>1, <1>2, <1>4 DEF QueueIs
  <1>6. \A j \in 1..(L - 1) :
          queue'[j] = IF j + 1 < s THEN Taken + (j + 1)
                      ELSE IF j + 1 = s THEN Stop ELSE Taken + (j + 1) - 1
    <2> SUFFICES ASSUME NEW j \in 1..(L - 1)
                 PROVE  queue'[j] = IF j + 1 < s THEN Taken + (j + 1)
                                    ELSE IF j + 1 = s THEN Stop ELSE Taken + (j + 1) - 1
      OBVIOUS
    <2> HIDE DEF L, Taken
    <2>1. j + 1 \in DOMAIN queue /\ queue'[j] = queue[j + 1]
      BY <1>1, <1>2
    <2> DEFINE m == j + 1
    <2> HIDE DEF m
    <2>2. queue[m] = IF m < s THEN Taken + m ELSE IF m = s THEN Stop ELSE Taken + m - 1
      BY <1>4, <2>1 DEF QueueIs, m
    <2> QED BY <2>1, <2>2 DEF m
  <1>7. CASE GetWork
    <2>1. ownerPc' = "space" /\ queue[1] # Stop
      BY <1>2, <1>7 DEF GetWork
    <2>2. Taken' = Taken + 1
      BY <1>3, <2>1 DEF Taken
    <2> HIDE DEF L, n, Taken
    <2>3. s > 1
      BY <1>4, <1>5, <2>1
    <2>4. QueueIs(queue', s - 1, Taken + 1)
      <3> SUFFICES ASSUME NEW j \in 1..(L - 1)
                   PROVE  queue'[j] = IF j < s - 1 THEN (Taken + 1) + j
                                      ELSE IF j = s - 1 THEN Stop ELSE (Taken + 1) + j - 1
        BY <1>2 DEF QueueIs
      <3>1. queue'[j] = IF j + 1 < s THEN Taken + (j + 1)
                        ELSE IF j + 1 = s THEN Stop ELSE Taken + (j + 1) - 1
        BY <1>6
      <3> QED BY <1>1, <1>4, <3>1
    <2>5. /\ s - 1 \in 1..(Len(queue') + 1)
          /\ QueueIs(queue', s - 1, Taken')
          /\ Taken' + Len(queue') = IF s - 1 = Len(queue') + 1 THEN Len(work') ELSE Len(work') + 1
          /\ s - 1 = Len(queue') + 1 <=> closePc' = "open" \/ ownerPc' = "stopped"
          /\ ownerPc' = "stopped" => closePc' # "open"
      <3>1. s - 1 \in 1..(Len(queue') + 1) /\ (s - 1 = Len(queue') + 1 <=> s = L + 1)
        BY <1>1, <1>2, <1>4, <2>3
      <3>2. Taken' + Len(queue') = Taken + L
        BY <1>1, <1>2, <2>2
      <3> QED BY <1>3, <1>4, <2>1, <2>2, <2>4, <3>1, <3>2
    <2> QED BY <2>5 DEF QueueOK
  <1>8. CASE GetStop
    <2>1. ownerPc' = "stopped" /\ queue[1] = Stop
      BY <1>2, <1>8 DEF GetStop
    <2>2. Taken' = Taken
      BY <1>3, <2>1 DEF Taken
    <2> HIDE DEF L, n, Taken
    <2>3. s = 1
      BY <1>1, <1>4, <1>5, <2>1 DEF Stop
    <2>4. QueueIs(queue', L, Taken)
      BY <1>1, <1>2, <1>6, <2>3 DEF QueueIs
    <2>5. /\ L \in 1..(Len(queue') + 1)
          /\ QueueIs(queue', L, Taken')
          /\ Taken' + Len(queue') = IF L = Len(queue') + 1 THEN Len(work') ELSE Len(work') + 1
          /\ L = Len(queue') + 1 <=> closePc' = "open" \/ ownerPc' = "stopped"
          /\ ownerPc' = "stopped" => closePc' # "open"
      BY <1>1, <1>2, <1>3, <1>4, <2>1, <2>2, <2>3, <2>4
    <2> QED BY <2>5 DEF QueueOK
  <1> QED BY <1>7, <1>8

-------------------------------------------------------------------------------
(* The steps of the owner, with those of the instrument and those that     *)
(* change nothing put together.                                            *)
Rests == UNCHANGED <<now, interval, closed, pc, job, batches, outcome, wire, ownerVars>>

LEMMA OwnerSteps ==
  ASSUME [OwnerNext]_allVars
  PROVE  \/ \E commands \in Batches, i \in Intervals : Submit(commands, i)
         \/ GetWork \/ GetStop \/ SpaceWorks \/ CallExecutor \/ FinishWork
         \/ PutStop \/ Join \/ Closed
         \/ \E t \in {worker, closer} : Step(t) /\ UNCHANGED ownerVars
         \/ Rests
  <1>1. CASE InstrumentStep \/ UNCHANGED allVars
    BY <1>1 DEF InstrumentStep, Answer, Ignore, Rests, allVars, vars, lockVars, callVars
  <1> QED BY <1>1 DEF OwnerNext, WorkerStep, ExecutorStep

\* Only the worker executes, and only the closer closes.
LEMMA ThreadStep ==
  ASSUME ControlInv, NEW t \in {worker, closer}, Step(t)
  PROVE  /\ UNCHANGED <<batches, interval>> /\ now' >= now
         /\ \/ t = worker /\ Worked(worker) /\ UNCHANGED <<pc[closer], job[closer]>>
            \/ /\ t = closer /\ pc[closer] = "closing" /\ pc'[closer] = "idle"
               /\ UNCHANGED <<outcome, wire, pc[worker], job[worker]>>
  <1>1. Stepped(t) /\ t \in Threads
    BY StepIs, OwnerAssumption DEF ControlInv, OutcomeInv, TurnsInv
  <1>2. pc[worker] # "closing" /\ ~Inside(closer)
    BY DEF ControlInv, PlacesOK
  <1> QED BY <1>1, <1>2, OwnerAssumption DEF Stepped, Worked

LEMMA StateSet ==
  ASSUME OwnerTyped, NEW w, NEW state \in {"queued", "executing", "done"},
         workState' = [workState EXCEPT ![w] = state]
  PROVE  /\ workState' \in Seq({"queued", "executing", "done"}) /\ Len(workState') = Len(workState)
         /\ DOMAIN workState' = DOMAIN workState
         /\ \A v \in DOMAIN workState : workState'[v] = IF v = w THEN state ELSE workState[v]
  <1>1. workState \in Seq({"queued", "executing", "done"})
    BY DEF OwnerTyped
  <1>2. workState' \in Seq({"queued", "executing", "done"})
    BY <1>1, ExceptTyped
  <1>3. DOMAIN workState' = DOMAIN workState
        /\ \A v \in DOMAIN workState : workState'[v] = IF v = w THEN state ELSE workState[v]
    OBVIOUS
  <1>4. 1..Len(workState') = 1..Len(workState) /\ Len(workState') \in Nat /\ Len(workState) \in Nat
    BY <1>1, <1>2, <1>3, LenProperties
  <1>5. Len(workState') = Len(workState)
    BY <1>4
  <1> QED BY <1>2, <1>3, <1>5

LEMMA OwnerTypedNext ==
  ASSUME ControlInv, [OwnerNext]_allVars
  PROVE  OwnerTyped'
  <1>1. OwnerTyped
    BY DEF ControlInv
  <1>2. ASSUME NEW commands \in Batches, NEW i \in Intervals, Submit(commands, i)
        PROVE  OwnerTyped'
    <2>1. [commands |-> commands, interval |-> i] \in Works
      BY DEF Works
    <2>2. /\ work' \in Seq(Works) /\ Len(work') = Len(work) + 1 /\ Len(work) \in Nat
          /\ workState' \in Seq({"queued", "executing", "done"})
          /\ Len(workState') = Len(workState) + 1
      BY <1>1, <1>2, <2>1, AppendProperties DEF Submit, OwnerTyped
    <2>3. queue' \in Seq(Nat)
      BY <1>1, <1>2, <2>2, AppendProperties DEF Submit, OwnerTyped
    <2> QED BY <1>1, <1>2, <2>2, <2>3, BoundAssumption DEF Submit, OwnerTyped
  <1>3. CASE GetWork
    <2>1. queue' \in Seq(Nat) /\ queue # <<>>
      BY <1>1, <1>3, HeadTailProperties DEF GetWork, OwnerTyped
    <2>2. current' \in 0..MaxBatches
      <3>1. Head(queue) = Len(batches) + 1 /\ Len(batches) + 1 <= Len(work)
        BY <1>3, QueueHead DEF GetWork
      <3> QED BY <1>1, <1>3, <3>1, OwnerLengths, BoundAssumption DEF GetWork, OwnerTyped
    <2>3. workState' \in Seq({"queued", "executing", "done"}) /\ Len(workState') = Len(workState)
      BY <1>1, <1>3, StateSet DEF GetWork
    <2> QED BY <1>1, <1>3, <2>1, <2>2, <2>3 DEF GetWork, OwnerTyped
  <1>4. CASE GetStop
    <2>1. queue' \in Seq(Nat)
      BY <1>1, <1>4, HeadTailProperties DEF GetStop, OwnerTyped
    <2> QED BY <1>1, <1>4, <2>1 DEF GetStop, OwnerTyped
  <1>5. CASE FinishWork
    <2>1. work[current].interval \in Intervals /\ now \in Nat
      BY <1>5, CurrentTyped
         DEF FinishWork, ControlInv, OutcomeInv, TurnsInv, Typed, TypeOK, ClockTypeOK
    <2>2. workState' \in Seq({"queued", "executing", "done"}) /\ Len(workState') = Len(workState)
      BY <1>1, <1>5, StateSet DEF FinishWork
    <2> QED BY <1>1, <1>5, <2>1, <2>2, BoundAssumption DEF FinishWork, OwnerTyped
  <1>6. CASE PutStop
    <2>1. queue' \in Seq(Nat)
      BY <1>1, <1>6, AppendProperties DEF PutStop, OwnerTyped, Stop
    <2> QED BY <1>1, <1>6, <2>1 DEF PutStop, OwnerTyped
  <1>7. CASE SpaceWorks
    BY <1>1, <1>7 DEF SpaceWorks, OwnerTyped
  <1>8. CASE CallExecutor
    BY <1>1, <1>8 DEF CallExecutor, OwnerTyped
  <1>9. CASE Join \/ Closed
    BY <1>1, <1>9 DEF Join, Closed, OwnerTyped
  <1>10. CASE UNCHANGED ownerVars
    BY <1>1, <1>10 DEF ownerVars, OwnerTyped
  <1> QED BY <1>2, <1>3, <1>4, <1>5, <1>6, <1>7, <1>8, <1>9, <1>10, OwnerSteps DEF Rests

(* The queue, the work in hand and the threads' places.                    *)
LEMMA ControlNext ==
  ASSUME ControlInv, [OwnerNext]_allVars
  PROVE  ControlInv'
  <1> SUFFICES QueueOK' /\ CurrentOK' /\ PlacesOK'
    BY OwnerOutcome, OwnerTypedNext DEF ControlInv
  <1>2. CurrentOK /\ PlacesOK /\ worker # closer /\ worker \in Threads /\ closer \in Threads
    BY OwnerAssumption DEF ControlInv
  <1>3. Len(batches) \in Nat /\ CallsTypeOK
    BY OwnerLengths DEF ControlInv, OutcomeInv, TurnsInv, Typed, TypeOK
  <1>4. ASSUME NEW commands \in Batches, NEW i \in Intervals, Submit(commands, i)
        PROVE  QueueOK' /\ CurrentOK' /\ PlacesOK'
    <2>1. UNCHANGED <<batches, ownerPc, current, pc, job, closePc>>
      BY <1>4 DEF Submit, vars, callVars
    <2> QED BY <1>2, <1>4, <2>1, QueueSubmit DEF CurrentOK, PlacesOK, Inside
  <1>5. CASE GetWork
    <2>1. UNCHANGED <<batches, pc, job, closePc>> /\ ownerPc = "get" /\ ownerPc' = "space"
          /\ current' = Len(batches) + 1
      BY <1>5, QueueHead DEF GetWork, vars, callVars
    <2> QED BY <1>2, <1>5, <2>1, QueueTaken DEF CurrentOK, PlacesOK, Inside
  <1>6. CASE GetStop
    <2>1. UNCHANGED <<batches, pc, job, closePc, current>> /\ ownerPc = "get"
          /\ ownerPc' = "stopped"
      BY <1>6 DEF GetStop, vars, callVars
    <2> QED BY <1>2, <1>6, <2>1, QueueTaken DEF CurrentOK, PlacesOK, Inside
  <1>7. CASE SpaceWorks
    <2>1. UNCHANGED <<batches, pc, job, closePc, current, queue, work>> /\ ownerPc = "space"
          /\ ownerPc' = "call"
      BY <1>7 DEF SpaceWorks, callVars
    <2>2. QueueOK'
      BY <2>1, QueueStays DEF Taken
    <2> QED BY <1>2, <2>1, <2>2 DEF CurrentOK, PlacesOK, Inside
  <1>8. CASE CallExecutor
    <2>1. /\ UNCHANGED <<closePc, current, queue, work>> /\ ownerPc = "call"
          /\ ownerPc' = "running"
          /\ Call(worker, work[current].commands) /\ work[current].commands \in Batches
      BY <1>8, CurrentTyped DEF CallExecutor
    <2>2. Len(batches') = Len(batches) + 1
      BY <1>3, <2>1, AppendProperties DEF Call, CallsTypeOK
    <2>3. QueueOK'
      BY <2>1, <2>2, QueueStays DEF Taken
    <2>4. /\ pc'[worker] = "acquire" /\ job'[worker] = Len(batches) + 1
          /\ UNCHANGED <<pc[closer], job[closer]>>
      BY <1>2, <1>3, <2>1 DEF Call, CallsTypeOK
    <2>5. CurrentOK'
      BY <1>2, <1>3, <2>1, <2>2 DEF CurrentOK
    <2>6. PlacesOK'
      BY <1>2, <2>1, <2>4 DEF CurrentOK, PlacesOK, Inside
    <2> QED BY <2>3, <2>5, <2>6
  <1>9. CASE FinishWork
    <2>1. /\ UNCHANGED <<closePc, queue, work, batches, pc, job>> /\ ownerPc = "running"
          /\ ownerPc' = "get" /\ current' = 0 /\ pc[worker] = "idle"
      BY <1>9 DEF FinishWork, vars, callVars
    <2>2. QueueOK'
      BY <2>1, QueueStays DEF Taken
    <2> QED BY <1>2, <2>1, <2>2 DEF CurrentOK, PlacesOK, Inside
  <1>10. CASE PutStop
    <2>1. UNCHANGED <<ownerPc, current, batches, pc, job>> /\ closePc = "open"
      BY <1>10 DEF PutStop, vars, callVars
    <2> QED BY <1>2, <1>10, <2>1, QueueStop DEF CurrentOK, PlacesOK, Inside
  <1>11. CASE Join
    <2>1. /\ UNCHANGED <<ownerPc, current, queue, work, batches, job>> /\ closePc = "joining"
          /\ closePc' = "closing" /\ pc' = [pc EXCEPT ![closer] = "closing"]
      BY <1>11 DEF Join, CallClose
    <2>2. QueueOK'
      BY <2>1, QueueStays DEF Taken
    <2>3. pc'[closer] = "closing" /\ pc'[worker] = pc[worker]
      BY <1>2, <1>3, <2>1 DEF CallsTypeOK
    <2> QED BY <1>2, <2>1, <2>2, <2>3 DEF CurrentOK, PlacesOK, Inside
  <1>12. CASE Closed
    <2>1. /\ UNCHANGED <<ownerPc, current, queue, work, batches, pc, job>> /\ closePc = "closing"
          /\ closePc' = "closed" /\ pc[closer] = "idle"
      BY <1>12 DEF Closed, vars, callVars
    <2>2. QueueOK'
      BY <2>1, QueueStays DEF Taken, ControlInv, QueueOK
    <2> QED BY <1>2, <2>1, <2>2 DEF CurrentOK, PlacesOK, Inside
  <1>13. ASSUME NEW t \in {worker, closer}, Step(t), UNCHANGED ownerVars
         PROVE  QueueOK' /\ CurrentOK' /\ PlacesOK'
    <2>1. UNCHANGED <<ownerPc, current, queue, work, closePc, batches>>
      BY <1>13, ThreadStep DEF ownerVars
    <2>2. QueueOK'
      BY <2>1, QueueStays DEF Taken, ControlInv, QueueOK
    <2>3. CurrentOK'
      BY <1>2, <2>1 DEF CurrentOK
    <2>4. PlacesOK'
      BY <1>2, <1>13, <2>1, ThreadStep DEF PlacesOK, Worked, Ended, Inside
    <2> QED BY <2>2, <2>3, <2>4
  <1>14. CASE Rests
    <2>1. UNCHANGED <<ownerPc, current, queue, work, closePc, batches, pc, job>>
      BY <1>14 DEF Rests, ownerVars
    <2>2. QueueOK'
      BY <2>1, QueueStays DEF Taken, ControlInv, QueueOK
    <2> QED BY <1>2, <2>1, <2>2 DEF CurrentOK, PlacesOK, Inside
  <1> QED BY <1>4, <1>5, <1>6, <1>7, <1>8, <1>9, <1>10, <1>11, <1>12, <1>13, <1>14, OwnerSteps

-------------------------------------------------------------------------------
(* What an entry of the wire looks like ...                                *)
LEMMA EntryTyped ==
  ASSUME ControlInv, NEW k \in DOMAIN wire
  PROVE  /\ wire[k].start \in Nat /\ wire[k].end \in Nat
         /\ wire[k].interval \in Nat
         /\ wire[k].id[1] \in DOMAIN batches /\ wire[k].id[1] \in DOMAIN work
         /\ wire[k].id[1] \in 1..Len(batches)
  <1>1. wire[k] \in Attempts
    BY ElementOfSeq, LenProperties DEF ControlInv, OutcomeInv, TurnsInv, Typed, TypeOK, WireTypeOK
  <1>2. wire[k].id[1] \in 1..Len(batches)
    BY DEF ControlInv, OutcomeInv, TurnsInv, WireOK
  <1>3. wire[k].id[1] \in DOMAIN batches /\ wire[k].id[1] \in DOMAIN work
    BY <1>2, OwnerLengths
  <1> QED BY <1>1, <1>2, <1>3, TimeAssumption DEF Attempts

\* ... and what a step of the worker adds to it.
LEMMA WorkerAdds ==
  ASSUME ControlInv, Worked(worker)
  PROVE  /\ ownerPc = "running" /\ job[worker] = current
         /\ DOMAIN wire = 1..Len(wire) /\ Len(wire) \in Nat
         /\ \/ UNCHANGED wire
            \/ /\ DOMAIN wire' = 1..(Len(wire) + 1)
               /\ \A k \in DOMAIN wire : wire'[k] = wire[k]
               /\ wire'[Len(wire) + 1].id[1] = current
               /\ wire'[Len(wire) + 1].start = now /\ wire'[Len(wire) + 1].end = now'
               /\ wire'[Len(wire) + 1].interval = interval
  <1>1. ownerPc = "running" /\ job[worker] = current
    BY DEF ControlInv, PlacesOK, Worked, Inside
  <1>2. wire \in Seq(Attempts)
    BY DEF ControlInv, OutcomeInv, TurnsInv, Typed, TypeOK, WireTypeOK
  <1>3. DOMAIN wire = 1..Len(wire) /\ Len(wire) \in Nat
    BY <1>2, LenProperties
  <1>4. ASSUME NEW e \in Attempts, wire' = Append(wire, e)
        PROVE  /\ DOMAIN wire' = 1..(Len(wire) + 1)
               /\ \A k \in DOMAIN wire : wire'[k] = wire[k]
               /\ wire'[Len(wire) + 1] = e
    BY <1>2, <1>4, AppendProperties, LenProperties
  <1>5. CASE UNCHANGED wire
    BY <1>1, <1>3, <1>5
  <1>6. ASSUME NEW e \in Attempts, wire' = Append(wire, e),
               e.id = IdOf(worker), e.start = now, e.end = now', e.interval = interval
        PROVE  /\ DOMAIN wire' = 1..(Len(wire) + 1)
               /\ \A k \in DOMAIN wire : wire'[k] = wire[k]
               /\ wire'[Len(wire) + 1].id[1] = current
               /\ wire'[Len(wire) + 1].start = now /\ wire'[Len(wire) + 1].end = now'
               /\ wire'[Len(wire) + 1].interval = interval
    BY <1>1, <1>4, <1>6 DEF IdOf
  <1> QED BY <1>1, <1>3, <1>5, <1>6 DEF Worked, Adds

-------------------------------------------------------------------------------
(* The parts of the invariant that follow the work.                        *)
LEMMA WorksNext ==
  ASSUME ControlInv, WorksOK, [OwnerNext]_allVars
  PROVE  WorksOK'
  <1>1. /\ Len(batches) \in Nat /\ DOMAIN batches = 1..Len(batches)
        /\ Len(work) \in Nat /\ DOMAIN work = 1..Len(work) /\ DOMAIN workState = 1..Len(work)
        /\ DOMAIN outcome = 1..Len(batches) /\ Len(batches) <= Len(work)
    BY OwnerLengths
  <1>2. CallsTypeOK /\ OwnerTyped /\ CurrentOK /\ PlacesOK /\ worker # closer /\ worker \in Threads
    BY OwnerAssumption DEF ControlInv, OutcomeInv, TurnsInv, Typed, TypeOK
  <1>3. ASSUME NEW commands \in Batches, NEW i \in Intervals, Submit(commands, i)
        PROVE  WorksOK'
    <2> DEFINE n == Len(work) + 1
    <2>1. UNCHANGED <<batches, wire, interval, outcome, ownerPc, current, pc>>
      BY <1>3 DEF Submit, vars, callVars
    <2>2. [commands |-> commands, interval |-> i] \in Works
      BY DEF Works
    <2>3. /\ DOMAIN work' = 1..n /\ DOMAIN workState' = 1..n
          /\ \A w \in DOMAIN work : work'[w] = work[w] /\ workState'[w] = workState[w]
          /\ workState'[n] = "queued"
      <3>1. /\ Len(work') = Len(work) + 1 /\ work' \in Seq(Works)
            /\ \A w \in 1..Len(work) : work'[w] = work[w]
        BY <1>2, <1>3, <2>2, AppendProperties DEF Submit, OwnerTyped
      <3>2. /\ Len(workState') = Len(workState) + 1
            /\ workState' \in Seq({"queued", "executing", "done"})
            /\ \A w \in 1..Len(workState) : workState'[w] = workState[w]
            /\ workState'[Len(workState) + 1] = "queued"
        BY <1>2, <1>3, AppendProperties DEF Submit, OwnerTyped
      <3>3. Len(workState) = Len(work)
        BY <1>2 DEF OwnerTyped
      <3> QED BY <1>1, <3>1, <3>2, <3>3, LenProperties
    <2> HIDE DEF n
    <2>4. \A w \in DOMAIN work' : w \in DOMAIN work \/ w = n
      BY <1>1, <2>3 DEF n
    <2>5. \A b \in DOMAIN batches' : batches'[b] = work'[b].commands
      BY <1>1, <2>1, <2>3 DEF WorksOK
    <2>6. \A k \in DOMAIN wire' : wire'[k].interval = work'[wire'[k].id[1]].interval
      BY <2>1, <2>3, EntryTyped DEF WorksOK
    <2>7. ownerPc' \in {"call", "running"} => interval' = work'[current'].interval
      BY <2>1, <2>3, CurrentTyped DEF WorksOK
    <2>8. \A w \in DOMAIN work' : workState'[w] = "done" => w \in DOMAIN batches' /\ w # current'
      BY <2>1, <2>3, <2>4 DEF WorksOK
    <2>9. \A w \in DOMAIN outcome' : outcome'[w].kind = "pending" => Inside(worker)' /\ w = current'
      BY <2>1 DEF WorksOK, Inside
    <2> QED BY <2>5, <2>6, <2>7, <2>8, <2>9 DEF WorksOK
  <1>4. CASE GetWork
    <2>1. UNCHANGED <<batches, wire, interval, outcome, work, pc>>
          /\ ownerPc = "get" /\ ownerPc' = "space"
          /\ current' = Len(batches) + 1
          /\ workState' = [workState EXCEPT ![current'] = "executing"]
      BY <1>4, QueueHead DEF GetWork, vars, callVars
    <2>2. \A v \in DOMAIN workState :
            workState'[v] = IF v = current' THEN "executing" ELSE workState[v]
      BY <1>2, <2>1, StateSet
    <2>3. \A w \in DOMAIN outcome : outcome[w].kind # "pending"
      BY <1>2, <2>1 DEF WorksOK, PlacesOK, Inside
    <2>4. \A w \in DOMAIN work' : workState'[w] = "done" => w \in DOMAIN batches' /\ w # current'
      BY <1>1, <2>1, <2>2 DEF WorksOK
    <2> QED BY <2>1, <2>3, <2>4 DEF WorksOK
  <1>5. CASE SpaceWorks
    <2>1. UNCHANGED <<batches, wire, outcome, work, workState, current, pc>>
          /\ interval' = work[current].interval
      BY <1>5, SpaceTyped DEF SpaceWorks, callVars
    <2> QED BY <2>1 DEF WorksOK, Inside
  <1>6. CASE CallExecutor
    <2> DEFINE n == Len(batches) + 1
    <2>1. /\ UNCHANGED <<wire, interval, work, workState, current>>
          /\ ownerPc = "call" /\ ownerPc' = "running" /\ pc[worker] = "idle"
          /\ pc' = [pc EXCEPT ![worker] = "acquire"]
          /\ batches' = Append(batches, work[current].commands)
          /\ outcome' = Append(outcome, Pending)
          /\ current = n
      BY <1>2, <1>6 DEF CallExecutor, Call, CurrentOK
    <2>2. work[current].commands \in Batches /\ Pending \in Outcomes
      BY <2>1, CurrentTyped, EmptySeq DEF Pending, Outcomes
    <2>3. /\ DOMAIN batches' = 1..n
          /\ \A b \in 1..Len(batches) : batches'[b] = batches[b]
          /\ batches'[n] = work[current].commands
      BY <1>1, <1>2, <2>1, <2>2, AppendProperties, LenProperties DEF CallsTypeOK
    <2>4. /\ DOMAIN outcome' = 1..n
          /\ \A b \in 1..Len(batches) : outcome'[b] = outcome[b]
          /\ outcome'[n] = Pending
      BY <1>1, <1>2, <2>1, <2>2, AppendProperties, LenProperties DEF CallsTypeOK
    <2>5. Inside(worker)' /\ \A w \in DOMAIN outcome : outcome[w].kind # "pending"
      BY <1>2, <2>1 DEF WorksOK, Inside, CallsTypeOK
    <2>6. \A b \in 1..n : b \in 1..Len(batches) \/ b = n
      BY <1>1
    <2>7. \A b \in 1..Len(batches) : b \in 1..n
      BY <1>1
    <2> HIDE DEF n
    <2>8. \A b \in DOMAIN batches' : batches'[b] = work'[b].commands
      BY <1>1, <2>1, <2>3, <2>6 DEF WorksOK
    <2>9. \A w \in DOMAIN outcome' : outcome'[w].kind = "pending" => Inside(worker)' /\ w = current'
      BY <1>1, <2>1, <2>4, <2>5, <2>6
    <2>10. \A w \in DOMAIN work' : workState'[w] = "done" => w \in DOMAIN batches' /\ w # current'
      BY <1>1, <2>1, <2>3, <2>7 DEF WorksOK
    <2> QED BY <2>1, <2>8, <2>9, <2>10 DEF WorksOK
  <1>7. CASE FinishWork
    <2>1. /\ UNCHANGED <<batches, wire, interval, outcome, work, pc>>
          /\ ownerPc = "running" /\ ownerPc' = "get" /\ pc[worker] = "idle" /\ current' = 0
          /\ workState' = [workState EXCEPT ![current] = "done"]
      BY <1>7 DEF FinishWork, vars, callVars
    <2>2. \A v \in DOMAIN workState :
            workState'[v] = IF v = current THEN "done" ELSE workState[v]
      BY <1>2, <2>1, StateSet
    <2>3. current \in DOMAIN batches
      BY <1>1, <1>2, <2>1 DEF CurrentOK
    <2>4. \A w \in DOMAIN outcome : outcome[w].kind # "pending"
      BY <1>2, <2>1 DEF WorksOK, Inside
    <2>5. \A w \in DOMAIN work' : workState'[w] = "done" => w \in DOMAIN batches' /\ w # current'
      BY <1>1, <2>1, <2>2, <2>3 DEF WorksOK
    <2> QED BY <2>1, <2>4, <2>5 DEF WorksOK
  <1>8. CASE GetStop \/ PutStop \/ Closed
    <2>1. UNCHANGED <<batches, wire, interval, outcome, work, workState, current, pc>>
          /\ (ownerPc' = ownerPc \/ ownerPc' = "stopped")
      BY <1>8 DEF GetStop, PutStop, Closed, vars, callVars
    <2> QED BY <2>1 DEF WorksOK, Inside
  <1>9. CASE Join
    <2>1. UNCHANGED <<batches, wire, interval, outcome, work, workState, current, ownerPc>>
          /\ pc'[worker] = pc[worker]
      BY <1>2, <1>9 DEF Join, CallClose, CallsTypeOK
    <2> QED BY <2>1 DEF WorksOK, Inside
  <1>10. ASSUME NEW t \in {worker, closer}, Step(t), UNCHANGED ownerVars PROVE WorksOK'
    <2>1. UNCHANGED <<batches, interval, work, workState, current, ownerPc>>
      BY <1>10, ThreadStep DEF ownerVars
    <2>2. CASE UNCHANGED <<outcome, wire, pc[worker]>>
      BY <2>1, <2>2 DEF WorksOK, Inside
    <2>3. CASE Worked(worker)
      <3>1. \A k \in DOMAIN wire' : wire'[k].interval = work'[wire'[k].id[1]].interval
        <4> DEFINE n == Len(wire) + 1
        <4>1. CASE UNCHANGED wire
          BY <2>1, <4>1 DEF WorksOK
        <4>2. CASE ~UNCHANGED wire
          <5>1. /\ \A k \in DOMAIN wire : wire'[k] = wire[k]
                /\ wire'[n].id[1] = current /\ wire'[n].interval = interval
                /\ ownerPc = "running"
                /\ \A k \in DOMAIN wire' : k \in DOMAIN wire \/ k = n
            BY <2>3, <4>2, WorkerAdds
          <5> HIDE DEF n
          <5> QED BY <2>1, <5>1 DEF WorksOK
        <4> QED BY <4>1, <4>2
      <3>2. \A w \in DOMAIN outcome' :
              outcome'[w].kind = "pending" => Inside(worker)' /\ w = current'
        <4>1. CASE Inside(worker)' /\ UNCHANGED outcome
          BY <2>1, <4>1 DEF WorksOK
        <4>2. ASSUME NEW o \in Outcomes, Ended(worker, o)
              PROVE  \A w \in DOMAIN outcome' : outcome'[w].kind # "pending"
          <5>1. job[worker] = current
            BY <2>3, WorkerAdds
          <5>2. DOMAIN outcome' = DOMAIN outcome
                /\ \A w \in DOMAIN outcome : outcome'[w] = IF w = current THEN o ELSE outcome[w]
            BY <4>2, <5>1 DEF Ended
          <5> QED BY <4>2, <5>2 DEF WorksOK, Ended
        <4> QED BY <2>3, <4>1, <4>2 DEF Worked
      <3> QED BY <2>1, <3>1, <3>2 DEF WorksOK
    <2> QED BY <1>10, <2>2, <2>3, ThreadStep
  <1>11. CASE Rests
    <2>1. UNCHANGED <<batches, interval, wire, outcome, pc, work, workState, current, ownerPc>>
      BY <1>11 DEF Rests, ownerVars
    <2> QED BY <2>1 DEF WorksOK, Inside
  <1> QED BY <1>3, <1>4, <1>5, <1>6, <1>7, <1>8, <1>9, <1>10, <1>11, OwnerSteps

(* ... the stop ...                                                        *)
LEMMA CloseNext ==
  ASSUME ControlInv, CloseOK, [OwnerNext]_allVars
  PROVE  CloseOK'
  <1> USE DEF QuietStopRefusesNobody
  <1>1. CallsTypeOK /\ PlacesOK /\ worker # closer /\ closer \in Threads
    BY OwnerAssumption DEF ControlInv, OutcomeInv, TurnsInv, Typed, TypeOK
  <1>2. ASSUME NEW commands \in Batches, NEW i \in Intervals, Submit(commands, i)
        PROVE  CloseOK'
    BY <1>2 DEF Submit, vars, callVars, lockVars, CloseOK
  <1>3. CASE GetWork \/ GetStop \/ FinishWork \/ PutStop \/ Closed
    BY <1>3 DEF GetWork, GetStop, FinishWork, PutStop, Closed, vars, callVars, lockVars, CloseOK
  <1>4. CASE SpaceWorks
    BY <1>4 DEF SpaceWorks, callVars, lockVars, CloseOK
  <1>5. CASE CallExecutor
    <2>1. /\ UNCHANGED <<closed, closePc, joinTimedOut>> /\ ownerPc = "call"
          /\ pc'[closer] = pc[closer]
          /\ outcome' = Append(outcome, Pending) /\ outcome \in Seq(Outcomes)
          /\ Pending \in Outcomes /\ Pending.kind # "closed"
      BY <1>1, <1>5, EmptySeq
         DEF CallExecutor, Call, lockVars, CallsTypeOK, Pending, Outcomes
    <2>2. \A w \in DOMAIN outcome' :
            (w \in DOMAIN outcome /\ outcome'[w] = outcome[w]) \/ outcome'[w] = Pending
      <3>1. /\ Len(outcome') = Len(outcome) + 1 /\ Len(outcome) \in Nat
            /\ outcome' \in Seq(Outcomes)
            /\ \A w \in 1..Len(outcome) : outcome'[w] = outcome[w]
            /\ outcome'[Len(outcome) + 1] = Pending
        BY <2>1, AppendProperties
      <3>2. DOMAIN outcome = 1..Len(outcome) /\ DOMAIN outcome' = 1..(Len(outcome) + 1)
        BY <2>1, <3>1, LenProperties
      <3> QED BY <3>1, <3>2
    <2> QED BY <2>1, <2>2 DEF CloseOK
  <1>6. CASE Join
    <2>1. /\ UNCHANGED <<closed, ownerPc, outcome>> /\ closePc = "joining" /\ closePc' = "closing"
          /\ joinTimedOut' = (ownerPc # "stopped")
      BY <1>6 DEF Join, CallClose, lockVars
    <2> QED BY <2>1 DEF CloseOK
  <1>7. ASSUME NEW t \in {worker, closer}, Step(t), UNCHANGED ownerVars PROVE CloseOK'
    <2>1. UNCHANGED <<closePc, joinTimedOut, ownerPc>>
      BY <1>7 DEF ownerVars
    <2>2. CASE pc[closer] = "closing" /\ UNCHANGED outcome
      BY <2>1, <2>2 DEF CloseOK
    <2>3. CASE Worked(worker) /\ pc'[closer] = pc[closer]
      <3>1. ownerPc = "running" /\ job[worker] = current /\ UNCHANGED closed
        BY <2>3, WorkerAdds DEF Worked
      <3>2. CASE UNCHANGED outcome
        BY <2>1, <2>3, <3>1, <3>2 DEF CloseOK
      <3>3. ASSUME NEW o \in Outcomes, Ended(worker, o) PROVE CloseOK'
        <4>1. DOMAIN outcome' = DOMAIN outcome
              /\ \A w \in DOMAIN outcome : outcome'[w] = IF w = current THEN o ELSE outcome[w]
          BY <3>1, <3>3 DEF Ended
        <4>2. o.kind = "closed" => joinTimedOut
          BY <3>1, <3>3 DEF CloseOK, Ended
        <4> QED BY <2>1, <2>3, <3>1, <4>1, <4>2 DEF CloseOK
      <3> QED BY <2>3, <3>2, <3>3 DEF Worked
    <2> QED BY <1>7, <2>2, <2>3, ThreadStep
  <1>8. CASE Rests
    BY <1>8 DEF Rests, ownerVars, CloseOK
  <1> QED BY <1>2, <1>3, <1>4, <1>5, <1>6, <1>7, <1>8, OwnerSteps

(* ... and the times.  What the clock and the settings are:                *)
LEMMA TimesTyped ==
  ASSUME ControlInv
  PROVE  /\ now \in Nat /\ interval \in Nat
         /\ lastCompletedAt \in Nat \cup {NoTime} /\ previousInterval \in Nat \cup {NoTime}
         /\ NoTime \notin Nat
  BY TimeAssumption
     DEF ControlInv, OutcomeInv, TurnsInv, Typed, TypeOK, ClockTypeOK, OwnerTyped, NoTime

\* A step that leaves the wire and the settings alone and only lets time pass.
LEMMA TimesStay ==
  ASSUME ControlInv, ControlInv', TimesOK, WorksSpaced,
         UNCHANGED <<wire, interval, current, lastCompletedAt, previousInterval>>, now' >= now,
         ownerPc' \in {"call", "running"} <=> ownerPc \in {"call", "running"}
  PROVE  TimesOK' /\ WorksSpaced'
  <1>1. /\ now \in Nat /\ now' \in Nat /\ interval \in Nat
        /\ lastCompletedAt \in Nat \cup {NoTime} /\ NoTime \notin Nat
    BY TimesTyped DEF ControlInv, OutcomeInv, TurnsInv, Typed, TypeOK, ClockTypeOK
  <1>2. \A k \in DOMAIN wire : wire[k].end \in Nat /\ wire[k].interval \in Nat
    BY EntryTyped
  <1>3. lastCompletedAt' <= now' /\ \A k \in DOMAIN wire' : wire'[k].end <= now'
    BY <1>1, <1>2 DEF TimesOK, NoTime
  <1>4. ownerPc' \in {"call", "running"} =>
          \A k \in DOMAIN wire' : wire'[k].id[1] # current' =>
            /\ wire'[k].end + wire'[k].interval <= now'
            /\ wire'[k].end + interval' <= now'
    BY <1>1, <1>2 DEF TimesOK
  <1>5. ownerPc' \notin {"call", "running"} =>
          \A k \in DOMAIN wire' :
            /\ lastCompletedAt' # NoTime /\ previousInterval' # NoTime
            /\ wire'[k].end <= lastCompletedAt'
            /\ wire'[k].end + wire'[k].interval <= lastCompletedAt' + previousInterval'
    BY DEF TimesOK
  <1> QED BY <1>3, <1>4, <1>5 DEF TimesOK, WorksSpaced

\* The sleep between two works puts the last one far enough behind.
LEMMA SpaceTimes ==
  ASSUME ControlInv, TimesOK, WorksSpaced, SpaceWorks
  PROVE  TimesOK' /\ WorksSpaced'
  <1> DEFINE new == work[current].interval
  <1>1. /\ now \in Nat /\ lastCompletedAt \in Nat \cup {NoTime}
        /\ previousInterval \in Nat \cup {NoTime} /\ NoTime \notin Nat
    BY TimesTyped
  <1>2. /\ ownerPc = "space" /\ ownerPc' = "call"
        /\ UNCHANGED <<wire, current, lastCompletedAt, previousInterval>>
    BY DEF SpaceWorks
  <1>3. /\ new \in Nat /\ now' \in Nat /\ now' >= now /\ interval' = new
        /\ lastCompletedAt # NoTime => now' >= lastCompletedAt + Required(new)
    BY <1>2, SpaceTyped, CurrentTyped
  <1> HIDE DEF new
  <1>4. previousInterval # NoTime =>
          Required(new) \in Nat /\ Required(new) >= previousInterval /\ Required(new) >= new
    BY <1>1, <1>3 DEF Required
  <1>5. ASSUME NEW k \in DOMAIN wire
        PROVE  /\ wire[k].end <= now'
               /\ wire[k].end + wire[k].interval <= now'
               /\ wire[k].end + new <= now'
    <2>1. wire[k].end \in Nat /\ wire[k].interval \in Nat
      BY EntryTyped
    <2>2. /\ lastCompletedAt # NoTime /\ previousInterval # NoTime
          /\ wire[k].end <= lastCompletedAt
          /\ wire[k].end + wire[k].interval <= lastCompletedAt + previousInterval
      BY <1>2 DEF TimesOK
    <2> QED BY <1>1, <1>3, <1>4, <2>1, <2>2
  <1>6. lastCompletedAt' <= now'
    BY <1>1, <1>2, <1>3 DEF TimesOK, NoTime
  <1> QED BY <1>2, <1>3, <1>5, <1>6 DEF TimesOK, WorksSpaced

\* When a work is done, its own commands are behind the present, too.
LEMMA FinishTimes ==
  ASSUME ControlInv, WorksOK, TimesOK, WorksSpaced, FinishWork
  PROVE  TimesOK' /\ WorksSpaced'
  <1>1. now \in Nat /\ interval \in Nat /\ NoTime \notin Nat
    BY TimesTyped
  <1>2. /\ ownerPc = "running" /\ ownerPc' = "get"
        /\ UNCHANGED <<wire, interval, now>>
        /\ previousInterval' = work[current].interval /\ lastCompletedAt' = now
    BY DEF FinishWork, vars
  <1>3. interval = work[current].interval
    BY <1>2 DEF WorksOK
  <1>4. ASSUME NEW k \in DOMAIN wire
        PROVE  wire[k].end <= now /\ wire[k].end + wire[k].interval <= now + interval
    <2>1. wire[k].end \in Nat /\ wire[k].interval \in Nat /\ wire[k].end <= now
      BY EntryTyped DEF TimesOK
    <2>2. CASE wire[k].id[1] = current
      <3>1. wire[k].interval = interval
        BY <1>3, <2>2 DEF WorksOK
      <3> QED BY <1>1, <2>1, <3>1
    <2>3. CASE wire[k].id[1] # current
      <3>1. wire[k].end + wire[k].interval <= now
        BY <1>2, <2>3 DEF TimesOK
      <3> QED BY <1>1, <2>1, <3>1
    <2> QED BY <2>2, <2>3
  <1> QED BY <1>1, <1>2, <1>3, <1>4 DEF TimesOK, WorksSpaced

\* A command that the worker puts on the wire is far enough from the others.
LEMMA WorkerTimes ==
  ASSUME ControlInv, ControlInv', WorksOK, TimesOK, WorksSpaced, Worked(worker), now' >= now,
         UNCHANGED <<interval, ownerVars>>
  PROVE  TimesOK' /\ WorksSpaced'
  <1> DEFINE n == Len(wire) + 1
  <1>1. UNCHANGED <<current, lastCompletedAt, previousInterval, ownerPc>> /\ ownerPc = "running"
    BY WorkerAdds DEF ownerVars
  <1>2. CASE UNCHANGED wire
    BY <1>1, <1>2, TimesStay
  <1>3. CASE ~UNCHANGED wire
    <2>1. /\ DOMAIN wire = 1..(n - 1) /\ DOMAIN wire' = 1..n /\ n \in Nat
          /\ \A k \in DOMAIN wire : wire'[k] = wire[k]
          /\ wire'[n].id[1] = current
          /\ wire'[n].start = now /\ wire'[n].end = now'
          /\ wire'[n].interval = interval
      BY <1>3, WorkerAdds
    <2> HIDE DEF n
    <2>2. now \in Nat /\ now' \in Nat /\ interval \in Nat /\ lastCompletedAt \in Nat \cup {NoTime}
      BY TimesTyped DEF ControlInv, OutcomeInv, TurnsInv, Typed, TypeOK, ClockTypeOK
    <2>3. \A k \in DOMAIN wire' : k \in DOMAIN wire \/ k = n
      BY <2>1
    <2>4. ASSUME NEW k \in DOMAIN wire
          PROVE  /\ wire[k].end <= now'
                 /\ wire[k].id[1] # current =>
                      /\ wire[k].end + wire[k].interval <= now
                      /\ wire[k].end + interval <= now
                      /\ wire[k].end + wire[k].interval <= now'
                      /\ wire[k].end + interval <= now'
      <3>1. wire[k].end \in Nat /\ wire[k].interval \in Nat
        BY EntryTyped
      <3>2. /\ wire[k].end <= now
            /\ wire[k].id[1] # current =>
                 wire[k].end + wire[k].interval <= now /\ wire[k].end + interval <= now
        BY <1>1 DEF TimesOK
      <3> QED BY <2>2, <3>1, <3>2
    <2>5. TimesOK'
      <3>1. lastCompletedAt' <= now'
        BY <1>1, <2>2 DEF TimesOK, NoTime
      <3>2. \A k \in DOMAIN wire' : wire'[k].end <= now'
        BY <2>1, <2>2, <2>3, <2>4
      <3>3. \A k \in DOMAIN wire' : wire'[k].id[1] # current' =>
              wire'[k].end + wire'[k].interval <= now' /\ wire'[k].end + interval' <= now'
        BY <1>1, <2>1, <2>3, <2>4
      <3> QED BY <1>1, <3>1, <3>2, <3>3 DEF TimesOK
    <2>6. ASSUME NEW j \in DOMAIN wire', NEW k \in DOMAIN wire', j < k,
                 wire'[j].id[1] # wire'[k].id[1]
          PROVE  /\ wire'[k].start >= wire'[j].end + wire'[j].interval
                 /\ wire'[k].start >= wire'[j].end + wire'[k].interval
      <3>1. j \in DOMAIN wire
        BY <2>1, <2>6
      <3>2. CASE k \in DOMAIN wire
        BY <2>1, <2>6, <3>1, <3>2 DEF WorksSpaced
      <3>3. CASE k = n
        <4>1. wire[j].id[1] # current
          BY <2>1, <2>6, <3>1, <3>3
        <4>2. /\ wire[j].end + wire[j].interval <= now
              /\ wire[j].end + interval <= now
          BY <2>4, <3>1, <4>1
        <4>3. wire[j].end \in Nat /\ wire[j].interval \in Nat
          BY <3>1, EntryTyped
        <4> QED BY <2>1, <2>2, <3>1, <3>3, <4>2, <4>3
      <3> QED BY <2>3, <3>2, <3>3
    <2> QED BY <2>5, <2>6 DEF WorksSpaced
  <1> QED BY <1>2, <1>3

LEMMA TimesNext ==
  ASSUME ControlInv, ControlInv', WorksOK, TimesOK, WorksSpaced, [OwnerNext]_allVars
  PROVE  TimesOK' /\ WorksSpaced'
  <1> SUFFICES TimesOK' /\ WorksSpaced'
    OBVIOUS
  <1>1. now \in Nat /\ PlacesOK /\ worker # closer
    BY TimesTyped, OwnerAssumption DEF ControlInv
  <1>2. ASSUME NEW commands \in Batches, NEW i \in Intervals, Submit(commands, i)
        PROVE  TimesOK' /\ WorksSpaced'
    <2>1. UNCHANGED <<now, wire, interval, current, lastCompletedAt, previousInterval, ownerPc>>
      BY <1>2 DEF Submit, vars
    <2> QED BY <1>1, <2>1, TimesStay
  <1>3. CASE GetWork
    <2>1. /\ UNCHANGED <<now, wire, interval, lastCompletedAt, previousInterval>>
          /\ ownerPc = "get" /\ ownerPc' = "space"
      BY <1>3 DEF GetWork, vars
    <2> QED BY <2>1 DEF TimesOK, WorksSpaced
  <1>4. CASE GetStop \/ PutStop \/ Closed
    <2>1. /\ UNCHANGED <<now, wire, interval, current, lastCompletedAt, previousInterval>>
          /\ (ownerPc' = ownerPc \/ (ownerPc = "get" /\ ownerPc' = "stopped"))
      BY <1>4 DEF GetStop, PutStop, Closed, vars
    <2> QED BY <1>1, <2>1, TimesStay
  <1>5. CASE SpaceWorks
    BY <1>5, SpaceTimes
  <1>6. CASE CallExecutor
    <2>1. /\ UNCHANGED <<now, wire, interval, current, lastCompletedAt, previousInterval>>
          /\ ownerPc = "call" /\ ownerPc' = "running"
      BY <1>6 DEF CallExecutor, Call
    <2> QED BY <1>1, <2>1, TimesStay
  <1>7. CASE FinishWork
    BY <1>7, FinishTimes
  <1>8. CASE Join
    <2>1. UNCHANGED <<now, wire, interval, current, lastCompletedAt, previousInterval, ownerPc>>
      BY <1>8 DEF Join, CallClose
    <2> QED BY <1>1, <2>1, TimesStay
  <1>9. ASSUME NEW t \in {worker, closer}, Step(t), UNCHANGED ownerVars
        PROVE  TimesOK' /\ WorksSpaced'
    <2>1. now' >= now /\ UNCHANGED interval
          /\ (UNCHANGED wire \/ Worked(worker))
      BY <1>9, ThreadStep
    <2>2. UNCHANGED <<current, lastCompletedAt, previousInterval, ownerPc>>
      BY <1>9 DEF ownerVars
    <2>3. CASE UNCHANGED wire
      BY <2>1, <2>2, <2>3, TimesStay
    <2>4. CASE Worked(worker)
      BY <1>9, <2>1, <2>4, WorkerTimes
    <2> QED BY <2>1, <2>3, <2>4
  <1>10. CASE Rests
    <2>1. UNCHANGED <<now, wire, interval, current, lastCompletedAt, previousInterval, ownerPc>>
      BY <1>10 DEF Rests, ownerVars
    <2> QED BY <1>1, <2>1, TimesStay
  <1> QED BY <1>2, <1>3, <1>4, <1>5, <1>6, <1>7, <1>8, <1>9, <1>10, OwnerSteps

-------------------------------------------------------------------------------
LEMMA OwnerStart == OwnerInit => OwnerInv
  <1> SUFFICES ASSUME OwnerInit PROVE OwnerInv
    OBVIOUS
  <1>1. OutcomeInv
    BY OutcomeInit DEF OwnerInit
  <1>2. OwnerTyped
    <2>1. /\ work \in Seq(Works) /\ Len(work) = 0
          /\ workState \in Seq({"queued", "executing", "done"}) /\ Len(workState) = 0
          /\ queue \in Seq(Nat)
      BY EmptySeq DEF OwnerInit
    <2>2. /\ current \in 0..MaxBatches /\ ownerPc = "get"
          /\ previousInterval = NoTime /\ lastCompletedAt = NoTime
          /\ closePc = "open" /\ joinTimedOut = FALSE
      BY BoundAssumption DEF OwnerInit
    <2>3. Len(work) <= MaxBatches /\ Len(workState) = Len(work)
      BY <2>1, BoundAssumption
    <2>4. /\ ownerPc \in {"get", "space", "call", "running", "stopped"}
          /\ closePc \in {"open", "joining", "closing", "closed"} /\ joinTimedOut \in BOOLEAN
          /\ previousInterval \in Intervals \cup {NoTime} /\ lastCompletedAt \in Nat \cup {NoTime}
      BY <2>2
    <2> QED BY <2>1, <2>2, <2>3, <2>4, Zenon DEF OwnerTyped
  <1>3. QueueOK
    <2>1. Len(queue) = 0 /\ DOMAIN queue = {} /\ Taken = 0 /\ Len(work) = 0
      BY DEF OwnerInit, Init, Taken
    <2>2. /\ 1 \in 1..(Len(queue) + 1) /\ 1 = Len(queue) + 1
          /\ QueueIs(queue, 1, Taken) /\ Taken + Len(queue) = Len(work)
          /\ ownerPc # "stopped" /\ closePc = "open"
      BY <2>1 DEF OwnerInit, QueueIs
    <2> QED BY <2>2 DEF QueueOK
  <1>4. CurrentOK
    BY DEF OwnerInit, CurrentOK
  <1>5. PlacesOK
    BY OwnerAssumption DEF OwnerInit, Init, PlacesOK, Inside
  <1>6. WorksOK
    BY DEF OwnerInit, Init, WorksOK
  <1>7. CloseOK
    BY OwnerAssumption DEF OwnerInit, Init, CloseOK, QuietStopRefusesNobody
  <1>8. TimesOK /\ WorksSpaced
    BY DEF OwnerInit, Init, TimesOK, WorksSpaced, NoTime
  <1> QED BY <1>1, <1>2, <1>3, <1>4, <1>5, <1>6, <1>7, <1>8 DEF OwnerInv, ControlInv

LEMMA OwnerStep == OwnerInv /\ [OwnerNext]_allVars => OwnerInv'
  <1> SUFFICES ASSUME OwnerInv, [OwnerNext]_allVars PROVE OwnerInv'
    OBVIOUS
  <1>1. ControlInv /\ WorksOK /\ CloseOK /\ TimesOK /\ WorksSpaced
    BY DEF OwnerInv
  <1>2. ControlInv'
    BY <1>1, ControlNext
  <1> QED BY <1>1, <1>2, WorksNext, CloseNext, TimesNext DEF OwnerInv

-------------------------------------------------------------------------------
(* The variables of _PhysicalOwner, and those of its executor, keep their  *)
(* types (gateway/server.py).                                              *)
THEOREM OwnerTypeCorrect == OwnerSpec => []OwnerTypeOK
  <1>1. OwnerInv => OwnerTypeOK
    BY DEF OwnerInv, ControlInv, OutcomeInv, TurnsInv, Typed, OwnerTyped, OwnerTypeOK, Works
  <1> QED BY OwnerStart, OwnerStep, <1>1, PTL DEF OwnerSpec

(* Works run in the order of submission, each under the settings of its    *)
(* own client, and one whose event is set has a result or an error         *)
(* (gateway/server.py: _run): for any number of works, and for close() at  *)
(* any moment.                                                             *)
THEOREM WorksAreBatches == OwnerSpec => []WorkIsTheBatch
  <1>1. OwnerInv => WorkIsTheBatch
    <2> SUFFICES ASSUME OwnerInv PROVE WorkIsTheBatch
      OBVIOUS
    <2>1. ControlInv /\ WorksOK
      BY DEF OwnerInv
    <2>2. ASSUME NEW w \in DOMAIN work, workState[w] = "done"
          PROVE  w \in DOMAIN outcome /\ outcome[w].kind # "pending"
      <3>1. w \in DOMAIN batches /\ w # current
        BY <2>1, <2>2 DEF WorksOK
      <3>2. w \in DOMAIN outcome
        BY <2>1, <3>1, OwnerLengths
      <3> QED BY <2>1, <3>1, <3>2 DEF WorksOK
    <2> QED BY <2>1, <2>2 DEF WorksOK, WorkIsTheBatch
  <1> QED BY OwnerStart, OwnerStep, <1>1, PTL DEF OwnerSpec

(* A close() whose join did not time out refuses nobody (gateway/server.py:*)
(* close): every work before the None meets an open executor.              *)
THEOREM QuietStop == OwnerSpec => []QuietStopRefusesNobody
  <1>1. OwnerInv => QuietStopRefusesNobody
    BY DEF OwnerInv, CloseOK
  <1> QED BY OwnerStart, OwnerStep, <1>1, PTL DEF OwnerSpec

(* Commands of different works are as far apart as both clients asked for, *)
(* also after works that failed (gateway/server.py: _run).                 *)
THEOREM WorksKeepDistance == OwnerSpec => []WorksSpaced
  <1>1. OwnerInv => WorksSpaced
    BY DEF OwnerInv
  <1> QED BY OwnerStart, OwnerStep, <1>1, PTL DEF OwnerSpec
===============================================================================
