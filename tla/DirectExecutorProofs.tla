------------------------- MODULE DirectExecutorProofs -------------------------
(***************************************************************************)
(* Proofs about DirectExecutor for any threads, batches, intervals and     *)
(* delays, and any number of calls: types, then what the lock gives        *)
(* (batches kept apart, commands spaced, close() made to wait), then what  *)
(* the outcome of a call tells of the wire, then which answers it holds.   *)
(***************************************************************************)
EXTENDS DirectExecutor, SequenceTheorems, TLAPS

(* A thread that is inside execute() has a batch of its own number.        *)
JobsOK ==
  /\ Len(batches) <= MaxBatches
  /\ \A t \in Threads : pc[t] \notin {"idle", "closing"} => job[t] \in 1..Len(batches)

CallsOK == CallsTypeOK /\ JobsOK
Typed   == TypeOK /\ JobsOK

-------------------------------------------------------------------------------
(* A batch is not empty: every command position of it is a Nat above 0.    *)
LEMMA IdTyped ==
  ASSUME CallsOK, NEW t \in Threads, job[t] \in 1..Len(batches)
  PROVE  IdOf(t) \in QueryIds
  BY BoundAssumption DEF CallsOK, CallsTypeOK, JobsOK, IdOf, QueryIds

(* Updating one element keeps a sequence a sequence.                       *)
LEMMA ExceptTyped ==
  ASSUME NEW S, NEW s \in Seq(S), NEW i, NEW e \in S
  PROVE  [s EXCEPT ![i] = e] \in Seq(S)
  <1>1. CASE i \in 1..Len(s)
    BY <1>1, ExceptSeq
  <1>2. CASE i \notin 1..Len(s)
    <2>1. [s EXCEPT ![i] = e] = s
      BY <1>2, LenProperties
    <2> QED BY <2>1
  <1> QED BY <1>1, <1>2

(* Leaving execute() keeps the types of the call variables.                *)
LEMMA LeaveTyped ==
  ASSUME CallsOK, NEW t \in Threads, NEW kind \in Endings, NEW i \in Nat,
         NEW vals \in Seq(Values), Leave(t, kind, i, vals)
  PROVE  CallsOK'
  <1>1. [kind |-> kind, index |-> i, values |-> vals] \in Outcomes
    BY DEF Outcomes
  <1>2. outcome' \in Seq(Outcomes)
    BY <1>1, ExceptTyped DEF CallsOK, CallsTypeOK, Leave
  <1>3. values' \in [Threads -> Seq(Values)]
    BY DEF CallsOK, CallsTypeOK, Leave
  <1>4. /\ pc' \in [Threads -> Locations]
        /\ job' \in [Threads -> 0..MaxBatches]
        /\ index' \in [Threads -> Nat \ {0}]
    BY BoundAssumption DEF CallsOK, CallsTypeOK, Leave, Locations
  <1>5. JobsOK'
    BY DEF CallsOK, CallsTypeOK, JobsOK, Leave
  <1> QED BY <1>2, <1>3, <1>4, <1>5 DEF CallsOK, CallsTypeOK, Leave

(* So does failing with an error ...                                       *)
LEMMA FailTyped ==
  ASSUME CallsOK, LockTypeOK, NEW t \in Threads, NEW kind \in Endings, Fail(t, kind)
  PROVE  CallsOK' /\ holder' \in Threads \cup {NoThread}
  <1>1. index[t] \in Nat /\ values[t] \in Seq(Values)
    BY DEF CallsOK, CallsTypeOK
  <1>2. CallsOK'
    BY <1>1, LeaveTyped DEF Fail
  <1> QED BY <1>2 DEF Fail, Release, LockTypeOK

(* ... and finishing a command.                                            *)
LEMMA AdvanceTyped ==
  ASSUME CallsOK, LockTypeOK, NEW t \in Threads, pc[t] \in InBatch, NEW v \in Values,
         Advance(t, v)
  PROVE  CallsOK' /\ holder' \in Threads \cup {NoThread}
  <1> DEFINE vals == Append(values[t], v)
  <1>1. vals \in Seq(Values)
    BY AppendProperties DEF CallsOK, CallsTypeOK
  <1>2. CASE index[t] = Len(batches[job[t]])
    <2>1. Leave(t, "result", 0, vals) /\ Release(t)
      BY <1>2 DEF Advance
    <2>2. CallsOK'
      BY <1>1, <2>1, LeaveTyped DEF Endings
    <2> QED BY <2>1, <2>2 DEF Release, LockTypeOK
  <1>3. CASE index[t] # Len(batches[job[t]])
    <2> USE <1>3 DEF Advance
    <2>1. values' \in [Threads -> Seq(Values)]
      BY <1>1 DEF CallsOK, CallsTypeOK
    <2>2. index' \in [Threads -> Nat \ {0}]
      <3>1. index \in [Threads -> Nat \ {0}] /\ index' = [index EXCEPT ![t] = index[t] + 1]
        BY DEF CallsOK, CallsTypeOK
      <3>2. index[t] + 1 \in Nat \ {0}
        BY <3>1
      <3> QED BY <3>1, <3>2
    <2>3. pc' \in [Threads -> Locations]
      BY DEF CallsOK, CallsTypeOK, Locations, InBatch
    <2>4. JobsOK'
      BY DEF CallsOK, CallsTypeOK, JobsOK, InBatch
    <2> QED BY <2>1, <2>2, <2>3, <2>4 DEF CallsOK, CallsTypeOK, LockTypeOK
  <1> QED BY <1>2, <1>3

(* The pause before a write is well defined.                               *)
LEMMA AllowedTyped ==
  ASSUME ClockTypeOK
  PROVE  WriteAllowedAt \in Nat /\ WriteAllowedAt >= now
  BY TimeAssumption DEF ClockTypeOK, WriteAllowedAt, NoTime

(* The entry that an attempted write adds is well formed.                  *)
LEMMA RecordTyped ==
  ASSUME Typed, NEW t \in Threads, pc[t] \in InBatch, NEW d \in Delays,
         NEW delivered \in BOOLEAN, NEW ok \in BOOLEAN, Record(t, d, delivered, ok)
  PROVE  wire' \in Seq(Attempts)
  <1>1. job[t] \in 1..Len(batches)
    BY DEF Typed, JobsOK, InBatch
  <1>2. IdOf(t) \in QueryIds
    BY <1>1, IdTyped DEF Typed, TypeOK, CallsOK
  <1>3. [id |-> IdOf(t), start |-> now, end |-> now + d, delivered |-> delivered,
         ok |-> ok, interval |-> interval] \in Attempts
    BY <1>2, TimeAssumption DEF Typed, TypeOK, ClockTypeOK, Attempts
  <1> QED BY <1>3, AppendProperties DEF Record, Typed, TypeOK, WireTypeOK

LEMMA DeliverTyped ==
  ASSUME Typed, NEW t \in Threads, pc[t] \in InBatch, Deliver(t)
  PROVE  owed' \in Seq(QueryIds)
  <1>1. job[t] \in 1..Len(batches)
    BY DEF Typed, JobsOK, InBatch
  <1>2. IdOf(t) \in QueryIds
    BY <1>1, IdTyped DEF Typed, TypeOK, CallsOK
  <1> QED BY <1>2, AppendProperties DEF Deliver, Typed, TypeOK, WireTypeOK

-------------------------------------------------------------------------------
LEMMA InitTyped == Init => Typed
  <1> SUFFICES ASSUME Init PROVE Typed
    OBVIOUS
  <1> USE DEF Init
  <1>1. ClockTypeOK /\ LockTypeOK
    BY DEF ClockTypeOK, LockTypeOK
  <1>2. CallsTypeOK
    BY BoundAssumption, EmptySeq DEF CallsTypeOK, Locations
  <1>3. WireTypeOK
    BY EmptySeq DEF WireTypeOK
  <1>4. JobsOK
    BY BoundAssumption DEF JobsOK
  <1> QED BY <1>1, <1>2, <1>3, <1>4 DEF Typed, TypeOK

(* One step per action; what an action leaves alone keeps its type.        *)
LEMMA NextTyped == Typed /\ [Next]_vars => Typed'
  <1> SUFFICES ASSUME Typed, [Next]_vars PROVE Typed'
    OBVIOUS
  <1> USE DEF Typed, TypeOK
  <1>a. CallsOK
    BY DEF CallsOK
  <1>1. ASSUME NEW t \in Threads, NEW commands \in Batches, Call(t, commands) PROVE Typed'
    <2> USE <1>1 DEF Call
    <2>1. batches' \in Seq(Batches) /\ Len(batches') = Len(batches) + 1
      BY AppendProperties DEF CallsTypeOK
    <2>2. outcome' \in Seq(Outcomes)
      <3>1. Pending \in Outcomes
        BY EmptySeq DEF Pending, Outcomes
      <3> QED BY <3>1, AppendProperties DEF CallsTypeOK
    <2>3. job' \in [Threads -> 0..MaxBatches] /\ job'[t] = Len(batches) + 1
      BY BoundAssumption, LenProperties DEF CallsTypeOK
    <2>4. pc' \in [Threads -> Locations]
      BY DEF CallsTypeOK, Locations
    <2>5. JobsOK'
      <3>1. Len(batches') <= MaxBatches
        BY <2>1, BoundAssumption, LenProperties DEF CallsTypeOK
      <3>2. Len(batches) \in Nat
        BY LenProperties DEF CallsTypeOK
      <3>3. ASSUME NEW u \in Threads, pc'[u] \notin {"idle", "closing"}
            PROVE  job'[u] \in 1..Len(batches')
        <4>1. CASE u = t
          BY <4>1, <2>1, <2>3, <3>2
        <4>2. CASE u # t
          BY <4>2, <3>3, <2>1, <3>2 DEF JobsOK, CallsTypeOK
        <4> QED BY <4>1, <4>2
      <3> QED BY <3>1, <3>3 DEF JobsOK
    <2> QED BY <2>1, <2>2, <2>3, <2>4, <2>5
          DEF CallsTypeOK, ClockTypeOK, LockTypeOK, WireTypeOK, lockVars, instrumentVars
  <1>2. ASSUME NEW t \in Threads, CallClose(t) PROVE Typed'
    BY <1>2 DEF CallClose, CallsTypeOK, Locations, ClockTypeOK, LockTypeOK, WireTypeOK,
                JobsOK, lockVars, instrumentVars
  <1>3. ASSUME NEW t \in Threads, Acquire(t) PROVE Typed'
    <2> USE <1>3 DEF Acquire
    <2>1. pc' \in [Threads -> Locations] /\ JobsOK'
      BY DEF CallsTypeOK, Locations, InBatch, JobsOK
    <2> QED BY <2>1 DEF CallsTypeOK, ClockTypeOK, LockTypeOK, WireTypeOK, instrumentVars
  <1>4. ASSUME NEW t \in Threads, RejectClosed(t) PROVE Typed'
    <2>1. CallsOK'
      BY <1>a, <1>4, EmptySeq, LeaveTyped DEF RejectClosed, Endings
    <2> QED BY <2>1, <1>4 DEF RejectClosed, CallsOK, ClockTypeOK, LockTypeOK, WireTypeOK,
                              lockVars, instrumentVars
  <1>5. ASSUME NEW t \in Threads, WaitBeforeWrite(t) PROVE Typed'
    <2> USE <1>5 DEF WaitBeforeWrite
    <2>1. ClockTypeOK'
      BY AllowedTyped, TimeAssumption DEF ClockTypeOK
    <2>2. pc' \in [Threads -> Locations] /\ JobsOK'
      BY DEF CallsTypeOK, Locations, InBatch, JobsOK
    <2> QED BY <2>1, <2>2 DEF CallsTypeOK, LockTypeOK, WireTypeOK, instrumentVars, lockVars
  <1>6. ASSUME NEW t \in Threads, TransportWrite(t) PROVE Typed'
    <2> USE <1>6 DEF TransportWrite
    <2>0. pc[t] \in InBatch
      BY DEF InBatch
    <2>1. PICK d \in Delays : /\ Record(t, d, TRUE, TRUE)
                              /\ now' = now + d
                              /\ lastWriteAt' = now + d
      OBVIOUS
    <2>2. ClockTypeOK'
      BY <2>1, TimeAssumption DEF ClockTypeOK
    <2>3. wire' \in Seq(Attempts)
      BY <2>0, <2>1, RecordTyped
    <2>4. owed' \in Seq(QueryIds)
      BY <2>0, DeliverTyped
    <2>5. CallsOK' /\ holder' \in Threads \cup {NoThread}
      <3>1. CASE CommandOf(t) = "query"
        BY <3>1 DEF CallsOK, CallsTypeOK, JobsOK, Locations, InBatch, LockTypeOK
      <3>2. CASE CommandOf(t) # "query"
        BY <3>2, <2>0, <1>a, AdvanceTyped DEF Values
      <3> QED BY <3>1, <3>2
    <2> QED BY <2>2, <2>3, <2>4, <2>5 DEF CallsOK, LockTypeOK, WireTypeOK
  <1>7. ASSUME NEW t \in Threads, TransportWriteFails(t) PROVE Typed'
    <2> USE <1>7 DEF TransportWriteFails
    <2>0. pc[t] \in InBatch
      BY DEF InBatch
    <2>1. PICK kind \in {"timeout", "connection", "interrupt"},
               delivered \in BOOLEAN, d \in Delays :
            /\ Record(t, d, delivered, FALSE)
            /\ now' = now + d
            /\ IF delivered THEN Deliver(t) ELSE UNCHANGED owed
            /\ linkUp' \in IF kind = "connection" THEN {FALSE, linkUp} ELSE {linkUp}
            /\ Fail(t, kind)
      OBVIOUS
    <2>2. ClockTypeOK'
      BY <2>1, TimeAssumption DEF ClockTypeOK
    <2>3. wire' \in Seq(Attempts)
      BY <2>0, <2>1, RecordTyped
    <2>4. owed' \in Seq(QueryIds)
      BY <2>0, <2>1, DeliverTyped DEF WireTypeOK
    <2>5. CallsOK' /\ holder' \in Threads \cup {NoThread}
      BY <2>1, <1>a, FailTyped DEF Endings
    <2>6. linkUp' \in BOOLEAN
      BY <2>1 DEF LockTypeOK
    <2> QED BY <2>2, <2>3, <2>4, <2>5, <2>6 DEF CallsOK, LockTypeOK, WireTypeOK
  <1>8. ASSUME NEW t \in Threads, SettleSleep(t) PROVE Typed'
    <2> USE <1>8 DEF SettleSleep
    <2>1. ClockTypeOK'
      BY TimeAssumption DEF ClockTypeOK
    <2>2. pc' \in [Threads -> Locations] /\ JobsOK'
      BY DEF CallsTypeOK, Locations, InBatch, JobsOK
    <2> QED BY <2>1, <2>2 DEF CallsTypeOK, LockTypeOK, WireTypeOK, instrumentVars, lockVars
  <1>9. ASSUME NEW t \in Threads, TransportRead(t) PROVE Typed'
    <2> USE <1>9 DEF TransportRead
    <2>1. pc[t] \in InBatch
      BY DEF InBatch
    <2>2. pipe' \in Seq(Answers) /\ Head(pipe) \in Answers
      BY HeadTailProperties DEF WireTypeOK
    <2>3. ClockTypeOK'
      BY TimeAssumption DEF ClockTypeOK
    <2>4. CallsOK' /\ holder' \in Threads \cup {NoThread}
      <3>1. CASE Head(pipe).ascii
        BY <3>1, <2>1, <2>2, <1>a, AdvanceTyped DEF Answers, Values
      <3>2. CASE ~Head(pipe).ascii
        BY <3>2, <1>a, FailTyped DEF Endings
      <3> QED BY <3>1, <3>2
    <2> QED BY <2>2, <2>3, <2>4 DEF CallsOK, LockTypeOK, WireTypeOK
  <1>10. ASSUME NEW t \in Threads, TransportReadFails(t) PROVE Typed'
    <2> USE <1>10 DEF TransportReadFails
    <2>1. PICK kind \in {"timeout", "connection"}, d \in Delays :
            /\ now' = now + d
            /\ linkUp' \in IF kind = "connection" THEN {FALSE, linkUp} ELSE {linkUp}
            /\ Fail(t, kind)
      OBVIOUS
    <2>2. ClockTypeOK'
      BY <2>1, TimeAssumption DEF ClockTypeOK
    <2>3. CallsOK' /\ holder' \in Threads \cup {NoThread}
      BY <2>1, <1>a, FailTyped DEF Endings
    <2>4. linkUp' \in BOOLEAN
      BY <2>1 DEF LockTypeOK
    <2> QED BY <2>2, <2>3, <2>4 DEF CallsOK, LockTypeOK, WireTypeOK, instrumentVars
  <1>11. ASSUME NEW t \in Threads, Interrupt(t) PROVE Typed'
    <2> USE <1>11 DEF Interrupt
    <2>1. CallsOK' /\ holder' \in Threads \cup {NoThread}
      BY <1>a, FailTyped DEF Endings
    <2> QED BY <2>1 DEF CallsOK, ClockTypeOK, LockTypeOK, WireTypeOK, instrumentVars
  <1>12. ASSUME NEW t \in Threads, Close(t) PROVE Typed'
    <2> USE <1>12 DEF Close
    <2>1. closed' \in BOOLEAN /\ linkUp' \in BOOLEAN
      BY DEF LockTypeOK
    <2>2. pc' \in [Threads -> Locations] /\ JobsOK'
      BY DEF CallsTypeOK, Locations, JobsOK
    <2> QED BY <2>1, <2>2 DEF CallsTypeOK, ClockTypeOK, LockTypeOK, WireTypeOK, instrumentVars
  <1>13. ASSUME Answer \/ Ignore PROVE Typed'
    <2>1. owed' \in Seq(QueryIds) /\ Head(owed) \in QueryIds
      BY <1>13, HeadTailProperties DEF Answer, Ignore, WireTypeOK
    <2>2. pipe' \in Seq(Answers)
      <3>1. CASE Answer
        <4>1. PICK ascii \in BOOLEAN :
                pipe' = Append(pipe, [answers |-> Head(owed), ascii |-> ascii])
          BY <3>1 DEF Answer
        <4>2. [answers |-> Head(owed), ascii |-> ascii] \in Answers
          BY <2>1 DEF Answers
        <4> QED BY <4>1, <4>2, AppendProperties DEF WireTypeOK
      <3>2. CASE Ignore
        BY <3>2 DEF Ignore, WireTypeOK
      <3> QED BY <1>13, <3>1, <3>2
    <2> QED BY <1>13, <2>1, <2>2 DEF Answer, Ignore, CallsTypeOK, ClockTypeOK, LockTypeOK,
                                     WireTypeOK, JobsOK, callVars, lockVars
  <1>14. CASE UNCHANGED vars
    BY <1>14 DEF vars, callVars, lockVars, instrumentVars, CallsTypeOK, ClockTypeOK,
                 LockTypeOK, WireTypeOK, JobsOK
  <1> QED BY <1>1, <1>2, <1>3, <1>4, <1>5, <1>6, <1>7, <1>8, <1>9, <1>10, <1>11, <1>12,
             <1>13, <1>14 DEF Next, Step

(* TypeOK always holds: every variable of the executor, and every entry of *)
(* its histories, keeps its type under any interleaving of the threads.    *)
THEOREM TypeCorrect == Spec => []TypeOK
  <1>1. Typed => TypeOK
    BY DEF Typed
  <1> QED BY InitTyped, NextTyped, <1>1, PTL DEF Spec

-------------------------------------------------------------------------------
(* What a step does to the control variables.                              *)
Inside(t) == pc[t] \notin {"idle", "closing"}

\* The call of t has ended.
Left(t) ==
  /\ pc' = [pc EXCEPT ![t] = "idle"]
  /\ job' = [job EXCEPT ![t] = 0]
  /\ index' = [index EXCEPT ![t] = 1]
  /\ UNCHANGED batches
  /\ Release(t)

\* The call of t goes on with its next command.
Went(t) ==
  /\ pc' = [pc EXCEPT ![t] = "wait"]
  /\ index' = [index EXCEPT ![t] = index[t] + 1]
  /\ UNCHANGED <<job, batches, holder>>

\* The call of t is at another place of the same command.
Moved(t, to) ==
  /\ pc' = [pc EXCEPT ![t] = to]
  /\ UNCHANGED <<job, index, batches>>

\* A command of t was put on the wire.
Sent(t) ==
  \E e \in Attempts :
    /\ wire' = Append(wire, e)
    /\ e.id = IdOf(t)

LEMMA LeaveLeft ==
  ASSUME NEW t, NEW kind, NEW i, NEW vals, Leave(t, kind, i, vals), Release(t)
  PROVE  Left(t)
  BY DEF Leave, Left

LEMMA FailLeft ==
  ASSUME NEW t, NEW kind, Fail(t, kind)
  PROVE  Left(t)
  BY LeaveLeft DEF Fail

LEMMA AdvanceMoves ==
  ASSUME CallsTypeOK, NEW t \in Threads, NEW v, Advance(t, v)
  PROVE  Left(t) \/ Went(t)
  <1>1. CASE index[t] = Len(batches[job[t]])
    BY <1>1, LeaveLeft DEF Advance
  <1>2. CASE index[t] # Len(batches[job[t]])
    BY <1>2 DEF Advance, Went, CallsTypeOK
  <1> QED BY <1>1, <1>2

LEMMA RecordSends ==
  ASSUME Typed, NEW t \in Threads, pc[t] \in InBatch, NEW d \in Delays,
         NEW delivered \in BOOLEAN, NEW ok \in BOOLEAN, Record(t, d, delivered, ok)
  PROVE  Sent(t)
  <1>1. job[t] \in 1..Len(batches)
    BY DEF Typed, JobsOK, InBatch
  <1>2. IdOf(t) \in QueryIds
    BY <1>1, IdTyped DEF Typed, TypeOK, CallsOK
  <1>3. [id |-> IdOf(t), start |-> now, end |-> now + d, delivered |-> delivered,
         ok |-> ok, interval |-> interval] \in Attempts
    BY <1>2, TimeAssumption DEF Typed, TypeOK, ClockTypeOK, Attempts
  <1> QED BY <1>3 DEF Record, Sent

(* Every step of the program is one of these.                              *)
Phase(t) ==
  \/ pc[t] = "acquire" /\ Moved(t, "wait") /\ holder = NoThread /\ holder' = t /\ UNCHANGED wire
  \/ pc[t] = "wait" /\ Moved(t, "write") /\ UNCHANGED <<holder, wire>>
  \/ pc[t] = "settle" /\ Moved(t, "read") /\ UNCHANGED <<holder, wire>>
  \/ pc[t] = "idle" /\ Moved(t, "closing") /\ UNCHANGED <<holder, wire>>
  \/ pc[t] = "closing" /\ Moved(t, "idle") /\ UNCHANGED <<holder, wire>>
  \/ pc[t] = "read" /\ Went(t) /\ UNCHANGED wire
  \/ Inside(t) /\ Left(t) /\ UNCHANGED wire
  \/ pc[t] = "write" /\ Sent(t)
       /\ (Left(t) \/ Went(t) \/ (Moved(t, "settle") /\ UNCHANGED holder))

Called(t) ==
  /\ pc[t] = "idle"
  /\ pc' = [pc EXCEPT ![t] = "acquire"]
  /\ job' = [job EXCEPT ![t] = Len(batches) + 1]
  /\ Len(batches') = Len(batches) + 1
  /\ Len(batches') <= MaxBatches
  /\ UNCHANGED <<index, holder, wire>>

controlVars == <<pc, job, index, batches, holder, wire>>

LEMMA StepPhase ==
  ASSUME Typed, NEW t \in Threads, Step(t) \/ Interrupt(t) \/ CallClose(t)
  PROVE  Phase(t)
  <1> USE DEF Typed, TypeOK
  <1>1. CASE Acquire(t)
    BY <1>1 DEF Acquire, Phase, Moved
  <1>2. CASE RejectClosed(t)
    <2>1. Release(t)
      BY <1>2, ThreadsAssumption DEF RejectClosed, Release, lockVars
    <2> QED BY <1>2, <2>1, LeaveLeft DEF RejectClosed, Phase, Inside
  <1>3. CASE WaitBeforeWrite(t)
    BY <1>3 DEF WaitBeforeWrite, Phase, Moved, lockVars
  <1>4. CASE TransportWrite(t)
    <2> USE <1>4 DEF TransportWrite
    <2>1. Sent(t)
      BY RecordSends DEF InBatch
    <2>2. CASE CommandOf(t) = "query"
      BY <2>1, <2>2 DEF Phase, Moved
    <2>3. CASE CommandOf(t) # "query"
      BY <2>1, <2>3, AdvanceMoves DEF Phase
    <2> QED BY <2>2, <2>3
  <1>5. CASE TransportWriteFails(t)
    <2> USE <1>5 DEF TransportWriteFails
    <2>1. Sent(t)
      BY RecordSends DEF InBatch
    <2>2. Left(t)
      BY FailLeft
    <2> QED BY <2>1, <2>2 DEF Phase
  <1>6. CASE SettleSleep(t)
    BY <1>6 DEF SettleSleep, Phase, Moved, lockVars
  <1>7. CASE TransportRead(t)
    <2>1. Left(t) \/ Went(t)
      BY <1>7, AdvanceMoves, FailLeft DEF TransportRead
    <2> QED BY <1>7, <2>1 DEF TransportRead, Phase, Inside
  <1>8. CASE TransportReadFails(t)
    <2>1. Left(t)
      BY <1>8, FailLeft DEF TransportReadFails
    <2> QED BY <1>8, <2>1 DEF TransportReadFails, Phase, Inside
  <1>9. CASE Close(t)
    BY <1>9 DEF Close, Phase, Moved
  <1>10. CASE Interrupt(t)
    BY <1>10, FailLeft DEF Interrupt, Phase, Inside
  <1>11. CASE CallClose(t)
    BY <1>11 DEF CallClose, Phase, Moved, lockVars
  <1> QED BY <1>1, <1>2, <1>3, <1>4, <1>5, <1>6, <1>7, <1>8, <1>9, <1>10, <1>11 DEF Step

LEMMA NextPhase ==
  ASSUME Typed, [Next]_vars
  PROVE  (\E t \in Threads : Phase(t) \/ Called(t)) \/ UNCHANGED controlVars
  <1> USE DEF Typed, TypeOK
  <1>1. ASSUME NEW t \in Threads, NEW commands \in Batches, Call(t, commands)
        PROVE  Called(t)
    <2>1. Len(batches') = Len(batches) + 1 /\ Len(batches) \in Nat
      BY <1>1, AppendProperties, LenProperties DEF Call, CallsTypeOK
    <2> QED BY <1>1, <2>1, BoundAssumption DEF Call, Called, lockVars
  <1>2. CASE Answer \/ Ignore \/ UNCHANGED vars
    BY <1>2 DEF Answer, Ignore, vars, callVars, lockVars, controlVars
  <1> QED BY <1>1, <1>2, StepPhase DEF Next

-------------------------------------------------------------------------------
(* The holder of the lock is the one thread inside the loop.               *)
LockOK == \A t \in Threads : pc[t] \in InBatch <=> holder = t

\* No two calls work for the same batch.
CalledOnce ==
  \A t, u \in Threads : Inside(t) /\ Inside(u) /\ job[t] = job[u] => t = u

\* The commands on the wire are those of batches that were submitted.
WireOK == \A k \in DOMAIN wire : wire[k].id[1] \in 1..Len(batches)

Unsent(b)    == \A k \in DOMAIN wire : wire[k].id[1] # b
LastSent(id) == wire # <<>> /\ wire[Len(wire)].id = id

\* Where a thread is in its batch agrees with what is on the wire.
PositionOK ==
  \A t \in Threads :
    /\ pc[t] \in {"idle", "closing", "acquire"} => index[t] = 1
    /\ pc[t] \in {"acquire", "wait", "write"} /\ index[t] = 1 => Unsent(job[t])
    /\ pc[t] \in {"wait", "write"} /\ index[t] # 1 => LastSent(<<job[t], index[t] - 1>>)
    /\ pc[t] \in {"settle", "read"} => LastSent(IdOf(t))

(* What BatchesTakeTurns leaves behind: on the wire the commands of a batch *)
(* follow each other, in order, from its first.                            *)
BatchesNotInterleaved ==
  \A k \in DOMAIN wire :
    LET b == wire[k].id[1] IN
    IF wire[k].id[2] = 1
    THEN \A j \in 1..(k - 1) : wire[j].id[1] # b
    ELSE k > 1 /\ wire[k - 1].id = <<b, wire[k].id[2] - 1>>

TurnsInv == Typed /\ LockOK /\ CalledOnce /\ WireOK /\ PositionOK /\ BatchesNotInterleaved

LEMMA TurnsInit == Init => TurnsInv
  <1> SUFFICES ASSUME Init PROVE TurnsInv
    OBVIOUS
  <1>1. LockOK
    BY ThreadsAssumption DEF Init, LockOK, InBatch
  <1> QED BY <1>1, InitTyped
        DEF Init, TurnsInv, CalledOnce, Inside, WireOK, PositionOK, Unsent, BatchesNotInterleaved

LEMMA LockNext ==
  ASSUME Typed, LockOK, [Next]_vars
  PROVE  LockOK'
  <1> USE DEF Typed, TypeOK, CallsTypeOK, InBatch, LockOK
  <1>1. ASSUME NEW t \in Threads, Phase(t) PROVE LockOK'
    BY <1>1, ThreadsAssumption DEF Phase, Moved, Left, Went, Release, Inside
  <1>2. ASSUME NEW t \in Threads, Called(t) PROVE LockOK'
    BY <1>2 DEF Called
  <1>3. CASE UNCHANGED controlVars
    BY <1>3 DEF controlVars
  <1> QED BY <1>1, <1>2, <1>3, NextPhase

\* What an appended entry does to the wire.
LEMMA SentWire ==
  ASSUME Typed, NEW t, Sent(t)
  PROVE  /\ Len(wire') = Len(wire) + 1 /\ Len(wire) \in Nat
         /\ DOMAIN wire = 1..Len(wire) /\ DOMAIN wire' = 1..(Len(wire) + 1)
         /\ \A k \in DOMAIN wire : wire'[k] = wire[k]
         /\ wire'[Len(wire) + 1].id = IdOf(t)
         /\ wire' # <<>>
  <1>1. wire \in Seq(Attempts)
    BY DEF Typed, TypeOK, WireTypeOK
  <1>2. PICK e \in Attempts : wire' = Append(wire, e) /\ e.id = IdOf(t)
    BY DEF Sent
  <1> QED BY <1>1, <1>2, AppendProperties, LenProperties

LEMMA TurnsNext == TurnsInv /\ [Next]_vars => TurnsInv'
  <1> SUFFICES ASSUME TurnsInv, [Next]_vars PROVE TurnsInv'
    OBVIOUS
  <1> USE DEF TurnsInv
  <1>a. Typed' /\ LockOK'
    BY NextTyped, LockNext
  <1>b. CallsTypeOK /\ JobsOK
    BY DEF Typed, TypeOK
  <1>n. Len(batches) \in Nat
    BY <1>b, LenProperties DEF CallsTypeOK
  <1>c. \A u \in Threads : Inside(u) => job[u] \in 1..Len(batches)
    BY <1>b DEF JobsOK, Inside
  <1>1. ASSUME NEW t \in Threads, Called(t)
        PROVE  CalledOnce' /\ WireOK' /\ PositionOK' /\ BatchesNotInterleaved'
    <2> USE <1>1 DEF Called
    <2>1. CalledOnce'
      BY <1>b, <1>c, <1>n DEF CalledOnce, Inside, CallsTypeOK
    <2>2. WireOK' /\ BatchesNotInterleaved'
      BY <1>n DEF WireOK, BatchesNotInterleaved
    <2>3. \A k \in DOMAIN wire : wire[k].id[1] # Len(batches) + 1
      BY <1>n DEF WireOK
    <2>4. PositionOK'
      BY <1>b, <2>3 DEF PositionOK, Unsent, LastSent, IdOf, CallsTypeOK
    <2> QED BY <2>1, <2>2, <2>4
  <1>2. ASSUME NEW t \in Threads, Phase(t), ~Sent(t), UNCHANGED wire
        PROVE  CalledOnce' /\ WireOK' /\ PositionOK' /\ BatchesNotInterleaved'
    <2> USE <1>2 DEF Phase, Moved, Left, Went
    <2>1. CalledOnce'
      BY <1>b DEF CalledOnce, Inside, CallsTypeOK
    <2>2. WireOK' /\ BatchesNotInterleaved'
      BY DEF WireOK, BatchesNotInterleaved
    <2>3. PositionOK'
      <3>1. ASSUME NEW u \in Threads
            PROVE  /\ pc'[u] \in {"idle", "closing", "acquire"} => index'[u] = 1
                   /\ pc'[u] \in {"acquire", "wait", "write"} /\ index'[u] = 1 => Unsent(job[u])'
                   /\ pc'[u] \in {"wait", "write"} /\ index'[u] # 1
                        => LastSent(<<job[u], index[u] - 1>>)'
                   /\ pc'[u] \in {"settle", "read"} => LastSent(IdOf(u))'
        <4>1. CASE u = t
          <5>1. CASE Left(t)
            BY <4>1, <5>1, <1>b DEF CallsTypeOK
          <5>2. CASE pc[t] = "read" /\ Went(t)
            <6>1. index'[t] = index[t] + 1 /\ job'[t] = job[t] /\ pc'[t] = "wait"
              BY <5>2, <1>b DEF CallsTypeOK
            <6>2. wire # <<>> /\ wire[Len(wire)].id = <<job[t], index[t]>> /\ index[t] \in Nat \ {0}
              BY <5>2, <1>b DEF PositionOK, LastSent, IdOf, CallsTypeOK
            <6> QED BY <4>1, <6>1, <6>2 DEF LastSent
          <5>3. CASE \/ pc[t] = "acquire" /\ Moved(t, "wait")
                     \/ pc[t] = "wait" /\ Moved(t, "write")
                     \/ pc[t] = "settle" /\ Moved(t, "read")
                     \/ pc[t] = "idle" /\ Moved(t, "closing")
                     \/ pc[t] = "closing" /\ Moved(t, "idle")
            <6>1. index'[t] = index[t] /\ job'[t] = job[t]
              BY <5>3
            <6>2. \/ pc[t] \in {"acquire", "wait"} /\ pc'[t] \in {"wait", "write"}
                      /\ (pc[t] = "acquire" => index[t] = 1)
                  \/ pc[t] = "settle" /\ pc'[t] = "read"
                  \/ pc[t] \in {"idle", "closing"} /\ pc'[t] \in {"idle", "closing"}
              BY <5>3, <1>b DEF CallsTypeOK, PositionOK
            <6>3. UNCHANGED wire
              OBVIOUS
            <6> HIDE <1>2 DEF Phase, Moved, Left, Went
            <6>4. CASE pc[t] \in {"acquire", "wait"} /\ pc'[t] \in {"wait", "write"}
                         /\ (pc[t] = "acquire" => index[t] = 1)
              BY <4>1, <6>1, <6>3, <6>4 DEF PositionOK, Unsent, LastSent
            <6>5. CASE pc[t] = "settle" /\ pc'[t] = "read"
              BY <4>1, <6>1, <6>3, <6>5 DEF PositionOK, LastSent, IdOf
            <6>6. CASE pc[t] \in {"idle", "closing"} /\ pc'[t] \in {"idle", "closing"}
              BY <4>1, <6>1, <6>6 DEF PositionOK
            <6> QED BY <6>2, <6>4, <6>5, <6>6
          <5> QED BY <5>1, <5>2, <5>3
        <4>2. CASE u # t
          BY <4>2, <1>b, SMTT(30) DEF PositionOK, Unsent, LastSent, IdOf, CallsTypeOK
        <4> QED BY <4>1, <4>2
      <3> QED BY <3>1 DEF PositionOK
    <2> QED BY <2>1, <2>2, <2>3
  <1>3. ASSUME NEW t \in Threads, pc[t] = "write", Sent(t),
               Left(t) \/ Went(t) \/ (Moved(t, "settle") /\ UNCHANGED holder)
        PROVE  CalledOnce' /\ WireOK' /\ PositionOK' /\ BatchesNotInterleaved'
    <2> USE <1>3 DEF Moved, Left, Went
    <2>0. UNCHANGED batches /\ job[t] \in 1..Len(batches) /\ index[t] \in Nat \ {0}
      BY <1>b, <1>c DEF Inside, CallsTypeOK
    <2>1. CalledOnce'
      BY <1>b DEF CalledOnce, Inside, CallsTypeOK
    <2>2. WireOK'
      BY SentWire, <2>0 DEF WireOK, IdOf
    <2>3. \A u \in Threads \ {t} : /\ pc[u] \notin InBatch
                                  /\ pc'[u] = pc[u] /\ job'[u] = job[u] /\ index'[u] = index[u]
      BY <1>b DEF LockOK, InBatch, CallsTypeOK
    <2>4. PositionOK'
      <3>1. ASSUME NEW u \in Threads \ {t}, pc[u] = "acquire" PROVE Unsent(job[u])'
        <4>1. job[u] # job[t]
          BY <3>1 DEF CalledOnce, Inside
        <4>2. Unsent(job[u])
          BY <3>1 DEF PositionOK
        <4> QED BY <4>1, <4>2, <2>3, SentWire DEF Unsent, IdOf
      <3>2. wire' # <<>> /\ wire'[Len(wire')].id = <<job[t], index[t]>>
        BY SentWire DEF IdOf
      <3>3. \/ pc'[t] = "idle" /\ index'[t] = 1
            \/ pc'[t] = "wait" /\ index'[t] = index[t] + 1 /\ job'[t] = job[t]
            \/ pc'[t] = "settle" /\ index'[t] = index[t] /\ job'[t] = job[t]
        BY <1>b DEF CallsTypeOK
      <3>4. ASSUME NEW u \in Threads
            PROVE  /\ pc'[u] \in {"idle", "closing", "acquire"} => index'[u] = 1
                   /\ pc'[u] \in {"acquire", "wait", "write"} /\ index'[u] = 1 => Unsent(job[u])'
                   /\ pc'[u] \in {"wait", "write"} /\ index'[u] # 1
                        => LastSent(<<job[u], index[u] - 1>>)'
                   /\ pc'[u] \in {"settle", "read"} => LastSent(IdOf(u))'
        <4>1. CASE u = t
          BY <4>1, <2>0, <3>2, <3>3 DEF LastSent, IdOf
        <4>2. CASE u # t
          BY <4>2, <2>3, <3>1 DEF PositionOK, InBatch
        <4> QED BY <4>1, <4>2
      <3> QED BY <3>4 DEF PositionOK
    <2>5. BatchesNotInterleaved'
      <3>0. /\ DOMAIN wire = 1..Len(wire) /\ DOMAIN wire' = 1..(Len(wire) + 1)
            /\ Len(wire) \in Nat
            /\ \A k \in DOMAIN wire : wire'[k] = wire[k]
            /\ wire'[Len(wire) + 1].id = <<job[t], index[t]>>
        BY SentWire DEF IdOf
      <3>1. index[t] = 1 => \A j \in DOMAIN wire : wire[j].id[1] # job[t]
        BY DEF PositionOK, Unsent
      <3>2. index[t] # 1 => wire # <<>> /\ wire[Len(wire)].id = <<job[t], index[t] - 1>>
        BY DEF PositionOK, LastSent
      <3>3. wire # <<>> => Len(wire) > 0
        BY EmptySeq, LenProperties DEF Typed, TypeOK, WireTypeOK
      <3>4. ASSUME NEW k \in DOMAIN wire'
            PROVE  IF wire'[k].id[2] = 1
                   THEN \A j \in 1..(k - 1) : wire'[j].id[1] # wire'[k].id[1]
                   ELSE k > 1 /\ wire'[k - 1].id = <<wire'[k].id[1], wire'[k].id[2] - 1>>
        <4>1. CASE k \in DOMAIN wire
          BY <3>0, <4>1 DEF BatchesNotInterleaved
        <4>2. CASE k = Len(wire) + 1 /\ index[t] = 1
          BY <3>0, <3>1, <4>2
        <4>3. CASE k = Len(wire) + 1 /\ index[t] # 1
          BY <3>0, <3>2, <3>3, <4>3, <2>0
        <4> QED BY <3>0, <3>4, <4>1, <4>2, <4>3
      <3> QED BY <3>4 DEF BatchesNotInterleaved
    <2> QED BY <2>1, <2>2, <2>4, <2>5
  <1>4. CASE UNCHANGED controlVars
    BY <1>4, <1>a DEF controlVars, CalledOnce, Inside, WireOK, PositionOK, Unsent, LastSent,
                      IdOf, BatchesNotInterleaved
  <1>5. ASSUME NEW t \in Threads, Phase(t)
        PROVE  CalledOnce' /\ WireOK' /\ PositionOK' /\ BatchesNotInterleaved'
    <2>1. CASE Sent(t)
      <3>1. wire' # wire
        BY <2>1, SentWire
      <3> QED BY <1>3, <1>5, <2>1, <3>1 DEF Phase
    <2>2. CASE ~Sent(t)
      BY <1>2, <1>5, <2>2 DEF Phase
    <2> QED BY <2>1, <2>2
  <1>6. (\E t \in Threads : Phase(t) \/ Called(t)) \/ UNCHANGED controlVars
    BY NextPhase
  <1> QED BY <1>a, <1>1, <1>4, <1>5, <1>6

-------------------------------------------------------------------------------
Log == [k \in DOMAIN wire |-> wire[k].id]

LEMMA LogType ==
  ASSUME Typed
  PROVE  Log \in Seq(QueryIds) /\ Len(Log) = Len(wire)
  <1>1. wire \in Seq(Attempts)
    BY DEF Typed, TypeOK, WireTypeOK
  <1>2. \A k \in DOMAIN wire : wire[k].id \in QueryIds
    <2>1. \A k \in DOMAIN wire : wire[k] \in Attempts
      BY <1>1, ElementOfSeq, LenProperties
    <2> QED BY <2>1 DEF Attempts
  <1>3. Log \in [1..Len(wire) -> QueryIds] /\ Len(wire) \in Nat
    BY <1>1, <1>2, LenProperties DEF Log
  <1>4. Log \in Seq(QueryIds)
    BY <1>3, SeqDef
  <1> QED BY <1>3, <1>4, LenProperties

LEMMA LogAppend ==
  ASSUME Typed, Typed', NEW t \in Threads, Sent(t), IdOf(t) \in QueryIds
  PROVE  Log' = Append(Log, IdOf(t))
  <1>1. Log \in Seq(QueryIds) /\ Len(Log) = Len(wire)
    BY LogType
  <1>2. (Log \in Seq(QueryIds) /\ Len(Log) = Len(wire))'
    BY LogType, PTL
  <1>3. /\ Append(Log, IdOf(t)) \in Seq(QueryIds)
        /\ Len(Append(Log, IdOf(t))) = Len(wire) + 1
        /\ \A k \in 1..Len(wire) : Append(Log, IdOf(t))[k] = Log[k]
        /\ Append(Log, IdOf(t))[Len(wire) + 1] = IdOf(t)
    BY <1>1, AppendProperties
  <1>4. \A k \in 1..(Len(wire) + 1) : Log'[k] = Append(Log, IdOf(t))[k]
    BY <1>3, SentWire DEF Log
  <1>5. Len(Log') = Len(Append(Log, IdOf(t))) /\ Len(Log') = Len(wire) + 1
    BY <1>2, <1>3, SentWire
  <1> QED BY <1>2, <1>3, <1>4, <1>5, SeqEqual

(* Every step of the executor is a step of SerialBatches or leaves its     *)
(* variables alone.                                                        *)
LEMMA TurnStep ==
  ASSUME TurnsInv, Typed', NEW t \in Threads, Phase(t)
  PROVE  [Serial!Next]_(Serial!vars)
  <1> USE DEF TurnsInv
  <1>t. CallsTypeOK /\ JobsOK /\ NoThread \notin Threads
    BY ThreadsAssumption DEF Typed, TypeOK
  <1>h. pc[t] \in InBatch <=> holder = t
    BY DEF LockOK
  <1>w. UNCHANGED wire => UNCHANGED Log
    BY DEF Log
  <1>j. Inside(t) => job[t] \in 1..MaxBatches /\ job[t] # 0
    BY <1>t, BoundAssumption, LenProperties DEF JobsOK, Inside, CallsTypeOK
  <1>v. Serial!vars = <<Log, Turn>> /\ Serial!vars' = <<Log', Turn'>>
    BY DEF Serial!vars, Log
  <1>1. CASE /\ pc[t] = "acquire" /\ Moved(t, "wait")
             /\ holder = NoThread /\ holder' = t /\ UNCHANGED wire
    <2>1. Turn = <<0, 0>>
      BY <1>1 DEF Turn, NoValue
    <2>2. Turn' = <<job[t], 1>>
      BY <1>1, <1>t DEF Turn, Moved, IdOf, PositionOK, CallsTypeOK
    <2>3. \A k \in DOMAIN Log : Log[k][1] # job[t]
      BY <1>1 DEF Log, PositionOK, Unsent
    <2>4. job[t] \in 1..MaxBatches
      BY <1>1, <1>j DEF Inside
    <2> QED BY <1>1, <1>w, <2>1, <2>2, <2>3, <2>4
          DEF Serial!Next, Serial!Begin, Serial!Idle, Log
  <1>2. CASE /\ \/ pc[t] = "wait" /\ Moved(t, "write")
                \/ pc[t] = "settle" /\ Moved(t, "read")
                \/ pc[t] = "read" /\ Went(t)
             /\ UNCHANGED <<holder, wire>>
    <2>1. holder = t /\ holder' = t
      BY <1>2, <1>h DEF InBatch
    <2>2. Turn' = Turn
      BY <1>2, <2>1, <1>t DEF Turn, Moved, Went, IdOf, CallsTypeOK
    <2> QED BY <1>2, <1>v, <1>w, <2>2
  <1>3. CASE /\ \/ pc[t] = "idle" /\ Moved(t, "closing")
                \/ pc[t] = "closing" /\ Moved(t, "idle")
             /\ UNCHANGED <<holder, wire>>
    <2>1. holder # t
      BY <1>3, <1>h DEF InBatch
    <2>2. /\ holder # NoThread => pc'[holder] = pc[holder]
          /\ UNCHANGED <<job, index, holder>>
      BY <1>3, <2>1, <1>t DEF Moved, CallsTypeOK, Typed, TypeOK, LockTypeOK
    <2>3. Turn' = Turn
      BY <2>2 DEF Turn, IdOf
    <2> QED BY <1>3, <1>v, <1>w, <2>3
  <1>4. CASE Inside(t) /\ Left(t) /\ UNCHANGED wire
    <2>1. CASE holder = t
      <3>1. Turn # <<0, 0>> /\ Turn' = <<0, 0>>
        BY <1>4, <1>j, <1>t, <2>1 DEF Turn, Left, Release, IdOf, NoValue
      <3> QED BY <1>4, <1>w, <3>1 DEF Serial!Next, Serial!End, Serial!Idle, Log
    <2>2. CASE holder # t
      <3>1. Turn' = Turn
        BY <1>4, <1>t, <2>2 DEF Turn, Left, Release, IdOf, CallsTypeOK, NoValue
      <3> QED BY <1>4, <1>v, <1>w, <3>1
    <2> QED BY <2>1, <2>2
  <1>5. CASE /\ pc[t] = "write" /\ Sent(t)
             /\ Left(t) \/ Went(t) \/ (Moved(t, "settle") /\ UNCHANGED holder)
    <2>1. holder = t /\ job[t] # 0 /\ job[t] \in 1..Len(batches)
      BY <1>5, <1>h, <1>j, <1>t DEF InBatch, Inside, JobsOK
    <2>2. Turn = IdOf(t)
      BY <1>5, <1>t, <2>1 DEF Turn
    <2>3. Turn' \in {<<0, 0>>, <<job[t], index[t] + 1>>}
      BY <1>5, <1>t, <2>1 DEF Turn, Left, Went, Moved, Release, IdOf, CallsTypeOK, NoValue
    <2>4. Log' = Append(Log, IdOf(t))
      <3>1. IdOf(t) \in QueryIds
        BY <2>1, IdTyped, <1>t DEF CallsOK
      <3> QED BY <1>5, <3>1, LogAppend
    <2> QED BY <2>1, <2>2, <2>3, <2>4 DEF Serial!Next, Serial!Send, Serial!Idle, Log, IdOf
  <1>6. Went(t) => UNCHANGED holder
    BY DEF Went
  <1> HIDE DEF TurnsInv
  <1> QED BY <1>1, <1>2, <1>3, <1>4, <1>5, <1>6 DEF Phase

(* The executor is a SerialBatches: its lock gives each batch its turn.    *)
THEOREM Refinement == Spec => BatchesTakeTurns
  <1>1. Init => Serial!Init
    BY DEF Init, Serial!Init, Serial!Idle, Turn, NoValue
  <1>2. TurnsInv /\ [Next]_vars => [Serial!Next]_(Serial!vars)
    <2> SUFFICES ASSUME TurnsInv, [Next]_vars PROVE [Serial!Next]_(Serial!vars)
      OBVIOUS
    <2>1. Typed /\ Typed'
      BY NextTyped DEF TurnsInv
    <2>2. ASSUME NEW t \in Threads, Called(t) PROVE UNCHANGED Serial!vars
      <3>1. holder # t /\ CallsTypeOK
        BY <2>1, <2>2 DEF TurnsInv, LockOK, InBatch, Called, Typed, TypeOK
      <3> QED BY <2>2, <3>1, ThreadsAssumption
            DEF Called, Serial!vars, Turn, IdOf, CallsTypeOK
    <2>3. CASE UNCHANGED controlVars
      BY <2>3 DEF controlVars, Serial!vars, Turn, IdOf
    <2> QED BY <2>1, <2>2, <2>3, TurnStep, NextPhase
  <1> QED BY <1>1, <1>2, TurnsInit, TurnsNext, PTL DEF Spec, BatchesTakeTurns, Serial!Spec

-------------------------------------------------------------------------------
(* What the recorded write time says about the wire, and what the wait     *)
(* before a write has established when the write begins.                   *)
ClockOK ==
  /\ lastWriteAt <= now
  /\ \A k \in DOMAIN wire : wire[k].ok => wire[k].end <= lastWriteAt /\ lastWriteAt # NoTime
  /\ \A t \in Threads : pc[t] = "write" => lastWriteAt = NoTime \/ lastWriteAt + interval <= now

SpacingInv == Typed /\ LockOK /\ ClockOK /\ CommandSpacing

\* A step that writes nothing and does not come to a write.
Quiet ==
  /\ UNCHANGED <<interval, lastWriteAt, wire>>
  /\ now' >= now
  /\ \A u \in Threads : pc'[u] = "write" => pc[u] = "write"

\* A step that attempts a write of t, with or without success.
Attempt(t) ==
  \E d \in Delays, delivered \in BOOLEAN, ok \in BOOLEAN :
    /\ pc[t] = "write"
    /\ Record(t, d, delivered, ok)
    /\ now' = now + d
    /\ lastWriteAt' = IF ok THEN now + d ELSE lastWriteAt
    /\ UNCHANGED interval
    /\ pc'[t] # "write"
    /\ \A u \in Threads \ {t} : pc'[u] = pc[u]

\* The entry that Record adds, and the ones it keeps.
LEMMA RecordWire ==
  ASSUME Typed, NEW t \in Threads, pc[t] \in InBatch, NEW d \in Delays,
         NEW delivered \in BOOLEAN, NEW ok \in BOOLEAN, Record(t, d, delivered, ok)
  PROVE  /\ DOMAIN wire = 1..Len(wire) /\ DOMAIN wire' = 1..(Len(wire) + 1)
         /\ Len(wire) \in Nat
         /\ \A k \in DOMAIN wire : wire'[k] = wire[k]
         /\ wire'[Len(wire) + 1].start = now /\ wire'[Len(wire) + 1].end = now + d
         /\ wire'[Len(wire) + 1].ok = ok /\ wire'[Len(wire) + 1].interval = interval
  <1> DEFINE e == [id |-> IdOf(t), start |-> now, end |-> now + d, delivered |-> delivered,
                   ok |-> ok, interval |-> interval]
  <1>1. job[t] \in 1..Len(batches)
    BY DEF Typed, JobsOK, InBatch
  <1>2. IdOf(t) \in QueryIds
    BY <1>1, IdTyped DEF Typed, TypeOK, CallsOK
  <1>3. e \in Attempts
    BY <1>2, TimeAssumption DEF Typed, TypeOK, ClockTypeOK, Attempts
  <1>4. wire' = Append(wire, e) /\ wire \in Seq(Attempts)
    BY DEF Record, Typed, TypeOK, WireTypeOK
  <1>5. /\ Len(wire') = Len(wire) + 1 /\ wire' \in Seq(Attempts)
        /\ \A k \in 1..Len(wire) : wire'[k] = wire[k]
        /\ wire'[Len(wire) + 1] = e
    BY <1>3, <1>4, AppendProperties
  <1> QED BY <1>4, <1>5, LenProperties

LEMMA NextTimes ==
  ASSUME Typed, [Next]_vars
  PROVE  Quiet \/ \E t \in Threads : WaitBeforeWrite(t) \/ Attempt(t)
  <1> USE DEF Typed, TypeOK, CallsTypeOK, ClockTypeOK
  <1>1. ASSUME NEW t \in Threads,
               \/ Acquire(t) \/ RejectClosed(t) \/ SettleSleep(t) \/ TransportRead(t)
               \/ TransportReadFails(t) \/ Close(t) \/ Interrupt(t) \/ CallClose(t)
        PROVE  Quiet
    <2>1. Phase(t)
      BY <1>1, StepPhase DEF Step
    <2>2. UNCHANGED <<interval, lastWriteAt, wire>>
      BY <1>1 DEF Acquire, RejectClosed, SettleSleep, TransportRead, TransportReadFails, Close,
                  Interrupt, CallClose
    <2>3. now' >= now
      <3>1. \/ now' = now
            \/ \E d \in Delays : now' = now + d \/ now' = now + interval + d
        BY <1>1 DEF Acquire, RejectClosed, SettleSleep, TransportRead, TransportReadFails,
                    Close, Interrupt, CallClose
      <3> QED BY <3>1, TimeAssumption
    <2>4. pc[t] # "wait" \/ Left(t)
      BY <1>1, FailLeft DEF Acquire, RejectClosed, SettleSleep, TransportRead,
                            TransportReadFails, Close, Interrupt, CallClose
    <2>5. pc' = [pc EXCEPT ![t] = pc'[t]] /\ pc'[t] # "write"
      BY <2>1, <2>4 DEF Phase, Moved, Left, Went
    <2> QED BY <2>2, <2>3, <2>5 DEF Quiet
  <1>2. ASSUME NEW t \in Threads, NEW commands \in Batches, Call(t, commands)
        PROVE  Quiet
    BY <1>2 DEF Call, Quiet
  <1>3. CASE Answer \/ Ignore \/ UNCHANGED vars
    BY <1>3 DEF Answer, Ignore, vars, callVars, lockVars, Quiet
  <1>4. ASSUME NEW t \in Threads, TransportWrite(t) \/ TransportWriteFails(t)
        PROVE  Attempt(t)
    <2>1. pc' = [pc EXCEPT ![t] = pc'[t]] /\ pc'[t] # "write"
      <3>1. CASE TransportWrite(t)
        BY <3>1, AdvanceMoves DEF TransportWrite, Left, Went
      <3>2. CASE TransportWriteFails(t)
        BY <3>2, FailLeft DEF TransportWriteFails, Left
      <3> QED BY <1>4, <3>1, <3>2
    <2>2. CASE TransportWrite(t)
      BY <2>1, <2>2 DEF TransportWrite, Attempt
    <2>3. CASE TransportWriteFails(t)
      BY <2>1, <2>3 DEF TransportWriteFails, Attempt
    <2> QED BY <1>4, <2>2, <2>3
  <1> QED BY <1>1, <1>2, <1>3, <1>4 DEF Next, Step

LEMMA SpacingInit == Init => SpacingInv
  <1> SUFFICES ASSUME Init PROVE SpacingInv
    OBVIOUS
  <1>1. Typed /\ LockOK
    BY InitTyped, TurnsInit DEF TurnsInv
  <1> QED BY <1>1 DEF Init, SpacingInv, ClockOK, CommandSpacing, NoTime

LEMMA SpacingNext == SpacingInv /\ [Next]_vars => SpacingInv'
  <1> SUFFICES ASSUME SpacingInv, [Next]_vars PROVE SpacingInv'
    OBVIOUS
  <1> USE DEF SpacingInv
  <1>a. Typed' /\ LockOK'
    BY NextTyped, LockNext
  <1>b. ClockTypeOK /\ CallsTypeOK
    BY DEF Typed, TypeOK
  <1>1. CASE Quiet
    BY <1>1, <1>a, <1>b, TimeAssumption
       DEF Quiet, ClockOK, CommandSpacing, ClockTypeOK, Typed, TypeOK
  <1>2. ASSUME NEW t \in Threads, WaitBeforeWrite(t) PROVE SpacingInv'
    <2>1. /\ UNCHANGED <<interval, lastWriteAt, wire>>
          /\ now' >= WriteAllowedAt /\ now' >= now
      BY <1>2, <1>b, AllowedTyped, TimeAssumption DEF WaitBeforeWrite, ClockTypeOK
    <2>2. lastWriteAt = NoTime \/ lastWriteAt + interval <= now'
      BY <2>1, <1>b, <1>a, TimeAssumption DEF WriteAllowedAt, ClockTypeOK, Typed, TypeOK
    <2> QED BY <1>a, <1>b, <2>1, <2>2, TimeAssumption
          DEF ClockOK, CommandSpacing, ClockTypeOK, Typed, TypeOK
  <1>3. ASSUME NEW t \in Threads, Attempt(t) PROVE SpacingInv'
    <2>1. PICK d \in Delays, delivered \in BOOLEAN, ok \in BOOLEAN :
            /\ pc[t] = "write"
            /\ Record(t, d, delivered, ok)
            /\ now' = now + d
            /\ lastWriteAt' = IF ok THEN now + d ELSE lastWriteAt
            /\ UNCHANGED interval
            /\ pc'[t] # "write"
            /\ \A u \in Threads \ {t} : pc'[u] = pc[u]
      BY <1>3 DEF Attempt
    <2>2. \A u \in Threads : pc'[u] # "write"
      BY <2>1 DEF LockOK, InBatch
    <2> DEFINE n == Len(wire) + 1
    <2>3. /\ DOMAIN wire = 1..(n - 1) /\ DOMAIN wire' = 1..n /\ n \in Nat \ {0}
          /\ \A k \in DOMAIN wire : wire'[k] = wire[k]
          /\ wire'[n].start = now /\ wire'[n].end = now + d
          /\ wire'[n].ok = ok /\ wire'[n].interval = interval
      BY <2>1, RecordWire DEF InBatch
    <2>4. /\ interval \in Nat /\ now \in Nat /\ d \in Nat /\ lastWriteAt \in Nat \cup {NoTime}
          /\ \A k \in DOMAIN wire : wire[k].end \in Nat
      <3>1. \A k \in DOMAIN wire : wire[k] \in Attempts
        BY <2>3, ElementOfSeq, LenProperties DEF Typed, TypeOK, WireTypeOK
      <3> QED BY <3>1, <1>b, TimeAssumption DEF ClockTypeOK, Attempts
    <2>5. \A k \in DOMAIN wire : wire[k].ok => wire[k].end + interval <= now
      BY <2>1, <2>4 DEF ClockOK
    <2> HIDE DEF n
    <2>6. CommandSpacing'
      <3>1. ASSUME NEW j \in DOMAIN wire', NEW k \in DOMAIN wire', j < k, wire'[j].ok
            PROVE  wire'[k].start >= wire'[j].end + wire'[k].interval
        <4>1. j \in DOMAIN wire
          BY <2>3, <3>1
        <4>2. CASE k \in DOMAIN wire
          BY <2>3, <3>1, <4>1, <4>2 DEF CommandSpacing
        <4>3. CASE k = n
          BY <2>3, <2>4, <2>5, <3>1, <4>1, <4>3
        <4> QED BY <2>3, <4>2, <4>3
      <3> QED BY <3>1 DEF CommandSpacing
    <2>7. ClockOK'
      <3>1. lastWriteAt' <= now'
        BY <2>1, <2>4 DEF ClockOK, NoTime
      <3>2. ASSUME NEW k \in DOMAIN wire', wire'[k].ok
            PROVE  wire'[k].end <= lastWriteAt' /\ lastWriteAt' # NoTime
        <4>1. CASE k \in DOMAIN wire
          BY <2>1, <2>3, <2>4, <3>2, <4>1 DEF ClockOK, NoTime
        <4>2. CASE k = n
          BY <2>1, <2>3, <2>4, <3>2, <4>2 DEF NoTime
        <4> QED BY <2>3, <4>1, <4>2
      <3> QED BY <2>2, <3>1, <3>2 DEF ClockOK
    <2> QED BY <1>a, <2>6, <2>7
  <1> QED BY <1>1, <1>2, <1>3, NextTimes

(* Commands are spaced: no write starts sooner than min_command_interval   *)
(* after the last write that succeeded, whatever threads the two come from *)
(* and whatever failed in between.                                         *)
THEOREM Spacing == Spec => []CommandSpacing
  <1>1. SpacingInv => CommandSpacing
    BY DEF SpacingInv
  <1> QED BY SpacingInit, SpacingNext, <1>1, PTL DEF Spec

-------------------------------------------------------------------------------
(* Once close() has succeeded nobody holds the lock, and the transport is  *)
(* shut: a second close() has nothing left that could raise.               *)
ClosedOK == closed => holder = NoThread /\ ~linkUp

ClosedInv == Typed /\ LockOK /\ ClosedOK

\* What a step does to the link and to _closed.
LEMMA NextClosed ==
  ASSUME Typed, [Next]_vars
  PROVE  \/ UNCHANGED <<closed, linkUp>>
         \/ \E t \in Threads : Close(t)
         \/ \E t \in Threads : pc[t] \in InBatch /\ Left(t) /\ UNCHANGED closed
  <1>1. ASSUME NEW t \in Threads,
               \/ Acquire(t) \/ RejectClosed(t) \/ WaitBeforeWrite(t) \/ TransportWrite(t)
               \/ SettleSleep(t) \/ TransportRead(t) \/ Interrupt(t) \/ CallClose(t)
        PROVE  UNCHANGED <<closed, linkUp>>
    BY <1>1 DEF Acquire, RejectClosed, WaitBeforeWrite, TransportWrite, SettleSleep,
                TransportRead, Interrupt, CallClose, lockVars
  <1>2. ASSUME NEW t \in Threads, TransportWriteFails(t) \/ TransportReadFails(t)
        PROVE  pc[t] \in InBatch /\ Left(t) /\ UNCHANGED closed
    BY <1>2, FailLeft DEF TransportWriteFails, TransportReadFails, InBatch
  <1>3. ASSUME NEW t \in Threads, NEW commands \in Batches, Call(t, commands)
        PROVE  UNCHANGED <<closed, linkUp>>
    BY <1>3 DEF Call, lockVars
  <1>4. CASE Answer \/ Ignore \/ UNCHANGED vars
    BY <1>4 DEF Answer, Ignore, vars, lockVars
  <1> QED BY <1>1, <1>2, <1>3, <1>4 DEF Next, Step

\* Who may hold the lock after a step.
LEMMA NextHolder ==
  ASSUME Typed, LockOK, [Next]_vars, holder' # holder
  PROVE  holder' = NoThread \/ ~closed
  <1>1. CASE \E t \in Threads : Acquire(t)
    BY <1>1 DEF Acquire
  <1>2. ASSUME NEW t \in Threads, ~Acquire(t), Step(t) \/ Interrupt(t) \/ CallClose(t)
        PROVE  holder' \in {holder, NoThread}
    <2>1. CASE RejectClosed(t) \/ WaitBeforeWrite(t) \/ SettleSleep(t) \/ CallClose(t)
      BY <2>1 DEF RejectClosed, WaitBeforeWrite, SettleSleep, CallClose, lockVars
    <2>2. CASE TransportWrite(t)
      BY <2>2 DEF TransportWrite, Advance, Release
    <2>3. CASE TransportRead(t)
      BY <2>3 DEF TransportRead, Advance, Fail, Release
    <2>4. CASE TransportWriteFails(t) \/ TransportReadFails(t) \/ Interrupt(t) \/ Close(t)
      BY <2>4 DEF TransportWriteFails, TransportReadFails, Interrupt, Close, Fail, Release
    <2> QED BY <1>2, <2>1, <2>2, <2>3, <2>4 DEF Step
  <1>3. CASE \/ \E t \in Threads : \E commands \in Batches : Call(t, commands)
             \/ Answer \/ Ignore \/ UNCHANGED vars
    BY <1>3 DEF Call, Answer, Ignore, vars, lockVars
  <1> QED BY <1>1, <1>2, <1>3 DEF Next

LEMMA ClosedNext == ClosedInv /\ [Next]_vars => ClosedInv'
  <1> SUFFICES ASSUME ClosedInv, [Next]_vars PROVE ClosedInv'
    OBVIOUS
  <1> USE DEF ClosedInv
  <1>1. Typed' /\ LockOK'
    BY NextTyped, LockNext
  <1>2. CASE UNCHANGED <<closed, linkUp>>
    <2>1. holder' = holder \/ holder' = NoThread \/ ~closed
      BY NextHolder
    <2> QED BY <1>1, <1>2, <2>1 DEF ClosedOK
  <1>3. ASSUME NEW t \in Threads, Close(t) PROVE ClosedOK'
    BY <1>3 DEF Close, ClosedOK
  <1>4. ASSUME NEW t \in Threads, pc[t] \in InBatch, Left(t), UNCHANGED closed
        PROVE  ClosedOK'
    <2>1. holder = t /\ holder # NoThread
      BY <1>4, ThreadsAssumption DEF LockOK
    <2> QED BY <1>4, <2>1 DEF ClosedOK
  <1> QED BY <1>1, <1>2, <1>3, <1>4, NextClosed

LEMMA ClosedInit == Init => ClosedInv
  <1> SUFFICES ASSUME Init PROVE ClosedInv
    OBVIOUS
  <1>1. Typed /\ LockOK
    BY InitTyped, TurnsInit DEF TurnsInv
  <1> QED BY <1>1 DEF ClosedInv, ClosedOK, Init

(* close() waits for the batch that runs (execution.py: the lock of        *)
(* close()): the link goes down with the lock held only when the batch's   *)
(* own transport call failed, which ends the batch.                        *)
THEOREM CloseWaits == Spec => CloseWaitsForTheBatch
  <1> DEFINE Waits == linkUp /\ ~linkUp' /\ holder # NoThread
                        => pc'[holder] = "idle" /\ holder' = NoThread
  <1>1. ClosedInv /\ [Next]_vars => [Waits]_vars
    <2> SUFFICES ASSUME ClosedInv, [Next]_vars, linkUp, ~linkUp', holder # NoThread
                 PROVE  pc'[holder] = "idle" /\ holder' = NoThread
      OBVIOUS
    <2>1. PICK t \in Threads : pc[t] \in InBatch /\ Left(t)
      BY NextClosed DEF ClosedInv, Close
    <2>2. holder = t
      BY <2>1 DEF ClosedInv, LockOK
    <2> QED BY <2>1, <2>2 DEF Left, Release, ClosedInv, Typed, TypeOK, CallsTypeOK
  <1> QED BY <1>1, ClosedInit, ClosedNext, PTL DEF Spec, CloseWaitsForTheBatch

(* Nothing is written, and nothing is opened again, once close() has       *)
(* succeeded: also not by the calls that were waiting for the lock.        *)
THEOREM NothingWrittenAfterClose == Spec => NothingAfterClose
  <1> DEFINE Stays == closed => UNCHANGED wire /\ closed'
  <1>1. ClosedInv /\ [Next]_vars => [Stays]_vars
    <2> SUFFICES ASSUME ClosedInv, [Next]_vars, closed PROVE UNCHANGED wire /\ closed'
      OBVIOUS
    <2>1. closed'
      <3>1. ASSUME NEW t \in Threads, Close(t) PROVE closed'
        BY <3>1 DEF Close, ClosedInv, ClosedOK
      <3> QED BY <3>1, NextClosed DEF ClosedInv
    <2>2. \A t \in Threads : pc[t] # "write"
      BY ThreadsAssumption DEF ClosedInv, ClosedOK, LockOK, InBatch
    <2>3. UNCHANGED wire
      <3>1. ASSUME NEW t \in Threads, Phase(t) \/ Called(t) PROVE UNCHANGED wire
        BY <2>2, <3>1 DEF Phase, Called
      <3>2. CASE UNCHANGED controlVars
        BY <3>2 DEF controlVars
      <3> QED BY <3>1, <3>2, NextPhase DEF ClosedInv
    <2> QED BY <2>1, <2>3
  <1> QED BY <1>1, ClosedInit, ClosedNext, PTL DEF Spec, NothingAfterClose

-------------------------------------------------------------------------------
(* A batch that runs over a dead transport is at its first command, has no *)
(* value yet and has read nothing: the lock keeps every batch of before    *)
(* out, and a failed write ends the batch.                                 *)
DeadOK ==
  /\ \A t \in Threads : pc[t] \in {"idle", "closing", "acquire"} => index[t] = 1 /\ values[t] = <<>>
  /\ ~linkUp => \A t \in Threads : pc[t] \in InBatch =>
       pc[t] \in {"wait", "write"} /\ index[t] = 1 /\ values[t] = <<>>

DeadInv == Typed /\ LockOK /\ DeadOK

\* What becomes of the values and of the link where a thread is.
DeadMove(t) ==
  \/ /\ UNCHANGED <<linkUp, index, values>>
     /\ \/ pc[t] \in {"idle", "closing"} /\ pc' \in {[pc EXCEPT ![t] = to] : to \in {"idle", "closing", "acquire"}}
        \/ pc[t] = "acquire" /\ pc' = [pc EXCEPT ![t] = "wait"]
        \/ pc[t] = "wait" /\ pc' = [pc EXCEPT ![t] = "write"]
        \/ linkUp /\ pc[t] \in InBatch /\ \E to \in InBatch : pc' = [pc EXCEPT ![t] = to]
  \/ /\ pc[t] = "closing" /\ holder = NoThread /\ pc' = [pc EXCEPT ![t] = "idle"]
     /\ UNCHANGED <<index, values>>
  \/ /\ Inside(t) /\ Left(t) /\ values' = [values EXCEPT ![t] = <<>>]
     /\ linkUp' # linkUp => pc[t] \in InBatch
     /\ ~linkUp => ~linkUp'
  \/ /\ linkUp /\ pc[t] \in InBatch /\ Went(t) /\ UNCHANGED linkUp
     /\ \E v : values' = [values EXCEPT ![t] = v]

LEMMA DeadStep ==
  ASSUME Typed, DeadOK, NEW t \in Threads, Step(t) \/ Interrupt(t) \/ CallClose(t)
  PROVE  DeadMove(t)
  <1> USE DEF Typed, TypeOK, CallsTypeOK
  <1>1. CASE CallClose(t) \/ Acquire(t) \/ WaitBeforeWrite(t)
    BY <1>1 DEF CallClose, Acquire, WaitBeforeWrite, DeadMove, lockVars
  <1>2. CASE SettleSleep(t)
    <2>1. pc[t] = "settle" /\ pc' = [pc EXCEPT ![t] = "read"] /\ UNCHANGED <<linkUp, index, values>>
      BY <1>2 DEF SettleSleep, lockVars
    <2>2. linkUp
      BY <2>1 DEF DeadOK, InBatch
    <2> QED BY <2>1, <2>2 DEF DeadMove, InBatch
  <1>3. CASE Close(t)
    BY <1>3 DEF Close, DeadMove
  <1>4. ASSUME NEW kind, Fail(t, kind)
        PROVE  Left(t) /\ values' = [values EXCEPT ![t] = <<>>]
    BY <1>4, FailLeft DEF Fail, Leave
  <1>5. CASE RejectClosed(t)
    <2>1. Release(t)
      BY <1>5, ThreadsAssumption DEF RejectClosed, Release, lockVars
    <2> QED BY <1>5, <2>1, LeaveLeft DEF RejectClosed, DeadMove, Inside, Leave, lockVars
  <1>6. CASE TransportWriteFails(t) \/ TransportReadFails(t)
    <2>1. pc[t] \in InBatch /\ Left(t) /\ values' = [values EXCEPT ![t] = <<>>]
      BY <1>4, <1>6 DEF TransportWriteFails, TransportReadFails, InBatch
    <2>2. ~linkUp => ~linkUp'
      BY <1>6 DEF TransportWriteFails, TransportReadFails
    <2> QED BY <2>1, <2>2 DEF DeadMove, Inside, InBatch
  <1>7. CASE Interrupt(t)
    <2>1. Inside(t) /\ UNCHANGED linkUp
      BY <1>7 DEF Interrupt, Inside
    <2> QED BY <1>4, <1>7, <2>1 DEF Interrupt, DeadMove
  <1>8. ASSUME NEW v, Advance(t, v)
        PROVE  \/ Left(t) /\ values' = [values EXCEPT ![t] = <<>>]
               \/ Went(t) /\ values' = [values EXCEPT ![t] = Append(values[t], v)]
    <2>1. CASE index[t] = Len(batches[job[t]])
      <3>1. Leave(t, "result", 0, Append(values[t], v)) /\ Release(t)
        BY <1>8, <2>1 DEF Advance
      <3>2. Left(t)
        BY <3>1, LeaveLeft
      <3>3. values' = [values EXCEPT ![t] = <<>>]
        BY <3>1 DEF Leave
      <3> QED BY <3>2, <3>3
    <2>2. CASE index[t] # Len(batches[job[t]])
      BY <1>8, <2>2 DEF Advance, Went
    <2> QED BY <2>1, <2>2
  <1>9. CASE TransportWrite(t)
    <2>1. pc[t] \in InBatch /\ linkUp /\ UNCHANGED linkUp
      BY <1>9 DEF TransportWrite, InBatch
    <2>2. CASE CommandOf(t) = "query"
      <3>1. pc' = [pc EXCEPT ![t] = "settle"] /\ UNCHANGED <<index, values>>
        BY <1>9, <2>2 DEF TransportWrite
      <3> QED BY <2>1, <3>1 DEF DeadMove, InBatch
    <2>3. CASE CommandOf(t) # "query"
      <3>1. Advance(t, NoValue)
        BY <1>9, <2>3 DEF TransportWrite
      <3> QED BY <2>1, <3>1, <1>8 DEF DeadMove, Inside, InBatch
    <2> QED BY <2>2, <2>3
  <1>10. CASE TransportRead(t)
    <2>1. pc[t] = "read" /\ UNCHANGED linkUp
      BY <1>10 DEF TransportRead
    <2>2. pc[t] \in InBatch /\ linkUp /\ Inside(t)
      BY <2>1 DEF DeadOK, InBatch, Inside
    <2>3. (\E v : Advance(t, v)) \/ Fail(t, "protocol")
      BY <1>10 DEF TransportRead
    <2> QED BY <2>1, <2>2, <2>3, <1>4, <1>8 DEF DeadMove
  <1> QED BY <1>1, <1>2, <1>3, <1>5, <1>6, <1>7, <1>9, <1>10 DEF Step

LEMMA DeadNext == DeadInv /\ [Next]_vars => DeadInv'
  <1> SUFFICES ASSUME DeadInv, [Next]_vars PROVE DeadInv'
    OBVIOUS
  <1> USE DEF DeadInv
  <1>1. Typed' /\ LockOK'
    BY NextTyped, LockNext
  <1>t. /\ pc \in [Threads -> Locations] /\ index \in [Threads -> Nat \ {0}]
        /\ values \in [Threads -> Seq(Values)]
    BY DEF Typed, TypeOK, CallsTypeOK
  <1>2. ASSUME UNCHANGED <<pc, index, values, linkUp>> PROVE DeadOK'
    <2>1. pc' = pc /\ index' = index /\ values' = values /\ (linkUp' <=> linkUp)
      BY <1>2
    <2> QED BY <2>1 DEF DeadOK
  <1>3. ASSUME NEW t \in Threads, NEW commands \in Batches, Call(t, commands)
        PROVE  DeadOK'
    <2>1. pc[t] = "idle" /\ pc' = [pc EXCEPT ![t] = "acquire"] /\ UNCHANGED <<index, values, linkUp>>
      BY <1>3 DEF Call, lockVars
    <2> QED BY <1>t, <2>1 DEF DeadOK, InBatch
  <1>4. ASSUME NEW t \in Threads, DeadMove(t)
        PROVE  DeadOK'
    <2>1. CASE /\ UNCHANGED <<linkUp, index, values>>
               /\ pc[t] \in {"idle", "closing"}
               /\ pc' \in {[pc EXCEPT ![t] = to] : to \in {"idle", "closing", "acquire"}}
      BY <1>t, <2>1 DEF DeadOK, InBatch
    <2>2. CASE /\ UNCHANGED <<linkUp, index, values>>
               /\ pc[t] = "acquire" /\ pc' = [pc EXCEPT ![t] = "wait"]
      BY <1>t, <2>2 DEF DeadOK, InBatch
    <2>3. CASE /\ UNCHANGED <<linkUp, index, values>>
               /\ pc[t] = "wait" /\ pc' = [pc EXCEPT ![t] = "write"]
      BY <1>t, <2>3 DEF DeadOK, InBatch
    <2>4. CASE /\ UNCHANGED <<linkUp, index, values>>
               /\ linkUp /\ pc[t] \in InBatch /\ \E to \in InBatch : pc' = [pc EXCEPT ![t] = to]
      BY <1>t, <2>4 DEF DeadOK, InBatch
    <2>5. CASE /\ pc[t] = "closing" /\ holder = NoThread /\ pc' = [pc EXCEPT ![t] = "idle"]
               /\ UNCHANGED <<index, values>>
      <3>1. \A u \in Threads : pc[u] \notin InBatch
        BY <2>5, ThreadsAssumption DEF LockOK
      <3>2. \A u \in Threads : pc'[u] \notin InBatch
        BY <1>t, <2>5, <3>1 DEF InBatch
      <3> QED BY <1>t, <2>5, <3>2 DEF DeadOK
    <2>6. CASE /\ Inside(t) /\ Left(t) /\ values' = [values EXCEPT ![t] = <<>>]
               /\ linkUp' # linkUp => pc[t] \in InBatch
               /\ ~linkUp => ~linkUp'
      <3>1. pc' = [pc EXCEPT ![t] = "idle"] /\ index' = [index EXCEPT ![t] = 1]
        BY <2>6 DEF Left
      <3>2. ~linkUp' => \A u \in Threads \ {t} : pc[u] \in InBatch =>
              pc[u] \in {"wait", "write"} /\ index[u] = 1 /\ values[u] = <<>>
        <4>1. CASE linkUp' = linkUp
          BY <4>1 DEF DeadOK
        <4>2. CASE linkUp' # linkUp
          BY <2>6, <4>2, ThreadsAssumption DEF LockOK
        <4> QED BY <4>1, <4>2
      <3> QED BY <1>t, <2>6, <3>1, <3>2 DEF DeadOK, InBatch
    <2>7. CASE /\ linkUp /\ pc[t] \in InBatch /\ Went(t) /\ UNCHANGED linkUp
               /\ \E v : values' = [values EXCEPT ![t] = v]
      BY <1>t, <2>7 DEF DeadOK, Went, InBatch
    <2> QED BY <1>4, <2>1, <2>2, <2>3, <2>4, <2>5, <2>6, <2>7 DEF DeadMove
  <1>5. CASE Answer \/ Ignore \/ UNCHANGED vars
    BY <1>2, <1>5, <1>1 DEF Answer, Ignore, vars, callVars, lockVars
  <1> QED BY <1>1, <1>3, <1>4, <1>5, DeadStep DEF Next

LEMMA DeadInit == Init => DeadInv
  <1> SUFFICES ASSUME Init PROVE DeadInv
    OBVIOUS
  <1>1. Typed /\ LockOK
    BY InitTyped, TurnsInit DEF TurnsInv
  <1> QED BY <1>1 DEF DeadInv, DeadOK, Init

(* From a transport that is broken or shut, whether close() has succeeded  *)
(* or raised, no call of any thread gets a value, an old answer or an      *)
(* error that blames another command than its first, and nothing more is   *)
(* delivered.                                                              *)
THEOREM NothingFromTheDead == Spec => NothingFromAShutTransport
  <1> DEFINE Ends == ~linkUp =>
               /\ ~linkUp'
               /\ \A b \in DOMAIN outcome : outcome'[b] # outcome[b] =>
                    /\ outcome'[b].kind \in {"closed", "connection", "interrupt"}
                    /\ outcome'[b].index \in {0, 1} /\ outcome'[b].values = <<>>
               /\ wire' # wire => LET last == wire'[Len(wire')] IN
                    ~last.delivered /\ last.id[2] = 1
  <1>1. DeadInv /\ [Next]_vars => [Ends]_vars
    <2> SUFFICES ASSUME DeadInv, [Next]_vars, ~linkUp PROVE Ends
      OBVIOUS
    <2> HIDE DEF Ends
    <2>t. /\ index \in [Threads -> Nat \ {0}] /\ outcome \in Seq(Outcomes) /\ wire \in Seq(Attempts)
      BY DEF DeadInv, Typed, TypeOK, CallsTypeOK, WireTypeOK
    <2>1. ASSUME NEW t \in Threads, NEW kind \in {"closed", "connection", "interrupt"},
                 NEW i \in {0, 1}, Leave(t, kind, i, <<>>), ~linkUp',
                 wire' # wire => LET last == wire'[Len(wire')] IN ~last.delivered /\ last.id[2] = 1
          PROVE  Ends
      <3>1. outcome' = [outcome EXCEPT ![job[t]] = [kind |-> kind, index |-> i, values |-> <<>>]]
        BY <2>1 DEF Leave
      <3>2. \A b \in DOMAIN outcome : outcome'[b] # outcome[b] =>
              outcome'[b] = [kind |-> kind, index |-> i, values |-> <<>>]
        BY <3>1
      <3> QED BY <2>1, <3>2 DEF Ends
    <2>2. ASSUME UNCHANGED <<outcome, wire>>, ~linkUp' PROVE Ends
      BY <2>2 DEF Ends
    <2>3. ASSUME NEW t \in Threads, NEW kind \in {"connection", "interrupt"}, Fail(t, kind),
                 pc[t] \in {"acquire", "wait", "write"}
          PROVE  \E i \in {0, 1} : Leave(t, kind, i, <<>>)
      BY <2>3 DEF Fail, DeadInv, DeadOK, InBatch
    <2>4. ASSUME NEW t \in Threads, Step(t) \/ Interrupt(t) \/ CallClose(t)
          PROVE  Ends
      <3>1. pc[t] \notin {"settle", "read"}
        BY DEF DeadInv, DeadOK, InBatch
      <3>2. CASE CallClose(t) \/ Acquire(t) \/ WaitBeforeWrite(t) \/ Close(t)
        BY <2>2, <3>2 DEF CallClose, Acquire, WaitBeforeWrite, Close, lockVars
      <3>3. CASE RejectClosed(t)
        <4>1. Leave(t, "closed", 0, <<>>) /\ UNCHANGED <<linkUp, wire>>
          BY <3>3 DEF RejectClosed, lockVars
        <4> QED BY <2>1, <4>1
      <3>4. CASE Interrupt(t)
        <4>1. UNCHANGED <<linkUp, wire>> /\ Fail(t, "interrupt") /\ pc[t] \in {"acquire", "wait", "write"}
          BY <3>1, <3>4 DEF Interrupt
        <4> QED BY <2>1, <2>3, <4>1
      <3>5. CASE TransportWriteFails(t)
        <4>1. PICK kind \in {"connection", "interrupt"}, d \in Delays :
                Record(t, d, FALSE, FALSE) /\ Fail(t, kind) /\ ~linkUp'
          BY <3>5 DEF TransportWriteFails
        <4>2. pc[t] = "write" /\ index[t] = 1
          BY <3>5 DEF TransportWriteFails, DeadInv, DeadOK, InBatch
        <4>3. ~wire'[Len(wire')].delivered /\ wire'[Len(wire')].id[2] = 1
          <5> DEFINE e == [id |-> IdOf(t), start |-> now, end |-> now + d, delivered |-> FALSE,
                           ok |-> FALSE, interval |-> interval]
          <5>1. wire' = Append(wire, e)
            BY <4>1 DEF Record
          <5>2. ~e.delivered /\ e.id[2] = 1
            BY <4>2 DEF IdOf
          <5> HIDE DEF e
          <5> QED BY <2>t, <5>1, <5>2
        <4> QED BY <2>1, <2>3, <4>1, <4>2, <4>3
      <3>6. CASE TransportWrite(t) \/ SettleSleep(t) \/ TransportRead(t) \/ TransportReadFails(t)
        BY <3>1, <3>6 DEF TransportWrite, SettleSleep, TransportRead, TransportReadFails
      <3> QED BY <2>4, <3>2, <3>3, <3>4, <3>5, <3>6 DEF Step
    <2>5. ASSUME NEW t \in Threads, NEW commands \in Batches, Call(t, commands)
          PROVE  Ends
      <3>1. outcome' = Append(outcome, Pending) /\ UNCHANGED <<linkUp, wire>>
        BY <2>5 DEF Call, lockVars
      <3>2. \A b \in DOMAIN outcome : outcome'[b] = outcome[b]
        BY <2>t, <3>1, AppendProperties, LenProperties
      <3> QED BY <3>1, <3>2 DEF Ends
    <2>6. CASE Answer \/ Ignore \/ UNCHANGED vars
      BY <2>2, <2>6 DEF Answer, Ignore, vars, callVars, lockVars
    <2> QED BY <2>4, <2>5, <2>6 DEF Next
  <1> QED BY <1>1, DeadInit, DeadNext, PTL DEF Spec, NothingFromAShutTransport

-------------------------------------------------------------------------------
(* What a sequence w of attempts says of batch b: commands 1 to m, and no  *)
(* others, were attempted; those before the m-th succeeded.                *)
SentUpTo(w, b, m) ==
  /\ \A k \in DOMAIN w : w[k].id[1] = b => w[k].id[2] \in 1..m
  /\ \A i \in 1..m : \E k \in DOMAIN w : w[k].id[1] = b /\ w[k].id[2] = i
OkBelow(w, b, m) ==
  \A k \in DOMAIN w : w[k].id[1] = b /\ w[k].id[2] < m => w[k].ok

\* The values tell the first n commands apart: None exactly at the writes.
ValuesTell(commands, vals, n) ==
  /\ Len(vals) = n
  /\ \A i \in 1..n : (vals[i] = NoValue) <=> (commands[i] = "write")

\* The outcome o of batch b tells what is on the wire.
Tells(w, commands, o, b) ==
  /\ o.kind = "closed" => SentUpTo(w, b, 0)
  /\ o.kind = "result" => /\ SentUpTo(w, b, Len(commands))
                          /\ OkBelow(w, b, Len(commands) + 1)
                          /\ ValuesTell(commands, o.values, Len(commands))
  /\ o.index > 0 => /\ SentUpTo(w, b, o.index)
                    /\ OkBelow(w, b, o.index)
                    /\ Len(o.values) = o.index - 1

\* A thread at command i of its batch, which has tried n of its commands.
Progress(w, commands, vals, b, i, n) ==
  /\ i <= Len(commands)
  /\ ValuesTell(commands, vals, i - 1)
  /\ SentUpTo(w, b, n)
  /\ OkBelow(w, b, i + 1)

Tried(t) == IF pc[t] \in {"settle", "read"} THEN index[t] ELSE index[t] - 1

ThreadTells(t) ==
  /\ ~Inside(t) => values[t] = <<>>
  /\ Inside(t) =>
       /\ outcome[job[t]] = Pending
       /\ Progress(wire, batches[job[t]], values[t], job[t], index[t], Tried(t))
       /\ pc[t] \in {"settle", "read"} => batches[job[t]][index[t]] = "query"

OutcomesTell ==
  /\ Len(outcome) = Len(batches)
  /\ \A t \in Threads : ThreadTells(t)
  /\ \A b \in DOMAIN outcome : Tells(wire, batches[b], outcome[b], b)

OutcomeInv == TurnsInv /\ OutcomesTell

-------------------------------------------------------------------------------
(* A further value and a further attempt.                                  *)
LEMMA ValuesGrow ==
  ASSUME NEW vals \in Seq(Values), NEW v \in Values, NEW commands, NEW i \in Nat \ {0},
         ValuesTell(commands, vals, i - 1), (v = NoValue) <=> (commands[i] = "write")
  PROVE  ValuesTell(commands, Append(vals, v), i)
  <1>1. /\ Len(Append(vals, v)) = Len(vals) + 1
        /\ \A j \in 1..Len(vals) : Append(vals, v)[j] = vals[j]
        /\ Append(vals, v)[Len(vals) + 1] = v
    BY AppendProperties
  <1>2. Len(vals) = i - 1
    BY DEF ValuesTell
  <1>3. ASSUME NEW j \in 1..i
        PROVE  (Append(vals, v)[j] = NoValue) <=> (commands[j] = "write")
    <2>1. CASE j = i
      <3>1. Append(vals, v)[j] = v
        BY <1>1, <1>2, <2>1
      <3> QED BY <2>1, <3>1
    <2>2. CASE j # i
      <3>1. j \in 1..(i - 1)
        BY <2>2
      <3>2. Append(vals, v)[j] = vals[j]
        BY <1>1, <1>2, <3>1
      <3> QED BY <3>1, <3>2 DEF ValuesTell
    <2> QED BY <2>1, <2>2
  <1>4. Len(Append(vals, v)) = i
    BY <1>1, <1>2
  <1> QED BY <1>3, <1>4 DEF ValuesTell

\* An attempt of t says nothing of the other batches ...
LEMMA OtherBatch ==
  ASSUME Typed, NEW t, UNCHANGED wire \/ Sent(t), NEW b, b # job[t], NEW m
  PROVE  /\ SentUpTo(wire, b, m) => SentUpTo(wire', b, m)
         /\ OkBelow(wire, b, m) => OkBelow(wire', b, m)
  <1>1. CASE UNCHANGED wire
    BY <1>1
  <1>2. CASE Sent(t)
    <2>1. /\ DOMAIN wire = 1..Len(wire) /\ DOMAIN wire' = 1..(Len(wire) + 1)
          /\ Len(wire) \in Nat
          /\ \A k \in DOMAIN wire : wire'[k] = wire[k]
          /\ wire'[Len(wire) + 1].id[1] = job[t]
      BY <1>2, SentWire DEF IdOf
    <2>2. \A k \in DOMAIN wire' : wire'[k].id[1] = b => k \in DOMAIN wire
      BY <2>1
    <2>3. \A k \in DOMAIN wire : k \in DOMAIN wire'
      BY <2>1
    <2> QED BY <2>1, <2>2, <2>3 DEF SentUpTo, OkBelow
  <1> QED BY <1>1, <1>2

\* ... and is the next one of its own.
LEMMA OwnBatch ==
  ASSUME Typed, NEW t \in Threads, pc[t] \in InBatch, NEW d \in Delays,
         NEW delivered \in BOOLEAN, NEW ok \in BOOLEAN, Record(t, d, delivered, ok),
         NEW b, b = job[t], NEW i \in Nat \ {0}, i = index[t],
         SentUpTo(wire, b, i - 1), OkBelow(wire, b, i + 1)
  PROVE  /\ SentUpTo(wire', b, i)
         /\ OkBelow(wire', b, i)
         /\ ok => OkBelow(wire', b, i + 1)
  <1>1. Sent(t)
    BY RecordSends
  <1> DEFINE n == Len(wire) + 1
  <1>2. /\ DOMAIN wire = 1..(n - 1) /\ DOMAIN wire' = 1..n /\ n \in Nat \ {0}
        /\ \A k \in DOMAIN wire : wire'[k] = wire[k]
        /\ wire'[n].id = <<b, i>>
    BY <1>1, SentWire DEF IdOf
  <1>3. wire'[n].ok = ok
    BY RecordWire
  <1> HIDE DEF n
  <1>4. \A k \in DOMAIN wire' : k \in DOMAIN wire \/ k = n
    BY <1>2
  <1>5. \A k \in DOMAIN wire : wire[k].id[1] = b => wire[k].id[2] \in 1..(i - 1)
    BY DEF SentUpTo
  <1>6. \A k \in DOMAIN wire : wire[k].id[1] = b => wire[k].ok
    BY <1>5 DEF OkBelow
  <1>7. SentUpTo(wire', b, i)
    <2>1. ASSUME NEW k \in DOMAIN wire', wire'[k].id[1] = b PROVE wire'[k].id[2] \in 1..i
      <3>1. CASE k \in DOMAIN wire
        BY <1>2, <1>5, <2>1, <3>1
      <3>2. CASE k = n
        BY <1>2, <3>2
      <3> QED BY <1>4, <3>1, <3>2
    <2>2. ASSUME NEW j \in 1..i
          PROVE  \E k \in DOMAIN wire' : wire'[k].id[1] = b /\ wire'[k].id[2] = j
      <3>1. CASE j = i
        BY <1>2, <3>1
      <3>2. CASE j # i
        <4>1. PICK k \in DOMAIN wire : wire[k].id[1] = b /\ wire[k].id[2] = j
          BY <3>2 DEF SentUpTo
        <4> QED BY <1>2, <4>1
      <3> QED BY <3>1, <3>2
    <2> QED BY <2>1, <2>2 DEF SentUpTo
  <1>8. OkBelow(wire', b, i)
    BY <1>2, <1>4, <1>6 DEF OkBelow
  <1>9. ok => OkBelow(wire', b, i + 1)
    BY <1>2, <1>3, <1>4, <1>6 DEF OkBelow
  <1> QED BY <1>7, <1>8, <1>9

\* All attempts of a batch being among the first i, they are all below i + 2.
LEMMA AllOk ==
  ASSUME NEW w, NEW b, NEW i \in Nat, SentUpTo(w, b, i), OkBelow(w, b, i + 1)
  PROVE  OkBelow(w, b, i + 2)
  BY DEF SentUpTo, OkBelow

-------------------------------------------------------------------------------
(* What a step of t leaves alone.                                          *)
Elsewhere(t) ==
  /\ UNCHANGED wire \/ Sent(t)
  /\ UNCHANGED batches
  /\ \A u \in Threads \ {t} : /\ pc'[u] = pc[u] /\ job'[u] = job[u]
                              /\ index'[u] = index[u] /\ values'[u] = values[u]
  /\ Len(outcome') = Len(outcome) /\ DOMAIN outcome' = DOMAIN outcome
  /\ \A b \in DOMAIN outcome : b # job[t] => outcome'[b] = outcome[b]

\* The batch of a thread is one of those submitted, and has commands.
LEMMA JobTyped ==
  ASSUME OutcomeInv, NEW t \in Threads, Inside(t)
  PROVE  /\ job[t] \in DOMAIN outcome /\ job[t] \in 1..Len(batches)
         /\ batches[job[t]] \in Batches
         /\ Len(batches[job[t]]) \in Nat \ {0}
         /\ index[t] \in Nat \ {0} /\ values[t] \in Seq(Values)
  <1>1. CallsTypeOK /\ JobsOK
    BY DEF OutcomeInv, TurnsInv, Typed, TypeOK
  <1>2. job[t] \in 1..Len(batches) /\ job[t] \in DOMAIN outcome
    BY <1>1, LenProperties DEF JobsOK, Inside, OutcomeInv, OutcomesTell, CallsTypeOK
  <1>3. batches[job[t]] \in Batches
    BY <1>1, <1>2, ElementOfSeq DEF CallsTypeOK
  <1>4. Len(batches[job[t]]) \in Nat \ {0}
    BY <1>3, BatchesAssumption, EmptySeq
  <1> QED BY <1>1, <1>2, <1>3, <1>4 DEF CallsTypeOK

LEMMA ElsewhereTells ==
  ASSUME OutcomeInv, NEW t \in Threads, Inside(t), Elsewhere(t),
         ThreadTells(t)', Tells(wire', batches[job[t]], outcome'[job[t]], job[t])
  PROVE  OutcomesTell'
  <1>1. Typed /\ CalledOnce /\ OutcomesTell
    BY DEF OutcomeInv, TurnsInv
  <1>2. ASSUME NEW u \in Threads, u # t PROVE ThreadTells(u)'
    <2>1. ThreadTells(u) /\ Inside(u)' = Inside(u)
      BY <1>1, <1>2 DEF OutcomesTell, Elsewhere, Inside
    <2>2. CASE ~Inside(u)
      BY <1>2, <2>1, <2>2 DEF ThreadTells, Elsewhere
    <2>3. CASE Inside(u)
      <3>1. job[u] # job[t] /\ job[u] \in DOMAIN outcome
        BY <1>1, <1>2, <2>3, JobTyped DEF CalledOnce
      <3>2. /\ outcome'[job'[u]] = Pending
            /\ Tried(u)' = Tried(u)
        BY <1>2, <2>1, <2>3, <3>1 DEF Elsewhere, ThreadTells, Tried
      <3>3. Progress(wire, batches[job[u]], values[u], job[u], index[u], Tried(u))
        BY <2>1, <2>3 DEF ThreadTells
      <3>4. Progress(wire', batches[job[u]], values[u], job[u], index[u], Tried(u))
        BY <1>1, <3>1, <3>3, OtherBatch DEF Progress, Elsewhere
      <3> QED BY <1>2, <2>1, <2>3, <3>2, <3>4 DEF Elsewhere, ThreadTells
    <2> QED BY <2>2, <2>3
  <1>3. ASSUME NEW b \in DOMAIN outcome, b # job[t]
        PROVE  Tells(wire', batches'[b], outcome'[b], b)
    <2>1. Tells(wire, batches[b], outcome[b], b)
      BY <1>1 DEF OutcomesTell
    <2>2. Tells(wire', batches[b], outcome[b], b)
      BY <1>1, <1>3, <2>1, OtherBatch DEF Tells, Elsewhere
    <2> QED BY <1>3, <2>2 DEF Elsewhere
  <1>4. \A u \in Threads : ThreadTells(u)'
    BY <1>2
  <1>5. \A b \in DOMAIN outcome' : Tells(wire', batches'[b], outcome'[b], b)
    BY <1>3 DEF Elsewhere
  <1>6. Len(outcome') = Len(batches')
    BY <1>1 DEF Elsewhere, OutcomesTell
  <1> QED BY <1>4, <1>5, <1>6 DEF OutcomesTell

-------------------------------------------------------------------------------
(* The ways in which a call goes on or ends.                               *)

\* The values w of t's call stay with it or become those of its outcome.
Carries(t, w) ==
  \/ Inside(t)' /\ job'[t] = job[t] /\ values'[t] = w /\ UNCHANGED outcome
  \/ pc'[t] = "idle" /\ outcome'[job[t]].values = w

\* The call ends: its values are those of its outcome.
LEMMA LeaveElsewhere ==
  ASSUME OutcomeInv, NEW t \in Threads, Inside(t), UNCHANGED wire \/ Sent(t),
         NEW kind, NEW i, NEW vals, Leave(t, kind, i, vals)
  PROVE  /\ Elsewhere(t)
         /\ outcome'[job[t]] = [kind |-> kind, index |-> i, values |-> vals]
         /\ pc'[t] = "idle" /\ values'[t] = <<>>
         /\ Carries(t, vals)
  <1> DEFINE o == [kind |-> kind, index |-> i, values |-> vals]
  <1>1. CallsTypeOK
    BY DEF OutcomeInv, TurnsInv, Typed, TypeOK
  <1>2. outcome' = [outcome EXCEPT ![job[t]] = o]
    BY DEF Leave
  <1>3. outcome'[job[t]] = o
    BY <1>2, JobTyped
  <1>4. Len(outcome') = Len(outcome) /\ DOMAIN outcome' = DOMAIN outcome
    <2>1. o \in {o} \cup Outcomes /\ outcome \in Seq({o} \cup Outcomes)
      BY <1>1, SeqMonotonic DEF CallsTypeOK
    <2>2. job[t] \in 1..Len(outcome)
      BY <1>1, JobTyped, LenProperties DEF CallsTypeOK
    <2> HIDE DEF o
    <2> QED BY <1>2, <2>1, <2>2, ExceptSeq
  <1>5. pc'[t] = "idle" /\ values'[t] = <<>>
    BY <1>1 DEF Leave, CallsTypeOK
  <1>6. Carries(t, vals)
    BY <1>3, <1>5 DEF Carries
  <1>7. outcome'[job[t]] = [kind |-> kind, index |-> i, values |-> vals]
    BY <1>3
  <1> HIDE DEF o
  <1>8. Elsewhere(t)
    BY <1>1, <1>2, <1>4 DEF Leave, Elsewhere, CallsTypeOK
  <1> QED BY <1>5, <1>6, <1>7, <1>8

\* The call ends with an outcome that tells what is on the wire.
LEMMA EndTells ==
  ASSUME OutcomeInv, NEW t \in Threads, Inside(t), UNCHANGED wire \/ Sent(t),
         NEW kind, NEW i, NEW vals, Leave(t, kind, i, vals),
         Tells(wire', batches[job[t]], [kind |-> kind, index |-> i, values |-> vals], job[t])
  PROVE  OutcomesTell'
  <1>1. /\ Elsewhere(t)
        /\ outcome'[job[t]] = [kind |-> kind, index |-> i, values |-> vals]
        /\ pc'[t] = "idle" /\ values'[t] = <<>>
    BY LeaveElsewhere
  <1>2. ThreadTells(t)'
    BY <1>1 DEF ThreadTells, Inside
  <1>3. Tells(wire', batches[job[t]], outcome'[job[t]], job[t])
    BY <1>1
  <1> QED BY <1>1, <1>2, <1>3, ElsewhereTells

\* The batch of a call that goes on is still pending.
LEMMA StayTells ==
  ASSUME OutcomeInv, NEW t \in Threads, Inside(t), UNCHANGED wire \/ Sent(t),
         UNCHANGED <<outcome, batches, job>>, ThreadTells(t)',
         \A u \in Threads \ {t} : /\ pc'[u] = pc[u] /\ index'[u] = index[u]
                                  /\ values'[u] = values[u]
  PROVE  OutcomesTell'
  <1>1. Elsewhere(t)
    BY DEF Elsewhere
  <1>2. outcome[job[t]] = Pending
    BY DEF OutcomeInv, OutcomesTell, ThreadTells
  <1>3. Tells(wire', batches[job[t]], outcome'[job[t]], job[t])
    BY <1>2 DEF Tells, Pending
  <1> QED BY <1>1, <1>3, ElsewhereTells

\* What a thread inside execute() has done so far.
LEMMA SoFar ==
  ASSUME OutcomeInv, NEW t \in Threads, Inside(t)
  PROVE  /\ outcome[job[t]] = Pending
         /\ index[t] <= Len(batches[job[t]])
         /\ ValuesTell(batches[job[t]], values[t], index[t] - 1)
         /\ SentUpTo(wire, job[t], Tried(t))
         /\ OkBelow(wire, job[t], index[t] + 1)
         /\ pc[t] \in {"settle", "read"} => batches[job[t]][index[t]] = "query"
  BY DEF OutcomeInv, OutcomesTell, ThreadTells, Progress

\* A command is done: its value tells what it was.
LEMMA AdvanceTells ==
  ASSUME OutcomeInv, NEW t \in Threads, pc[t] \in InBatch, UNCHANGED wire \/ Sent(t),
         NEW v \in Values, (v = NoValue) <=> (batches[job[t]][index[t]] = "write"),
         SentUpTo(wire', job[t], index[t]), OkBelow(wire', job[t], index[t] + 1),
         Advance(t, v)
  PROVE  OutcomesTell'
  <1> DEFINE vals == Append(values[t], v)
  <1>1. Inside(t) /\ CallsTypeOK
    BY DEF Inside, InBatch, OutcomeInv, TurnsInv, Typed, TypeOK
  <1>2. /\ index[t] \in Nat \ {0} /\ values[t] \in Seq(Values)
        /\ Len(batches[job[t]]) \in Nat /\ index[t] <= Len(batches[job[t]])
    BY <1>1, JobTyped, SoFar
  <1>3. ValuesTell(batches[job[t]], vals, index[t])
    BY <1>1, <1>2, SoFar, ValuesGrow
  <1>4. CASE index[t] = Len(batches[job[t]])
    <2>1. Leave(t, "result", 0, vals)
      BY <1>4 DEF Advance
    <2>2. Tells(wire', batches[job[t]],
                [kind |-> "result", index |-> 0, values |-> vals], job[t])
      BY <1>3, <1>4 DEF Tells
    <2> QED BY <1>1, <2>1, <2>2, EndTells
  <1>5. CASE index[t] # Len(batches[job[t]])
    <2>1. /\ values'[t] = vals /\ index'[t] = index[t] + 1 /\ pc'[t] = "wait"
          /\ UNCHANGED <<outcome, batches, job>>
          /\ \A u \in Threads \ {t} : /\ pc'[u] = pc[u] /\ index'[u] = index[u]
                                      /\ values'[u] = values[u]
      BY <1>1, <1>5 DEF Advance, CallsTypeOK
    <2>2. OkBelow(wire', job[t], index[t] + 2)
      BY <1>2, AllOk
    <2>3. /\ index'[t] <= Len(batches[job[t]])
          /\ index'[t] - 1 = index[t] /\ index'[t] + 1 = index[t] + 2
      BY <1>2, <1>5, <2>1
    <2>4. Tried(t)' = index[t]
      BY <2>1, <2>3 DEF Tried
    <2> HIDE DEF vals
    <2>5. /\ ValuesTell(batches'[job'[t]], values'[t], index'[t] - 1)
          /\ SentUpTo(wire', job'[t], Tried(t)')
          /\ OkBelow(wire', job'[t], index'[t] + 1)
      BY <1>3, <2>1, <2>2, <2>3, <2>4
    <2>6. Progress(wire, batches[job[t]], values[t], job[t], index[t], Tried(t))'
      BY <2>1, <2>3, <2>5 DEF Progress
    <2>7. outcome[job[t]] = Pending
      BY <1>1, SoFar
    <2>8. ThreadTells(t)'
      BY <2>1, <2>6, <2>7 DEF ThreadTells, Inside
    <2> QED BY <1>1, <2>1, <2>8, StayTells
  <1> QED BY <1>4, <1>5

\* A call that fails: its index is that of the last command attempted, or
\* none for a KeyboardInterrupt.
LEMMA FailTells ==
  ASSUME OutcomeInv, NEW t \in Threads, Inside(t), UNCHANGED wire \/ Sent(t),
         NEW kind, kind \notin {"closed", "result"}, Fail(t, kind),
         kind # "interrupt" => SentUpTo(wire', job[t], index[t])
                               /\ OkBelow(wire', job[t], index[t])
  PROVE  OutcomesTell'
  <1> DEFINE i == IF kind = "interrupt" THEN 0 ELSE index[t]
  <1>1. Len(values[t]) = index[t] - 1
    BY SoFar DEF ValuesTell
  <1>2. Leave(t, kind, i, values[t])
    BY DEF Fail
  <1>3. Tells(wire', batches[job[t]],
              [kind |-> kind, index |-> i, values |-> values[t]], job[t])
    BY <1>1 DEF Tells
  <1> HIDE DEF i
  <1> QED BY <1>2, <1>3, EndTells

\* A call that only goes to another place of the same command.
LEMMA MoveTells ==
  ASSUME OutcomeInv, NEW t \in Threads, Inside(t), UNCHANGED wire \/ Sent(t),
         NEW to \in InBatch, Moved(t, to), UNCHANGED <<outcome, values>>,
         NEW n, n = IF to \in {"settle", "read"} THEN index[t] ELSE index[t] - 1,
         SentUpTo(wire', job[t], n), OkBelow(wire', job[t], index[t] + 1),
         to \in {"settle", "read"} => batches[job[t]][index[t]] = "query"
  PROVE  OutcomesTell'
  <1>1. CallsTypeOK
    BY DEF OutcomeInv, TurnsInv, Typed, TypeOK
  <1>2. /\ pc'[t] = to /\ UNCHANGED <<outcome, batches, job, index, values>>
        /\ \A u \in Threads \ {t} : pc'[u] = pc[u]
    BY <1>1 DEF Moved, CallsTypeOK
  <1>3. Tried(t)' = n
    BY <1>2 DEF Tried
  <1>4. Progress(wire, batches[job[t]], values[t], job[t], index[t], Tried(t))'
    BY <1>2, <1>3, SoFar DEF Progress
  <1>5. ThreadTells(t)'
    BY <1>2, <1>4, SoFar DEF ThreadTells, Inside, InBatch
  <1> QED BY <1>2, <1>5, StayTells

-------------------------------------------------------------------------------
(* Every action keeps the outcomes telling.                                *)
LEMMA CallTells ==
  ASSUME OutcomeInv, NEW t \in Threads, NEW commands \in Batches, Call(t, commands)
  PROVE  OutcomesTell'
  <1> DEFINE n == Len(batches) + 1
  <1>1. CallsTypeOK /\ WireOK /\ OutcomesTell /\ JobsOK /\ PositionOK
    BY DEF OutcomeInv, TurnsInv, Typed, TypeOK
  <1>2. Len(outcome) = Len(batches) /\ Len(batches) \in Nat
    BY <1>1, LenProperties DEF OutcomesTell, CallsTypeOK
  <1>3. /\ Len(batches') = n /\ batches'[n] = commands
        /\ \A b \in 1..Len(batches) : batches'[b] = batches[b]
    BY <1>1, AppendProperties DEF Call, CallsTypeOK
  <1>4. /\ outcome' = Append(outcome, Pending) /\ outcome' \in Seq(Outcomes)
        /\ Len(outcome') = n /\ outcome'[n] = Pending
        /\ \A b \in 1..Len(batches) : outcome'[b] = outcome[b]
    <2>1. Pending \in Outcomes
      BY EmptySeq DEF Pending, Outcomes
    <2> QED BY <1>1, <1>2, <2>1, AppendProperties DEF Call, CallsTypeOK
  <1>5. DOMAIN outcome = 1..Len(batches) /\ DOMAIN outcome' = 1..n
    BY <1>1, <1>2, <1>4, LenProperties DEF CallsTypeOK
  <1> HIDE DEF n
  <1>6. n = Len(batches) + 1
    BY DEF n
  <1>7. UNCHANGED <<wire, values, index>> /\ ~Inside(t)
    BY DEF Call, Inside
  <1>8. ASSUME NEW u \in Threads, u # t PROVE ThreadTells(u)'
    <2>1. pc'[u] = pc[u] /\ job'[u] = job[u]
      BY <1>1, <1>8 DEF Call, CallsTypeOK
    <2>2. ThreadTells(u) /\ Inside(u)' = Inside(u)
      BY <1>1, <2>1 DEF OutcomesTell, Inside
    <2>3. CASE ~Inside(u)
      BY <1>7, <2>2, <2>3 DEF ThreadTells
    <2>4. CASE Inside(u)
      <3>1. job[u] \in 1..Len(batches)
        BY <2>4, JobTyped
      <3>2. /\ outcome'[job'[u]] = outcome[job[u]]
            /\ batches'[job'[u]] = batches[job[u]]
        <4>1. outcome'[job[u]] = outcome[job[u]]
          BY <1>4, <3>1
        <4>2. batches'[job[u]] = batches[job[u]]
          BY <1>3, <3>1
        <4> QED BY <2>1, <4>1, <4>2
      <3>t. Tried(u)' = Tried(u)
        BY <1>7, <2>1 DEF Tried
      <3>3. Progress(wire, batches[job[u]], values[u], job[u], index[u], Tried(u))'
        BY <1>7, <2>1, <2>2, <2>4, <3>2, <3>t DEF ThreadTells
      <3> QED BY <1>7, <2>1, <2>2, <2>4, <3>2, <3>3 DEF ThreadTells
    <2> QED BY <2>3, <2>4
  <1>9. ThreadTells(t)'
    <2>1. pc'[t] = "acquire" /\ job'[t] = n
      BY <1>1, <1>6 DEF Call, CallsTypeOK
    <2>2. index'[t] = 1 /\ values'[t] = <<>>
      BY <1>1, <1>7 DEF Call, PositionOK, OutcomesTell, ThreadTells
    <2>3. Tried(t)' = 0
      BY <2>1, <2>2 DEF Tried
    <2>4. \A k \in DOMAIN wire : wire[k].id[1] # n
      BY <1>1, <1>2, <1>6 DEF WireOK
    <2>5. SentUpTo(wire', n, 0) /\ OkBelow(wire', n, 1 + 1)
      BY <1>7, <2>4 DEF SentUpTo, OkBelow
    <2>6. 1 <= Len(commands)
      BY BatchesAssumption, EmptySeq
    <2>7. ValuesTell(commands, <<>>, 1 - 1)
      BY EmptySeq DEF ValuesTell
    <2>8. Progress(wire', commands, <<>>, n, 1, 0)
      BY <2>5, <2>6, <2>7 DEF Progress
    <2>9. Progress(wire, batches[job[t]], values[t], job[t], index[t], Tried(t))'
      BY <1>3, <2>1, <2>2, <2>3, <2>8
    <2>10. outcome'[job'[t]] = Pending
      BY <1>4, <2>1
    <2> QED BY <2>1, <2>2, <2>9, <2>10 DEF ThreadTells
  <1>10. ASSUME NEW b \in 1..n PROVE Tells(wire', batches'[b], outcome'[b], b)
    <2>1. CASE b = n
      BY <1>4, <2>1 DEF Tells, Pending
    <2>2. CASE b # n
      <3>1. b \in 1..Len(batches)
        BY <1>2, <1>6, <2>2
      <3> QED BY <1>1, <1>3, <1>4, <1>5, <1>7, <3>1 DEF OutcomesTell
    <2> QED BY <2>1, <2>2
  <1>11. \A u \in Threads : ThreadTells(u)'
    BY <1>8, <1>9
  <1> QED BY <1>3, <1>4, <1>5, <1>10, <1>11 DEF OutcomesTell

LEMMA StepTells ==
  ASSUME OutcomeInv, NEW t \in Threads, Step(t) \/ Interrupt(t) \/ CallClose(t)
  PROVE  OutcomesTell'
  <1>1. /\ Typed /\ CallsTypeOK /\ WireTypeOK /\ PositionOK /\ OutcomesTell
    BY DEF OutcomeInv, TurnsInv, Typed, TypeOK
  <1>s. Inside(t) => /\ index[t] \in Nat \ {0}
                     /\ job[t] \in 1..Len(batches)
                     /\ batches[job[t]] \in Batches
                     /\ index[t] <= Len(batches[job[t]])
                     /\ SentUpTo(wire, job[t], Tried(t))
                     /\ OkBelow(wire, job[t], index[t] + 1)
                     /\ pc[t] \in {"settle", "read"} => batches[job[t]][index[t]] = "query"
    BY JobTyped, SoFar
  <1>2. CASE Acquire(t)
    <2>1. /\ Inside(t) /\ Moved(t, "wait") /\ UNCHANGED <<wire, outcome, values>>
          /\ Tried(t) = index[t] - 1
      BY <1>2 DEF Acquire, Inside, Moved, Tried
    <2> QED BY <1>s, <2>1, MoveTells DEF InBatch
  <1>3. CASE RejectClosed(t)
    <2>1. /\ Inside(t) /\ UNCHANGED wire /\ Leave(t, "closed", 0, <<>>)
          /\ Unsent(job[t])
      BY <1>1, <1>3 DEF RejectClosed, Inside, PositionOK
    <2>2. Tells(wire', batches[job[t]],
                [kind |-> "closed", index |-> 0, values |-> <<>>], job[t])
      BY <2>1 DEF Tells, SentUpTo, Unsent
    <2> QED BY <2>1, <2>2, EndTells
  <1>4. CASE WaitBeforeWrite(t)
    <2>1. /\ Inside(t) /\ Moved(t, "write") /\ UNCHANGED <<wire, outcome, values>>
          /\ Tried(t) = index[t] - 1
      BY <1>4 DEF WaitBeforeWrite, Inside, Moved, Tried
    <2> QED BY <1>s, <2>1, MoveTells DEF InBatch
  <1>5. CASE SettleSleep(t)
    <2>1. /\ Inside(t) /\ Moved(t, "read") /\ UNCHANGED <<wire, outcome, values>>
          /\ Tried(t) = index[t] /\ pc[t] = "settle"
      BY <1>5 DEF SettleSleep, Inside, Moved, Tried
    <2> QED BY <1>s, <2>1, MoveTells DEF InBatch
  <1>6. CASE TransportWrite(t)
    <2>1. PICK d \in Delays : Record(t, d, TRUE, TRUE)
      BY <1>6 DEF TransportWrite
    <2>2. Inside(t) /\ pc[t] \in InBatch /\ Tried(t) = index[t] - 1
      BY <1>6 DEF TransportWrite, Inside, InBatch, Tried
    <2>3. /\ SentUpTo(wire', job[t], index[t])
          /\ OkBelow(wire', job[t], index[t] + 1)
          /\ Sent(t)
      BY <1>1, <1>s, <2>1, <2>2, OwnBatch, RecordSends
    <2>4. CASE CommandOf(t) = "query"
      <3>1. Moved(t, "settle") /\ UNCHANGED <<outcome, values>>
        BY <1>6, <2>4 DEF TransportWrite, Moved
      <3>2. batches[job[t]][index[t]] = "query"
        BY <2>4 DEF CommandOf
      <3> QED BY <2>2, <2>3, <3>1, <3>2, MoveTells DEF InBatch
    <2>5. CASE CommandOf(t) # "query"
      <3>1. Advance(t, NoValue) /\ NoValue \in Values
        BY <1>6, <2>5 DEF TransportWrite, Values
      <3>2. batches[job[t]][index[t]] = "write"
        <4>1. index[t] \in 1..Len(batches[job[t]]) /\ batches[job[t]] \in Seq(Kinds)
          BY <1>s, <2>2, BatchesAssumption, LenProperties
        <4>2. batches[job[t]][index[t]] \in Kinds
          BY <4>1, ElementOfSeq
        <4> QED BY <2>5, <4>2 DEF Kinds, CommandOf
      <3> QED BY <2>2, <2>3, <3>1, <3>2, AdvanceTells
    <2> QED BY <2>4, <2>5
  <1>7. CASE TransportWriteFails(t)
    <2>1. PICK kind \in {"timeout", "connection", "interrupt"}, delivered \in BOOLEAN, d \in Delays :
            Record(t, d, delivered, FALSE) /\ Fail(t, kind)
      BY <1>7 DEF TransportWriteFails
    <2>2. Inside(t) /\ pc[t] \in InBatch /\ Tried(t) = index[t] - 1
      BY <1>7 DEF TransportWriteFails, Inside, InBatch, Tried
    <2>3. /\ SentUpTo(wire', job[t], index[t])
          /\ OkBelow(wire', job[t], index[t])
          /\ Sent(t)
      BY <1>1, <1>s, <2>1, <2>2, OwnBatch, RecordSends
    <2>4. kind \notin {"closed", "result"}
      BY <2>1
    <2> QED BY <2>1, <2>2, <2>3, <2>4, FailTells
  <1>r. pc[t] = "read" => /\ Inside(t) /\ pc[t] \in InBatch
                          /\ SentUpTo(wire, job[t], index[t])
                          /\ OkBelow(wire, job[t], index[t])
                          /\ OkBelow(wire, job[t], index[t] + 1)
                          /\ batches[job[t]][index[t]] = "query"
    <2> SUFFICES ASSUME pc[t] = "read"
                 PROVE  /\ Inside(t) /\ pc[t] \in InBatch
                        /\ SentUpTo(wire, job[t], index[t])
                        /\ OkBelow(wire, job[t], index[t])
                        /\ OkBelow(wire, job[t], index[t] + 1)
                        /\ batches[job[t]][index[t]] = "query"
      OBVIOUS
    <2>1. Inside(t) /\ pc[t] \in InBatch /\ Tried(t) = index[t]
      BY DEF Inside, InBatch, Tried
    <2>2. SentUpTo(wire, job[t], index[t]) /\ OkBelow(wire, job[t], index[t] + 1)
      BY <1>s, <2>1
    <2>3. OkBelow(wire, job[t], index[t])
      <3>1. index[t] \in Nat
        BY <1>s, <2>1
      <3>2. \A k \in DOMAIN wire : wire[k].id[1] = job[t] => wire[k].id[2] \in 1..index[t]
        BY <2>2 DEF SentUpTo
      <3> QED BY <2>2, <3>1, <3>2 DEF OkBelow
    <2> QED BY <1>s, <2>1, <2>2, <2>3
  <1>8. CASE TransportRead(t)
    <2>1. UNCHANGED wire /\ pc[t] = "read" /\ Head(pipe) \in Answers
      BY <1>1, <1>8, HeadTailProperties DEF TransportRead, WireTypeOK
    <2>2. CASE Head(pipe).ascii
      <3>1. Advance(t, Head(pipe).answers)
        BY <1>8, <2>2 DEF TransportRead
      <3>2. Head(pipe).answers \in QueryIds
        BY <2>1 DEF Answers
      <3>3. Head(pipe).answers \in Values /\ Head(pipe).answers # NoValue
        BY <3>2 DEF Values, QueryIds, NoValue
      <3> QED BY <1>r, <2>1, <3>1, <3>3, AdvanceTells
    <2>3. CASE ~Head(pipe).ascii
      <3>1. Fail(t, "protocol")
        BY <1>8, <2>3 DEF TransportRead
      <3> QED BY <1>r, <2>1, <3>1, FailTells
    <2> QED BY <2>2, <2>3
  <1>9. CASE TransportReadFails(t)
    <2>1. PICK kind \in {"timeout", "connection"} : Fail(t, kind)
      BY <1>9 DEF TransportReadFails
    <2>2. UNCHANGED wire /\ pc[t] = "read"
      BY <1>9 DEF TransportReadFails
    <2>3. kind \notin {"closed", "result"}
      BY <2>1
    <2> QED BY <1>r, <2>1, <2>2, <2>3, FailTells
  <1>10. CASE Interrupt(t)
    <2>1. UNCHANGED wire /\ Inside(t) /\ Fail(t, "interrupt")
      BY <1>10 DEF Interrupt, Inside
    <2> QED BY <2>1, FailTells
  <1>11. CASE Close(t) \/ CallClose(t)
    <2>1. /\ ~Inside(t) /\ pc' = [pc EXCEPT ![t] = pc'[t]] /\ pc'[t] \in {"idle", "closing"}
          /\ UNCHANGED <<wire, outcome, values, batches, job, index>>
      BY <1>1, <1>11 DEF Close, CallClose, Inside, CallsTypeOK
    <2>2. ASSUME NEW u \in Threads PROVE ThreadTells(u)'
      <3>1. ThreadTells(u)
        BY <1>1 DEF OutcomesTell
      <3>2. CASE u = t
        BY <2>1, <3>1, <3>2 DEF ThreadTells, Inside
      <3>3. CASE u # t
        <4>1. pc'[u] = pc[u]
          BY <1>1, <2>1, <3>3 DEF CallsTypeOK
        <4> QED BY <2>1, <3>1, <4>1 DEF ThreadTells, Inside, Progress, Tried
      <3> QED BY <3>2, <3>3
    <2> QED BY <1>1, <2>1, <2>2 DEF OutcomesTell
  <1> QED BY <1>2, <1>3, <1>4, <1>5, <1>6, <1>7, <1>8, <1>9, <1>10, <1>11 DEF Step

LEMMA OutcomeNext == OutcomeInv /\ [Next]_vars => OutcomeInv'
  <1> SUFFICES ASSUME OutcomeInv, [Next]_vars PROVE OutcomeInv'
    OBVIOUS
  <1>1. TurnsInv'
    BY TurnsNext DEF OutcomeInv
  <1>2. CASE Answer \/ Ignore \/ UNCHANGED vars
    <2>1. UNCHANGED <<callVars, wire>>
      BY <1>2 DEF Answer, Ignore, vars
    <2>2. OutcomesTell'
      BY <2>1 DEF callVars, OutcomeInv, OutcomesTell, ThreadTells, Inside, Tried
    <2> QED BY <1>1, <2>2 DEF OutcomeInv
  <1>3. ASSUME NEW t \in Threads, NEW commands \in Batches, Call(t, commands)
        PROVE  OutcomesTell'
    BY <1>3, CallTells
  <1>4. ASSUME NEW t \in Threads, Step(t) \/ Interrupt(t) \/ CallClose(t)
        PROVE  OutcomesTell'
    BY <1>4, StepTells
  <1> QED BY <1>1, <1>2, <1>3, <1>4 DEF Next, OutcomeInv

LEMMA OutcomeInit == Init => OutcomeInv
  <1> SUFFICES ASSUME Init PROVE OutcomeInv
    OBVIOUS
  <1>1. TurnsInv
    BY TurnsInit
  <1>2. \A t \in Threads : ThreadTells(t)
    BY DEF Init, ThreadTells, Inside
  <1>3. Len(outcome) = Len(batches) /\ DOMAIN outcome = {}
    BY DEF Init
  <1> QED BY <1>1, <1>2, <1>3 DEF OutcomeInv, OutcomesTell

\* What Tells says, in the words of the property.
LEMMA TellsAll == OutcomeInv => OutcomeTellsWhatWasSent
  <1> SUFFICES ASSUME OutcomeInv PROVE OutcomeTellsWhatWasSent
    OBVIOUS
  <1>1. ASSUME NEW b, NEW m, SentUpTo(wire, b, m)
        PROVE  {wire[k].id[2] : k \in Attempted(b)} = 1..m
    BY <1>1 DEF SentUpTo, Attempted
  <1>2. ASSUME NEW b \in DOMAIN outcome
        PROVE  LET o == outcome[b]
                   n == Len(batches[b])
                   sent == {wire[k].id[2] : k \in Attempted(b)} IN
               /\ o.kind = "closed" => sent = {}
               /\ o.kind = "result" =>
                    /\ sent = 1..n /\ Len(o.values) = n
                    /\ \A k \in Attempted(b) : wire[k].ok
                    /\ \A i \in 1..n : (o.values[i] = NoValue) <=> (batches[b][i] = "write")
               /\ o.index > 0 =>
                    /\ sent = 1..o.index /\ Len(o.values) = o.index - 1
                    /\ \A k \in Attempted(b) : wire[k].id[2] < o.index => wire[k].ok
    <2> DEFINE o == outcome[b]
    <2> DEFINE n == Len(batches[b])
    <2> DEFINE sent == {wire[k].id[2] : k \in Attempted(b)}
    <2>1. Tells(wire, batches[b], o, b)
      BY <1>2 DEF OutcomeInv, OutcomesTell
    <2>2. o.kind = "closed" => sent = {}
      <3>1. 1..0 = {}
        OBVIOUS
      <3> QED BY <1>1, <2>1, <3>1 DEF Tells
    <2>3. o.kind = "result" =>
            /\ sent = 1..n /\ Len(o.values) = n
            /\ \A k \in Attempted(b) : wire[k].ok
            /\ \A i \in 1..n : (o.values[i] = NoValue) <=> (batches[b][i] = "write")
      <3> SUFFICES ASSUME o.kind = "result"
                   PROVE  /\ sent = 1..n /\ Len(o.values) = n
                          /\ \A k \in Attempted(b) : wire[k].ok
                          /\ \A i \in 1..n :
                               (o.values[i] = NoValue) <=> (batches[b][i] = "write")
        OBVIOUS
      <3>1. /\ SentUpTo(wire, b, n) /\ OkBelow(wire, b, n + 1)
            /\ ValuesTell(batches[b], o.values, n)
        BY <2>1 DEF Tells
      <3>2. \A k \in Attempted(b) : wire[k].ok
        BY <3>1 DEF Attempted, SentUpTo, OkBelow
      <3>3. sent = 1..n
        BY <1>1, <3>1
      <3> QED BY <3>1, <3>2, <3>3 DEF ValuesTell
    <2>4. o.index > 0 =>
            /\ sent = 1..o.index /\ Len(o.values) = o.index - 1
            /\ \A k \in Attempted(b) : wire[k].id[2] < o.index => wire[k].ok
      BY <1>1, <2>1 DEF Tells, OkBelow, Attempted
    <2> QED BY <2>2, <2>3, <2>4
  <1> QED BY <1>2 DEF OutcomeTellsWhatWasSent

(* The caller of execute() can rely on what it is told, whatever the other *)
(* threads do and whatever fails: a result means that every command was    *)
(* sent, the index of an error is that of the last command tried, all      *)
(* commands before it succeeded, and a refused call sent nothing.          *)
THEOREM OutcomeTells == Spec => []OutcomeTellsWhatWasSent
  <1> QED BY OutcomeInit, OutcomeNext, TellsAll, PTL DEF Spec

-------------------------------------------------------------------------------
(* Which answers have gone to which queries.  The command at place k of    *)
(* the wire is a query, and its value is v: in the outcome of its batch, or*)
(* with the thread that still runs it.                                     *)
Got(k, v) ==
  LET b == wire[k].id[1]
      i == wire[k].id[2] IN
  /\ batches[b][i] = "query"
  /\ \/ i \in DOMAIN outcome[b].values /\ v = outcome[b].values[i]
     \/ \E t \in Threads :
          Inside(t) /\ job[t] = b /\ i \in DOMAIN values[t] /\ v = values[t][i]

\* The query q is on the wire w, and r after it.
Written(w, q)   == \E k \in DOMAIN w : w[k].id = q
Before(w, q, r) == \E j, k \in DOMAIN w : j < k /\ w[j].id = q /\ w[k].id = r

UniqueOK == \A j, k \in DOMAIN wire : wire[j].id = wire[k].id => j = k

\* What the pipe holds and the instrument owes is in the order of the wire.
Outstanding == {pipe[i].answers : i \in DOMAIN pipe} \cup {owed[i] : i \in DOMAIN owed}
LineOK ==
  /\ \A q \in Outstanding : Written(wire, q)
  /\ \A i, j \in DOMAIN pipe : i < j => Before(wire, pipe[i].answers, pipe[j].answers)
  /\ \A i, j \in DOMAIN owed : i < j => Before(wire, owed[i], owed[j])
  /\ \A i \in DOMAIN pipe, j \in DOMAIN owed : Before(wire, pipe[i].answers, owed[j])

\* An answer that was used is older than all that will follow, and not of a
\* query after the one that got it.
UsedOK ==
  \A k \in DOMAIN wire, v \in Values : Got(k, v) =>
    /\ \E j \in DOMAIN wire : j <= k /\ wire[j].id = v
    /\ \A q \in Outstanding : Before(wire, v, q)
    /\ \A l \in DOMAIN wire, u \in Values : l < k /\ Got(l, u) => Before(wire, u, v)

\* As long as no read was given up, all that may come is the answer to the
\* query that is waiting for it.
Reading(t) == pc[t] \in {"settle", "read"}
Awaited(q) == \E t \in Threads : Reading(t) /\ q = IdOf(t)
FreshOK ==
  /\ \A t \in Threads : Reading(t) => wire[Len(wire)].delivered
  /\ Abandoned = {} =>
       /\ \A k \in DOMAIN wire, v \in Values : Got(k, v) => v = wire[k].id
       /\ \A q \in Outstanding : Awaited(q)

OrderOK   == UniqueOK /\ LineOK /\ UsedOK
AnswerInv == OutcomeInv /\ OrderOK /\ FreshOK

-------------------------------------------------------------------------------
(* What a step does to the values.                                         *)

\* No query gets a value ...
GotKept ==
  \A k \in DOMAIN wire', v \in Values : Got(k, v)' => k \in DOMAIN wire /\ Got(k, v)

\* ... or only that of t gets one.
GotOne(t, x) ==
  \A k \in DOMAIN wire', v \in Values :
    Got(k, v)' => (k \in DOMAIN wire /\ Got(k, v)) \/ (wire'[k].id = IdOf(t) /\ v = x)

\* What a query of t's own batch gets, or one of another.
LEMMA GotMoves ==
  ASSUME OutcomeInv, OutcomeInv', NEW t \in Threads, Inside(t), Elsewhere(t),
         NEW w, Carries(t, w), NEW x, w = values[t] \/ w = Append(values[t], x),
         NEW k \in DOMAIN wire', NEW v \in Values, Got(k, v)'
  PROVE  \/ k \in DOMAIN wire /\ Got(k, v)
         \/ /\ w # values[t] /\ wire'[k].id = IdOf(t) /\ v = x
            /\ batches[job[t]][index[t]] = "query"
  <1>1. Typed /\ CallsTypeOK /\ CalledOnce /\ WireOK /\ OutcomesTell
    BY DEF OutcomeInv, TurnsInv, Typed, TypeOK
  <1> DEFINE b == wire'[k].id[1]
             i == wire'[k].id[2]
  <1>2. /\ batches'[b][i] = "query"
        /\ \/ i \in DOMAIN outcome'[b].values /\ v = outcome'[b].values[i]
           \/ \E u \in Threads :
                Inside(u)' /\ job'[u] = b /\ i \in DOMAIN values'[u] /\ v = values'[u][i]
    BY DEF Got
  <1>3. /\ wire'[k].id = <<b, i>> /\ i \in Nat \ {0} /\ b \in Nat
    <2>1. wire' \in Seq(Attempts)
      BY DEF OutcomeInv, TurnsInv, Typed, TypeOK, WireTypeOK
    <2>2. wire'[k] \in Attempts
      BY <2>1, ElementOfSeq, LenProperties
    <2> QED BY <2>2, BoundAssumption DEF Attempts, QueryIds
  <1>4. \/ k \in DOMAIN wire /\ wire'[k] = wire[k]
        \/ wire'[k].id = IdOf(t)
    <2>1. CASE UNCHANGED wire
      BY <2>1
    <2>2. CASE Sent(t)
      BY <1>1, <2>2, SentWire
    <2> QED BY <2>1, <2>2 DEF Elsewhere
  <1>5. UNCHANGED batches
    BY DEF Elsewhere
  <1>6. CASE b # job[t]
    <2>1. k \in DOMAIN wire /\ wire'[k] = wire[k]
      BY <1>4, <1>6 DEF IdOf
    <2>2. b \in DOMAIN outcome
      BY <1>1, <2>1, LenProperties DEF WireOK, OutcomesTell, CallsTypeOK
    <2>3. outcome'[b] = outcome[b]
      BY <1>6, <2>2 DEF Elsewhere
    <2>4. ASSUME NEW u \in Threads, Inside(u)', job'[u] = b
          PROVE  Inside(u) /\ job[u] = b /\ values'[u] = values[u]
      <3>1. CASE u = t
        BY <1>6, <2>4, <3>1 DEF Carries, Inside
      <3>2. CASE u # t
        BY <2>4, <3>2 DEF Elsewhere, Inside
      <3> QED BY <3>1, <3>2
    <2> HIDE DEF b, i
    <2>5. /\ batches[b][i] = "query"
          /\ \/ i \in DOMAIN outcome[b].values /\ v = outcome[b].values[i]
             \/ \E u \in Threads :
                  Inside(u) /\ job[u] = b /\ i \in DOMAIN values[u] /\ v = values[u][i]
      BY <1>2, <1>5, <2>3, <2>4
    <2>6. Got(k, v)
      BY <2>1, <2>5 DEF Got, b, i
    <2> QED BY <2>1, <2>6
  <1>7. CASE b = job[t]
    <2>1. /\ outcome[job[t]] = Pending /\ values[t] \in Seq(Values)
          /\ Len(values[t]) = index[t] - 1 /\ index[t] \in Nat \ {0}
      BY <1>1, JobTyped DEF OutcomesTell, ThreadTells, Progress, ValuesTell
    <2>2. i \in DOMAIN w /\ v = w[i]
      <3>1. CASE Inside(t)' /\ job'[t] = job[t] /\ values'[t] = w /\ UNCHANGED outcome
        <4>1. outcome'[b].values = <<>>
          BY <1>7, <2>1, <3>1 DEF Pending
        <4>2. DOMAIN <<>> = {}
          OBVIOUS
        <4>3. \A u \in Threads : Inside(u)' /\ job'[u] = b => u = t
          BY <1>7, <3>1 DEF OutcomeInv, TurnsInv, CalledOnce
        <4> HIDE DEF b, i
        <4> QED BY <1>2, <3>1, <4>1, <4>2, <4>3
      <3>2. CASE pc'[t] = "idle" /\ outcome'[job[t]].values = w
        <4>1. \A u \in Threads : ~(Inside(u)' /\ job'[u] = b)
          BY <1>1, <1>7, <3>2 DEF Elsewhere, CalledOnce, Inside
        <4> HIDE DEF b, i
        <4> QED BY <1>2, <1>7, <3>2, <4>1
      <3> QED BY <3>1, <3>2 DEF Carries
    <2> HIDE DEF b, i
    <2>3. CASE i \in DOMAIN values[t] /\ v = values[t][i]
      <3>1. i # index[t]
        BY <2>1, <2>3, LenProperties
      <3>2. k \in DOMAIN wire /\ wire'[k] = wire[k]
        BY <1>3, <1>4, <3>1 DEF IdOf
      <3>3. batches[b][i] = "query" /\ b = wire[k].id[1] /\ i = wire[k].id[2]
        BY <1>2, <1>5, <3>2 DEF b, i
      <3>4. Got(k, v)
        BY <1>7, <2>3, <3>3 DEF Got
      <3> QED BY <3>2, <3>4
    <2>4. CASE ~(i \in DOMAIN values[t] /\ v = values[t][i])
      <3>1. w = Append(values[t], x) /\ w # values[t]
        BY <2>2, <2>4
      <3>2. x \in Values \cup {x} /\ values[t] \in Seq(Values \cup {x})
        BY <2>1, SeqMonotonic
      <3>3. /\ DOMAIN w = 1..(Len(values[t]) + 1)
            /\ \A j \in 1..Len(values[t]) : w[j] = values[t][j]
            /\ w[Len(values[t]) + 1] = x
            /\ DOMAIN values[t] = 1..Len(values[t])
        BY <3>1, <3>2, AppendProperties, LenProperties
      <3>4. i = index[t] /\ v = x
        BY <1>3, <2>1, <2>2, <2>4, <3>3
      <3> QED BY <1>2, <1>3, <1>5, <1>7, <3>1, <3>4 DEF IdOf
    <2> QED BY <2>3, <2>4
  <1> QED BY <1>6, <1>7

-------------------------------------------------------------------------------
(* A longer wire keeps the order.                                          *)
LEMMA BeforeGrows ==
  ASSUME NEW w, NEW x, DOMAIN w \subseteq DOMAIN x, \A k \in DOMAIN w : x[k] = w[k]
  PROVE  /\ \A q : Written(w, q) => Written(x, q)
         /\ \A q, r : Before(w, q, r) => Before(x, q, r)
  <1>1. \A q : Written(w, q) => Written(x, q)
    BY DEF Written
  <1>2. ASSUME NEW q, NEW r, Before(w, q, r) PROVE Before(x, q, r)
    <2>1. PICK j \in DOMAIN w, k \in DOMAIN w : j < k /\ w[j].id = q /\ w[k].id = r
      BY <1>2 DEF Before
    <2>2. j \in DOMAIN x /\ k \in DOMAIN x /\ x[j].id = q /\ x[k].id = r
      BY <2>1
    <2> QED BY <2>1, <2>2 DEF Before
  <1> QED BY <1>1, <1>2

\* A read takes the first answer, and what stays comes after it ...
LEMMA LineRead ==
  ASSUME Typed, LineOK, UNCHANGED <<wire, owed>>, pipe # <<>>, pipe' = Tail(pipe)
  PROVE  /\ LineOK' /\ Outstanding' \subseteq Outstanding
         /\ Head(pipe).answers \in Outstanding
         /\ \A q \in Outstanding' : Before(wire, Head(pipe).answers, q)
  <1>1. pipe \in Seq(Answers)
    BY DEF Typed, TypeOK, WireTypeOK
  <1> DEFINE n == Len(pipe)
  <1>2. /\ n \in Nat \ {0} /\ DOMAIN pipe = 1..n /\ DOMAIN pipe' = 1..(n - 1)
        /\ Head(pipe) = pipe[1] /\ \A i \in 1..(n - 1) : pipe'[i] = pipe[i + 1]
    BY <1>1, HeadTailProperties, LenProperties, EmptySeq
  <1> HIDE DEF n
  <1>3. \A i \in DOMAIN pipe' : i + 1 \in DOMAIN pipe /\ 1 < i + 1 /\ pipe'[i] = pipe[i + 1]
    BY <1>2
  <1>4. 1 \in DOMAIN pipe
    BY <1>2
  <1>5. Outstanding' \subseteq Outstanding /\ Head(pipe).answers \in Outstanding
    BY <1>2, <1>3, <1>4 DEF Outstanding
  <1>6. LineOK'
    <2>1. \A q \in Outstanding' : Written(wire', q)
      BY <1>5 DEF LineOK
    <2>2. ASSUME NEW i \in DOMAIN pipe', NEW j \in DOMAIN pipe', i < j
          PROVE  Before(wire', pipe'[i].answers, pipe'[j].answers)
      <3>1. i + 1 < j + 1
        BY <1>2, <2>2
      <3> QED BY <1>3, <3>1 DEF LineOK
    <2>3. \A i, j \in DOMAIN owed' : i < j => Before(wire', owed'[i], owed'[j])
      BY DEF LineOK
    <2>4. \A i \in DOMAIN pipe', j \in DOMAIN owed' : Before(wire', pipe'[i].answers, owed'[j])
      BY <1>3 DEF LineOK
    <2> QED BY <2>1, <2>2, <2>3, <2>4 DEF LineOK
  <1>7. ASSUME NEW q \in Outstanding' PROVE Before(wire, Head(pipe).answers, q)
    <2>1. CASE \E i \in DOMAIN pipe' : q = pipe'[i].answers
      BY <1>2, <1>3, <1>4, <2>1 DEF LineOK
    <2>2. CASE \E i \in DOMAIN owed' : q = owed'[i]
      BY <1>2, <1>4, <2>2 DEF LineOK
    <2> QED BY <2>1, <2>2 DEF Outstanding
  <1> QED BY <1>5, <1>6, <1>7

\* ... the instrument answers the first query it owes, or ignores it ...
LEMMA LineAnswer ==
  ASSUME Typed, LineOK, Answer \/ Ignore
  PROVE  LineOK' /\ Outstanding' \subseteq Outstanding
  <1>1. pipe \in Seq(Answers) /\ owed \in Seq(QueryIds) /\ owed # <<>>
    BY DEF Typed, TypeOK, WireTypeOK, Answer, Ignore
  <1> DEFINE n == Len(owed)
  <1> DEFINE m == Len(pipe)
  <1>2. /\ n \in Nat \ {0} /\ DOMAIN owed = 1..n /\ DOMAIN owed' = 1..(n - 1)
        /\ Head(owed) = owed[1] /\ \A i \in 1..(n - 1) : owed'[i] = owed[i + 1]
    <2>1. owed' = Tail(owed)
      BY DEF Answer, Ignore
    <2>2. /\ owed' \in Seq(QueryIds) /\ Len(owed') = n - 1 /\ n \in Nat \ {0}
          /\ Head(owed) = owed[1] /\ \A i \in 1..(n - 1) : owed'[i] = owed[i + 1]
      BY <1>1, <2>1, HeadTailProperties, LenProperties, EmptySeq
    <2> QED BY <1>1, <2>2, LenProperties
  <1>3. m \in Nat /\ DOMAIN pipe = 1..m
    BY <1>1, LenProperties
  <1>4. \/ UNCHANGED pipe
        \/ /\ DOMAIN pipe' = 1..(m + 1) /\ pipe'[m + 1].answers = Head(owed)
           /\ \A i \in 1..m : pipe'[i] = pipe[i]
    <2>1. CASE Ignore
      BY <2>1 DEF Ignore
    <2>2. CASE Answer
      <3>1. PICK ascii \in BOOLEAN : pipe' = Append(pipe, [answers |-> Head(owed), ascii |-> ascii])
        BY <2>2 DEF Answer
      <3>2. [answers |-> Head(owed), ascii |-> ascii] \in Answers
        BY <1>1, HeadTailProperties DEF Answers
      <3> HIDE DEF m
      <3>3. m = Len(pipe)
        BY DEF m
      <3>4. /\ Len(pipe') = m + 1 /\ pipe' \in Seq(Answers)
            /\ pipe'[m + 1] = [answers |-> Head(owed), ascii |-> ascii]
            /\ \A i \in 1..m : pipe'[i] = pipe[i]
        BY <1>1, <3>1, <3>2, <3>3, AppendProperties
      <3> QED BY <3>4, LenProperties
    <2> QED BY <2>1, <2>2
  <1> HIDE DEF n, m
  <1>5. /\ \A i \in DOMAIN owed' : i + 1 \in DOMAIN owed /\ 1 < i + 1 /\ owed'[i] = owed[i + 1]
        /\ 1 \in DOMAIN owed /\ UNCHANGED wire
    BY <1>2 DEF Answer, Ignore
  <1>6. \A i \in DOMAIN pipe' :
          \/ i \in DOMAIN pipe /\ pipe'[i] = pipe[i]
          \/ i = m + 1 /\ pipe'[i].answers = owed[1]
    BY <1>2, <1>3, <1>4
  <1>7. Outstanding' \subseteq Outstanding
    <2>1. \A i \in DOMAIN pipe' : pipe'[i].answers \in Outstanding
      BY <1>5, <1>6 DEF Outstanding
    <2>2. \A i \in DOMAIN owed' : owed'[i] \in Outstanding
      BY <1>5 DEF Outstanding
    <2> QED BY <2>1, <2>2 DEF Outstanding
  <1>8. LineOK'
    <2>1. \A q \in Outstanding' : Written(wire', q)
      BY <1>5, <1>7 DEF LineOK
    <2>2. ASSUME NEW i \in DOMAIN pipe', NEW j \in DOMAIN pipe', i < j
          PROVE  Before(wire', pipe'[i].answers, pipe'[j].answers)
      <3>1. i \in DOMAIN pipe /\ pipe'[i] = pipe[i]
        BY <1>3, <1>4, <1>6, <2>2
      <3>2. CASE j \in DOMAIN pipe /\ pipe'[j] = pipe[j]
        BY <1>5, <2>2, <3>1, <3>2 DEF LineOK
      <3>3. CASE pipe'[j].answers = owed[1]
        BY <1>5, <3>1, <3>3 DEF LineOK
      <3> QED BY <1>6, <3>2, <3>3
    <2>3. ASSUME NEW i \in DOMAIN owed', NEW j \in DOMAIN owed', i < j
          PROVE  Before(wire', owed'[i], owed'[j])
      <3>1. i + 1 < j + 1
        BY <1>2, <2>3
      <3> QED BY <1>5, <3>1 DEF LineOK
    <2>4. ASSUME NEW i \in DOMAIN pipe', NEW j \in DOMAIN owed'
          PROVE  Before(wire', pipe'[i].answers, owed'[j])
      <3>1. CASE i \in DOMAIN pipe /\ pipe'[i] = pipe[i]
        BY <1>5, <3>1 DEF LineOK
      <3>2. CASE pipe'[i].answers = owed[1]
        BY <1>5, <3>2 DEF LineOK
      <3> QED BY <1>6, <3>1, <3>2
    <2> QED BY <2>1, <2>2, <2>3, <2>4 DEF LineOK
  <1> QED BY <1>7, <1>8

\* ... or it receives a query, the last of the wire.
LEMMA LineSent ==
  ASSUME Typed, UniqueOK, LineOK, NEW t \in Threads, Sent(t), ~Written(wire, IdOf(t)),
         UNCHANGED pipe, owed' = owed \/ owed' = Append(owed, IdOf(t)), Typed'
  PROVE  /\ LineOK' /\ UniqueOK'
         /\ Outstanding' \subseteq Outstanding \cup {IdOf(t)}
         /\ owed' = owed => Outstanding' \subseteq Outstanding
         /\ \A v : Written(wire, v) => Written(wire', v) /\ Before(wire', v, IdOf(t))
  <1> DEFINE n == Len(wire) + 1
  <1>1. /\ n \in Nat \ {0} /\ DOMAIN wire = 1..(n - 1) /\ DOMAIN wire' = 1..n
        /\ \A k \in DOMAIN wire : wire'[k] = wire[k]
        /\ wire'[n].id = IdOf(t)
    BY SentWire
  <1> HIDE DEF n
  <1>2. /\ \A k \in DOMAIN wire : k \in DOMAIN wire' /\ k < n
        /\ \A k \in DOMAIN wire' : k \in DOMAIN wire \/ k = n
        /\ n \in DOMAIN wire'
    BY <1>1
  <1>3. ASSUME NEW v, Written(wire, v) PROVE Written(wire', v) /\ Before(wire', v, IdOf(t))
    <2>1. PICK k \in DOMAIN wire : wire[k].id = v
      BY <1>3 DEF Written
    <2> QED BY <1>1, <1>2, <2>1 DEF Written, Before
  <1>4. UniqueOK'
    BY <1>1, <1>2 DEF UniqueOK, Written
  <1>5. \A q, r : Before(wire, q, r) => Before(wire', q, r)
    BY <1>1, <1>2, BeforeGrows
  <1>6. owed \in Seq(QueryIds) /\ owed' \in Seq(QueryIds)
    BY DEF Typed, TypeOK, WireTypeOK
  <1> DEFINE m == Len(owed)
  <1>7. m \in Nat /\ DOMAIN owed = 1..m
    BY <1>6, LenProperties
  <1>8. \/ UNCHANGED owed
        \/ /\ DOMAIN owed' = 1..(m + 1) /\ owed'[m + 1] = IdOf(t)
           /\ \A i \in 1..m : owed'[i] = owed[i]
    <2> SUFFICES ASSUME owed' = Append(owed, IdOf(t))
                 PROVE  /\ DOMAIN owed' = 1..(m + 1) /\ owed'[m + 1] = IdOf(t)
                        /\ \A i \in 1..m : owed'[i] = owed[i]
      OBVIOUS
    <2>1. owed \in Seq(QueryIds \cup {IdOf(t)})
      BY <1>6, SeqMonotonic
    <2>2. /\ Len(owed') = m + 1 /\ owed'[m + 1] = IdOf(t)
          /\ \A i \in 1..m : owed'[i] = owed[i]
      BY <2>1, AppendProperties
    <2> QED BY <1>6, <2>2, LenProperties
  <1> HIDE DEF m
  <1>9. \A i \in DOMAIN owed' : \/ i \in DOMAIN owed /\ owed'[i] = owed[i]
                                \/ i = m + 1 /\ owed'[i] = IdOf(t)
    BY <1>7, <1>8
  <1>10. /\ Outstanding' \subseteq Outstanding \cup {IdOf(t)}
         /\ owed' = owed => Outstanding' \subseteq Outstanding
    BY <1>9 DEF Outstanding
  <1>11. \A q \in Outstanding : Written(wire, q) /\ Before(wire', q, IdOf(t))
    BY <1>3 DEF LineOK
  <1>12. LineOK'
    <2>1. \A q \in Outstanding' : Written(wire', q)
      <3>1. Written(wire', IdOf(t))
        BY <1>1, <1>2 DEF Written
      <3> QED BY <1>3, <1>10, <1>11, <3>1
    <2>2. \A i, j \in DOMAIN pipe' : i < j => Before(wire', pipe'[i].answers, pipe'[j].answers)
      BY <1>5 DEF LineOK
    <2>3. ASSUME NEW i \in DOMAIN owed', NEW j \in DOMAIN owed', i < j
          PROVE  Before(wire', owed'[i], owed'[j])
      <3>1. i \in DOMAIN owed /\ owed'[i] = owed[i]
        BY <1>7, <1>8, <1>9, <2>3
      <3>2. owed[i] \in Outstanding
        BY <3>1 DEF Outstanding
      <3>3. CASE j \in DOMAIN owed /\ owed'[j] = owed[j]
        BY <1>5, <2>3, <3>1, <3>3 DEF LineOK
      <3>4. CASE owed'[j] = IdOf(t)
        BY <1>11, <3>1, <3>2, <3>4
      <3> QED BY <1>9, <3>3, <3>4
    <2>4. ASSUME NEW i \in DOMAIN pipe', NEW j \in DOMAIN owed'
          PROVE  Before(wire', pipe'[i].answers, owed'[j])
      <3>1. pipe[i].answers \in Outstanding
        BY DEF Outstanding
      <3>2. CASE j \in DOMAIN owed /\ owed'[j] = owed[j]
        BY <1>5, <3>2 DEF LineOK
      <3>3. CASE owed'[j] = IdOf(t)
        BY <1>11, <3>1, <3>3
      <3> QED BY <1>9, <3>2, <3>3
    <2> QED BY <2>1, <2>2, <2>3, <2>4 DEF LineOK
  <1> QED BY <1>3, <1>4, <1>10, <1>12

-------------------------------------------------------------------------------
(* The order of used and outstanding answers is kept when nothing is used, *)
LEMMA OrderKept ==
  ASSUME OrderOK, GotKept, UniqueOK', LineOK',
         DOMAIN wire \subseteq DOMAIN wire', \A k \in DOMAIN wire : wire'[k] = wire[k],
         \A v, q : Written(wire, v) /\ q \in Outstanding' =>
                     q \in Outstanding \/ Before(wire', v, q)
  PROVE  OrderOK'
  <1>1. /\ \A q : Written(wire, q) => Written(wire', q)
        /\ \A q, r : Before(wire, q, r) => Before(wire', q, r)
    BY BeforeGrows
  <1>2. ASSUME NEW k \in DOMAIN wire', NEW v \in Values, Got(k, v)'
        PROVE  /\ \E j \in DOMAIN wire' : j <= k /\ wire'[j].id = v
               /\ \A q \in Outstanding' : Before(wire', v, q)
               /\ \A l \in DOMAIN wire', u \in Values : l < k /\ Got(l, u)' => Before(wire', u, v)
    <2>1. k \in DOMAIN wire /\ Got(k, v)
      BY <1>2 DEF GotKept
    <2>2. PICK j \in DOMAIN wire : j <= k /\ wire[j].id = v
      BY <2>1 DEF OrderOK, UsedOK
    <2>3. Written(wire, v)
      BY <2>2 DEF Written
    <2>4. \E i \in DOMAIN wire' : i <= k /\ wire'[i].id = v
      <3>1. j \in DOMAIN wire' /\ wire'[j].id = v
        BY <2>2
      <3> QED BY <2>2, <3>1
    <2>5. \A q \in Outstanding' : Before(wire', v, q)
      BY <1>1, <2>1, <2>3 DEF OrderOK, UsedOK
    <2>6. ASSUME NEW l \in DOMAIN wire', NEW u \in Values, l < k, Got(l, u)'
          PROVE  Before(wire', u, v)
      <3>1. l \in DOMAIN wire /\ Got(l, u)
        BY <2>6 DEF GotKept
      <3>2. Before(wire, u, v)
        BY <2>1, <2>6, <3>1 DEF OrderOK, UsedOK
      <3> QED BY <1>1, <3>2
    <2> QED BY <2>4, <2>5, <2>6
  <1>3. UsedOK'
    BY <1>2 DEF UsedOK
  <1> QED BY <1>3 DEF OrderOK

\* and when the thread that reads takes the first answer of the pipe.
LEMMA OrderRead ==
  ASSUME Typed, OrderOK, NEW t \in Threads, LastSent(IdOf(t)),
         UNCHANGED <<wire, owed>>, pipe # <<>>, pipe' = Tail(pipe),
         GotOne(t, Head(pipe).answers)
  PROVE  OrderOK'
  <1> DEFINE x == Head(pipe).answers
  <1>1. /\ LineOK' /\ Outstanding' \subseteq Outstanding /\ x \in Outstanding
        /\ \A q \in Outstanding' : Before(wire, x, q)
    BY LineRead DEF OrderOK
  <1>2. wire \in Seq(Attempts) /\ UniqueOK'
    BY DEF Typed, TypeOK, WireTypeOK, OrderOK, UniqueOK
  <1>3. DOMAIN wire = 1..Len(wire) /\ Len(wire) \in DOMAIN wire /\ wire[Len(wire)].id = IdOf(t)
    BY <1>2, LenProperties, EmptySeq DEF LastSent
  <1>4. ASSUME NEW k \in DOMAIN wire, NEW v \in Values, Got(k, v)'
        PROVE  Got(k, v) \/ (k = Len(wire) /\ v = x)
    BY <1>3, <1>4 DEF GotOne, OrderOK, UniqueOK
  <1>5. PICK i \in DOMAIN wire : wire[i].id = x
    BY <1>1 DEF OrderOK, LineOK, Written
  <1> HIDE DEF x
  <1>6. ASSUME NEW k \in DOMAIN wire, NEW v \in Values, Got(k, v)'
        PROVE  /\ \E j \in DOMAIN wire : j <= k /\ wire[j].id = v
               /\ \A q \in Outstanding' : Before(wire, v, q)
               /\ \A l \in DOMAIN wire, u \in Values : l < k /\ Got(l, u)' => Before(wire, u, v)
    <2>1. CASE Got(k, v)
      <3>1. ASSUME NEW l \in DOMAIN wire, NEW u \in Values, l < k, Got(l, u)'
            PROVE  Before(wire, u, v)
        <4>1. l # Len(wire)
          BY <1>3, <3>1
        <4>2. Got(l, u)
          BY <1>4, <3>1, <4>1
        <4> QED BY <2>1, <3>1, <4>2 DEF OrderOK, UsedOK
      <3>2. \A q \in Outstanding' : Before(wire, v, q)
        BY <1>1, <2>1 DEF OrderOK, UsedOK
      <3>3. \E j \in DOMAIN wire : j <= k /\ wire[j].id = v
        BY <2>1 DEF OrderOK, UsedOK
      <3> QED BY <3>1, <3>2, <3>3
    <2>2. CASE k = Len(wire) /\ v = x
      <3>1. i <= k
        BY <1>3, <2>2
      <3>2. ASSUME NEW l \in DOMAIN wire, NEW u \in Values, l < k, Got(l, u)'
            PROVE  Before(wire, u, v)
        <4>1. l # Len(wire)
          BY <1>3, <2>2, <3>2
        <4>2. Got(l, u)
          BY <1>4, <3>2, <4>1
        <4> QED BY <1>1, <2>2, <4>2 DEF OrderOK, UsedOK
      <3> QED BY <1>1, <1>5, <2>2, <3>1, <3>2
    <2> QED BY <1>4, <1>6, <2>1, <2>2
  <1>7. UsedOK'
    BY <1>6 DEF UsedOK
  <1> QED BY <1>1, <1>2, <1>7 DEF OrderOK

-------------------------------------------------------------------------------
(* What the steps do to the values.                                        *)
LEMMA MovedKeeps ==
  ASSUME OutcomeInv, OutcomeInv', NEW t \in Threads, Inside(t), Elsewhere(t),
         Carries(t, values[t])
  PROVE  GotKept
  BY GotMoves DEF GotKept

\* A call that is refused or fails returns the values it has.
LEMMA FailKeeps ==
  ASSUME OutcomeInv, OutcomeInv', NEW t \in Threads, Inside(t), UNCHANGED wire \/ Sent(t),
         NEW kind, Fail(t, kind)
  PROVE  GotKept /\ Elsewhere(t)
  <1>1. Elsewhere(t) /\ Carries(t, values[t])
    BY LeaveElsewhere DEF Fail
  <1> QED BY <1>1, MovedKeeps

\* A command that is done adds its value.
LEMMA AdvanceMovesValues ==
  ASSUME OutcomeInv, NEW t \in Threads, Inside(t), pc[t] \in InBatch, UNCHANGED wire \/ Sent(t),
         NEW x, Advance(t, x)
  PROVE  Elsewhere(t) /\ Carries(t, Append(values[t], x))
  <1>1. CallsTypeOK
    BY DEF OutcomeInv, TurnsInv, Typed, TypeOK
  <1>2. CASE index[t] = Len(batches[job[t]])
    BY <1>2, LeaveElsewhere DEF Advance
  <1>3. CASE index[t] # Len(batches[job[t]])
    BY <1>1, <1>3 DEF Advance, Elsewhere, Carries, Inside, CallsTypeOK
  <1> QED BY <1>2, <1>3

LEMMA AdvanceGets ==
  ASSUME OutcomeInv, OutcomeInv', NEW t \in Threads, Inside(t), pc[t] \in InBatch,
         UNCHANGED wire \/ Sent(t), NEW x, Advance(t, x)
  PROVE  /\ GotOne(t, x)
         /\ batches[job[t]][index[t]] # "query" => GotKept
  <1> DEFINE w == Append(values[t], x)
  <1>1. Elsewhere(t) /\ Carries(t, w)
    BY AdvanceMovesValues
  <1>2. w = values[t] \/ w = Append(values[t], x)
    OBVIOUS
  <1> HIDE DEF w
  <1>3. ASSUME NEW k \in DOMAIN wire', NEW v \in Values, Got(k, v)'
        PROVE  \/ k \in DOMAIN wire /\ Got(k, v)
               \/ /\ w # values[t] /\ wire'[k].id = IdOf(t) /\ v = x
                  /\ batches[job[t]][index[t]] = "query"
    BY <1>1, <1>2, <1>3, GotMoves
  <1> QED BY <1>3 DEF GotOne, GotKept

\* Steps outside the calls change no value.
LEMMA StillKeeps ==
  ASSUME UNCHANGED <<wire, batches, outcome, job, values>>,
         \A u \in Threads : Inside(u)' => Inside(u)
  PROVE  GotKept
  BY DEF GotKept, Got

\* A call that begins has none.
LEMMA CallKeeps ==
  ASSUME OutcomeInv, NEW t \in Threads, NEW commands \in Batches, Call(t, commands)
  PROVE  /\ GotKept
         /\ \A b \in 1..Len(batches) : batches'[b] = batches[b] /\ outcome'[b] = outcome[b]
  <1>1. CallsTypeOK /\ WireOK /\ Len(outcome) = Len(batches)
    BY DEF OutcomeInv, TurnsInv, Typed, TypeOK, OutcomesTell
  <1>2. \A b \in 1..Len(batches) : batches'[b] = batches[b]
    BY <1>1, AppendProperties DEF Call, CallsTypeOK
  <1>3. \A b \in 1..Len(batches) : outcome'[b] = outcome[b]
    <2>1. Pending \in Outcomes
      BY EmptySeq DEF Pending, Outcomes
    <2> QED BY <1>1, <2>1, AppendProperties DEF Call, CallsTypeOK
  <1>4. Len(batches) \in Nat
    BY <1>1, LenProperties DEF CallsTypeOK
  <1>5. ASSUME NEW u \in Threads, Inside(u)', job'[u] \in 1..Len(batches)
        PROVE  Inside(u) /\ job'[u] = job[u]
    <2>1. u # t
      BY <1>1, <1>4, <1>5 DEF Call, CallsTypeOK
    <2> QED BY <1>1, <1>5, <2>1 DEF Call, CallsTypeOK, Inside
  <1>6. UNCHANGED <<wire, values>>
    BY DEF Call
  <1>7. ASSUME NEW k \in DOMAIN wire', NEW v \in Values, Got(k, v)'
        PROVE  k \in DOMAIN wire /\ Got(k, v)
    <2> DEFINE b == wire[k].id[1]
               i == wire[k].id[2]
    <2>1. b \in 1..Len(batches)
      BY <1>1, <1>6 DEF WireOK
    <2>2. /\ batches'[b][i] = "query"
          /\ \/ i \in DOMAIN outcome'[b].values /\ v = outcome'[b].values[i]
             \/ \E u \in Threads :
                  Inside(u)' /\ job'[u] = b /\ i \in DOMAIN values[u] /\ v = values[u][i]
      BY <1>6, <1>7 DEF Got
    <2> HIDE DEF b, i
    <2>3. /\ batches[b][i] = "query"
          /\ \/ i \in DOMAIN outcome[b].values /\ v = outcome[b].values[i]
             \/ \E u \in Threads :
                  Inside(u) /\ job[u] = b /\ i \in DOMAIN values[u] /\ v = values[u][i]
      BY <1>2, <1>3, <1>5, <2>1, <2>2
    <2> QED BY <1>6, <2>3 DEF Got, b, i
  <1> QED BY <1>2, <1>3, <1>7 DEF GotKept

-------------------------------------------------------------------------------
(* A query that was given up stays given up,                               *)
LEMMA AbandonedGrows ==
  ASSUME OutcomeInv, DOMAIN wire \subseteq DOMAIN wire', \A k \in DOMAIN wire : wire'[k] = wire[k],
         \A b \in 1..Len(batches) : /\ batches'[b] = batches[b]
                                    /\ outcome[b] # Pending => outcome'[b] = outcome[b]
  PROVE  Abandoned \subseteq Abandoned'
  <1>1. ASSUME NEW q \in Abandoned PROVE q \in Abandoned'
    <2>1. PICK k \in DOMAIN wire :
            /\ q = wire[k].id
            /\ wire[k].delivered
            /\ batches[wire[k].id[1]][wire[k].id[2]] = "query"
            /\ outcome[wire[k].id[1]].kind \in {"timeout", "connection", "interrupt"}
            /\ wire[k].id[2] > Len(outcome[wire[k].id[1]].values)
      BY <1>1 DEF Abandoned
    <2>2. wire[k].id[1] \in 1..Len(batches)
      BY DEF OutcomeInv, TurnsInv, WireOK
    <2>3. outcome[wire[k].id[1]] # Pending
      BY <2>1 DEF Pending
    <2>4. /\ wire'[k] = wire[k] /\ k \in DOMAIN wire'
          /\ batches'[wire[k].id[1]] = batches[wire[k].id[1]]
          /\ outcome'[wire[k].id[1]] = outcome[wire[k].id[1]]
      BY <2>2, <2>3
    <2>5. /\ wire'[k].delivered
          /\ batches'[wire'[k].id[1]][wire'[k].id[2]] = "query"
          /\ outcome'[wire'[k].id[1]].kind \in {"timeout", "connection", "interrupt"}
          /\ wire'[k].id[2] > Len(outcome'[wire'[k].id[1]].values)
          /\ q = wire'[k].id
      BY <2>1, <2>4
    <2> QED BY <2>4, <2>5 DEF Abandoned
  <1> QED BY <1>1

LEMMA ElsewhereGrows ==
  ASSUME OutcomeInv, NEW t \in Threads, Inside(t), Elsewhere(t)
  PROVE  /\ DOMAIN wire \subseteq DOMAIN wire' /\ \A k \in DOMAIN wire : wire'[k] = wire[k]
         /\ Abandoned \subseteq Abandoned'
  <1>1. Typed /\ CallsTypeOK /\ Len(outcome) = Len(batches)
    BY DEF OutcomeInv, TurnsInv, Typed, TypeOK, OutcomesTell
  <1>2. DOMAIN wire \subseteq DOMAIN wire' /\ \A k \in DOMAIN wire : wire'[k] = wire[k]
    <2>1. CASE UNCHANGED wire
      BY <2>1
    <2>2. CASE Sent(t)
      BY <1>1, <2>2, SentWire
    <2> QED BY <2>1, <2>2 DEF Elsewhere
  <1>3. outcome[job[t]] = Pending
    BY SoFar
  <1>4. \A b \in 1..Len(batches) : /\ batches'[b] = batches[b]
                                   /\ outcome[b] # Pending => outcome'[b] = outcome[b]
    BY <1>1, <1>3, LenProperties DEF Elsewhere, CallsTypeOK
  <1> QED BY <1>2, <1>4, AbandonedGrows

\* and so is one whose call fails after it was delivered.
LEMMA GivenUp ==
  ASSUME OutcomeInv, NEW t \in Threads, Inside(t), UNCHANGED wire \/ Sent(t),
         NEW k \in DOMAIN wire', wire'[k].id = IdOf(t), wire'[k].delivered,
         batches[job[t]][index[t]] = "query",
         NEW kind \in {"timeout", "connection", "interrupt"}, Fail(t, kind)
  PROVE  Abandoned' # {}
  <1> DEFINE i == IF kind = "interrupt" THEN 0 ELSE index[t]
  <1>1. Leave(t, kind, i, values[t])
    BY DEF Fail
  <1>2. /\ UNCHANGED batches
        /\ outcome'[job[t]] = [kind |-> kind, index |-> i, values |-> values[t]]
    BY <1>1, LeaveElsewhere DEF Elsewhere
  <1>3. Len(values[t]) = index[t] - 1 /\ index[t] \in Nat
    BY SoFar, JobTyped DEF ValuesTell
  <1> HIDE DEF i
  <1>4. outcome'[job[t]].kind = kind /\ outcome'[job[t]].values = values[t]
    BY <1>2
  <1>5. wire'[k].id[1] = job[t] /\ wire'[k].id[2] = index[t]
    BY DEF IdOf
  <1>6. /\ wire'[k].delivered
        /\ batches'[wire'[k].id[1]][wire'[k].id[2]] = "query"
        /\ outcome'[wire'[k].id[1]].kind \in {"timeout", "connection", "interrupt"}
        /\ wire'[k].id[2] > Len(outcome'[wire'[k].id[1]].values)
    BY <1>2, <1>3, <1>4, <1>5
  <1>7. wire'[k].id \in Abandoned'
    BY <1>6 DEF Abandoned
  <1> QED BY <1>7

-------------------------------------------------------------------------------
(* Only the thread that holds the lock can be reading.                     *)
LEMMA OneReader ==
  ASSUME OutcomeInv, NEW t \in Threads, pc[t] \in InBatch
  PROVE  \A u \in Threads : Reading(u) => u = t
  BY DEF OutcomeInv, TurnsInv, LockOK, InBatch, Reading

\* Answers stay fresh when nothing is read or sent,
LEMMA FreshKept ==
  ASSUME FreshOK, GotKept, UNCHANGED wire, Abandoned \subseteq Abandoned',
         Outstanding' \subseteq Outstanding,
         \A u \in Threads : /\ Reading(u)' <=> Reading(u)
                            /\ Reading(u) => IdOf(u)' = IdOf(u)
  PROVE  FreshOK'
  <1>1. \A u \in Threads : Reading(u)' => wire'[Len(wire')].delivered
    BY DEF FreshOK
  <1>2. ASSUME Abandoned' = {}
        PROVE  /\ \A k \in DOMAIN wire', v \in Values : Got(k, v)' => v = wire'[k].id
               /\ \A q \in Outstanding' : Awaited(q)'
    <2>1. Abandoned = {}
      BY <1>2
    <2>2. \A k \in DOMAIN wire', v \in Values : Got(k, v)' => v = wire'[k].id
      BY <2>1 DEF GotKept, FreshOK
    <2>3. ASSUME NEW q \in Outstanding' PROVE Awaited(q)'
      <3>1. PICK u \in Threads : Reading(u) /\ q = IdOf(u)
        BY <2>1, <2>3 DEF FreshOK, Awaited
      <3>2. Reading(u)' /\ q = IdOf(u)'
        BY <3>1
      <3> QED BY <3>2 DEF Awaited
    <2> QED BY <2>2, <2>3
  <1> QED BY <1>1, <1>2 DEF FreshOK

\* when a command is sent,
LEMMA FreshSent ==
  ASSUME OutcomeInv, FreshOK, NEW t \in Threads, pc[t] = "write", Elsewhere(t), Sent(t), GotKept,
         Reading(t)' => wire'[Len(wire')].delivered,
         \/ Outstanding' \subseteq Outstanding
         \/ /\ Outstanding' \subseteq Outstanding \cup {IdOf(t)}
            /\ Reading(t)' /\ IdOf(t)' = IdOf(t)
         \/ Abandoned' # {}
  PROVE  FreshOK'
  <1>1. Inside(t) /\ pc[t] \in InBatch /\ ~Reading(t)
    BY DEF Inside, InBatch, Reading
  <1>2. \A u \in Threads : ~Reading(u)
    BY <1>1, OneReader
  <1>3. \A u \in Threads : Reading(u)' => u = t
    BY <1>2 DEF Elsewhere, Reading
  <1>4. ASSUME Abandoned' = {}
        PROVE  /\ \A k \in DOMAIN wire', v \in Values : Got(k, v)' => v = wire'[k].id
               /\ \A q \in Outstanding' : Awaited(q)'
    <2>1. Abandoned = {} /\ \A k \in DOMAIN wire : wire'[k] = wire[k]
      BY <1>1, <1>4, ElsewhereGrows
    <2>2. Outstanding = {}
      BY <1>2, <2>1 DEF FreshOK, Awaited
    <2>3. \A k \in DOMAIN wire', v \in Values : Got(k, v)' => v = wire'[k].id
      BY <2>1 DEF GotKept, FreshOK
    <2>4. ASSUME NEW q \in Outstanding' PROVE Awaited(q)'
      <3>1. q = IdOf(t) /\ Reading(t)' /\ IdOf(t)' = IdOf(t)
        BY <1>4, <2>2, <2>4
      <3> QED BY <3>1 DEF Awaited
    <2> QED BY <2>3, <2>4
  <1> QED BY <1>3, <1>4 DEF FreshOK

\* when the query that waits gets the answer to itself,
LEMMA FreshRead ==
  ASSUME OutcomeInv, OrderOK, FreshOK, NEW t \in Threads, pc[t] = "read", Elsewhere(t),
         UNCHANGED <<wire, owed>>, pipe # <<>>, pipe' = Tail(pipe),
         GotOne(t, Head(pipe).answers), ~Reading(t)'
  PROVE  FreshOK'
  <1> DEFINE x == Head(pipe).answers
  <1>1. Inside(t) /\ pc[t] \in InBatch /\ Reading(t)
    BY DEF Inside, InBatch, Reading
  <1>2. \A u \in Threads : Reading(u) => u = t
    BY <1>1, OneReader
  <1>3. \A u \in Threads : ~Reading(u)'
    BY <1>2 DEF Elsewhere, Reading
  <1>4. /\ Outstanding' \subseteq Outstanding /\ x \in Outstanding
        /\ \A q \in Outstanding' : Before(wire, x, q)
    <2>1. Typed /\ LineOK
      BY DEF OutcomeInv, TurnsInv, OrderOK
    <2> QED BY <2>1, LineRead
  <1> HIDE DEF x
  <1>5. ASSUME Abandoned' = {}
        PROVE  /\ \A k \in DOMAIN wire', v \in Values : Got(k, v)' => v = wire'[k].id
               /\ \A q \in Outstanding' : Awaited(q)'
    <2>1. Abandoned = {}
      BY <1>1, <1>5, ElsewhereGrows
    <2>2. \A q \in Outstanding : q = IdOf(t)
      BY <1>2, <2>1 DEF FreshOK, Awaited
    <2>3. \A k \in DOMAIN wire', v \in Values : Got(k, v)' => v = wire'[k].id
      <3>1. x = IdOf(t)
        BY <1>4, <2>2
      <3> QED BY <2>1, <3>1 DEF GotOne, FreshOK, x
    <2>4. ASSUME NEW q \in Outstanding' PROVE FALSE
      <3>1. Before(wire, q, q)
        BY <1>4, <2>2, <2>4
      <3>2. PICK j \in DOMAIN wire, k \in DOMAIN wire : j < k /\ wire[j].id = q /\ wire[k].id = q
        BY <3>1 DEF Before
      <3>3. wire \in Seq(Attempts)
        BY DEF OutcomeInv, TurnsInv, Typed, TypeOK, WireTypeOK
      <3>4. j \in Nat /\ k \in Nat
        BY <3>3, LenProperties
      <3>5. j = k
        BY <3>2 DEF OrderOK, UniqueOK
      <3> QED BY <3>2, <3>4, <3>5
    <2> QED BY <2>3, <2>4
  <1> QED BY <1>3, <1>5 DEF FreshOK

\* and when its call is given up, as that is when it stops to matter.
LEMMA FreshGiveUp ==
  ASSUME OutcomeInv, FreshOK, NEW t \in Threads, Reading(t), UNCHANGED wire,
         NEW kind \in {"timeout", "connection", "interrupt"}, Fail(t, kind)
  PROVE  FreshOK'
  <1>1. Inside(t) /\ LastSent(IdOf(t)) /\ wire \in Seq(Attempts)
    BY DEF Inside, Reading, OutcomeInv, TurnsInv, PositionOK, Typed, TypeOK, WireTypeOK
  <1>2. Len(wire) \in DOMAIN wire /\ wire[Len(wire)].id = IdOf(t) /\ wire[Len(wire)].delivered
    BY <1>1, LenProperties, EmptySeq DEF LastSent, FreshOK
  <1>3. batches[job[t]][index[t]] = "query"
    BY <1>1, SoFar DEF Reading
  <1>4. Abandoned' # {}
    BY <1>1, <1>2, <1>3, GivenUp
  <1>5. wire'[Len(wire')].delivered
    BY <1>2
  <1> QED BY <1>4, <1>5 DEF FreshOK

-------------------------------------------------------------------------------
(* A step of a call that leaves the wire alone and uses no answer ...      *)
LEMMA QuietOrder ==
  ASSUME AnswerInv, UNCHANGED wire, GotKept, LineOK', Outstanding' \subseteq Outstanding
  PROVE  OrderOK'
  <1>1. UniqueOK'
    BY DEF AnswerInv, OrderOK, UniqueOK
  <1>2. OrderOK /\ \A v, q : Written(wire, v) /\ q \in Outstanding' =>
                               q \in Outstanding \/ Before(wire', v, q)
    BY DEF AnswerInv
  <1> QED BY <1>1, <1>2, OrderKept

LEMMA LineStill ==
  ASSUME LineOK, UNCHANGED <<wire, pipe, owed>>
  PROVE  LineOK' /\ Outstanding' \subseteq Outstanding
  BY DEF LineOK, Outstanding

LEMMA QuietStep ==
  ASSUME AnswerInv, OutcomeInv', NEW t \in Threads, Inside(t), Elsewhere(t),
         UNCHANGED <<wire, pipe, owed>>, GotKept, Reading(t)' <=> Reading(t),
         Reading(t) => IdOf(t)' = IdOf(t)
  PROVE  OrderOK' /\ FreshOK'
  <1>1. OutcomeInv /\ LineOK /\ FreshOK
    BY DEF AnswerInv, OrderOK
  <1>2. LineOK' /\ Outstanding' \subseteq Outstanding
    BY <1>1, LineStill
  <1>3. Abandoned \subseteq Abandoned'
    BY <1>1, ElsewhereGrows
  <1>4. \A u \in Threads : /\ Reading(u)' <=> Reading(u)
                           /\ Reading(u) => IdOf(u)' = IdOf(u)
    BY DEF Elsewhere, Reading, IdOf
  <1>5. FreshOK'
    BY <1>1, <1>2, <1>3, <1>4, FreshKept
  <1> QED BY <1>2, <1>5, QuietOrder

\* ... such as going to another place of the same command ...
LEMMA MovedStep ==
  ASSUME AnswerInv, OutcomeInv', NEW t \in Threads, Inside(t), NEW to \in InBatch, Moved(t, to),
         UNCHANGED <<wire, pipe, owed, values, outcome>>,
         to \in {"settle", "read"} <=> Reading(t)
  PROVE  OrderOK' /\ FreshOK'
  <1>1. OutcomeInv /\ CallsTypeOK
    BY DEF AnswerInv, OutcomeInv, TurnsInv, Typed, TypeOK
  <1>2. pc'[t] = to /\ Inside(t)' /\ Elsewhere(t)
    BY <1>1 DEF Moved, Elsewhere, Inside, InBatch, CallsTypeOK
  <1>3. Carries(t, values[t])
    BY <1>2 DEF Carries, Moved
  <1>4. GotKept
    BY <1>1, <1>2, <1>3, MovedKeeps
  <1>5. (Reading(t)' <=> Reading(t)) /\ IdOf(t)' = IdOf(t)
    BY <1>2 DEF Reading, IdOf, Moved
  <1> QED BY <1>2, <1>4, <1>5, QuietStep

\* ... and a call that ends, with or without the answer that its read took.
LEMMA GiveUpStep ==
  ASSUME AnswerInv, OutcomeInv', NEW t \in Threads, Inside(t),
         NEW kind \in {"timeout", "connection", "interrupt"}, Fail(t, kind),
         UNCHANGED <<wire, owed>>,
         UNCHANGED pipe \/ (Reading(t) /\ pipe # <<>> /\ pipe' = Tail(pipe))
  PROVE  OrderOK' /\ FreshOK'
  <1>1. OutcomeInv /\ Typed /\ LineOK /\ FreshOK /\ CallsTypeOK
    BY DEF AnswerInv, OutcomeInv, TurnsInv, OrderOK, Typed, TypeOK
  <1>2. GotKept /\ Elsewhere(t)
    BY <1>1, FailKeeps
  <1>3. LineOK' /\ Outstanding' \subseteq Outstanding
    <2>1. CASE UNCHANGED pipe
      BY <1>1, <2>1, LineStill
    <2>2. CASE pipe # <<>> /\ pipe' = Tail(pipe)
      BY <1>1, <2>2, LineRead
    <2> QED BY <2>1, <2>2
  <1>4. OrderOK'
    BY <1>2, <1>3, QuietOrder
  <1>5. CASE Reading(t)
    <2>1. FreshOK'
      BY <1>1, <1>5, FreshGiveUp
    <2> QED BY <1>4, <2>1
  <1>6. CASE ~Reading(t)
    <2>1. pc'[t] = "idle"
      BY <1>1 DEF Fail, Leave, CallsTypeOK
    <2>2. ~Reading(t)'
      BY <2>1 DEF Reading
    <2> QED BY <1>2, <1>6, <2>2, QuietStep
  <1> QED BY <1>5, <1>6

\* A command is sent: a new query, or nothing to answer, is last on the wire.
LEMMA SentStep ==
  ASSUME AnswerInv, OutcomeInv', NEW t \in Threads, pc[t] = "write", Elsewhere(t), Sent(t), GotKept,
         Reading(t)' => wire'[Len(wire')].delivered, UNCHANGED pipe,
         \/ UNCHANGED owed
         \/ /\ owed' = Append(owed, IdOf(t))
            /\ (Reading(t)' /\ IdOf(t)' = IdOf(t)) \/ Abandoned' # {}
  PROVE  OrderOK' /\ FreshOK'
  <1>1. /\ OutcomeInv /\ Typed /\ Typed' /\ OrderOK /\ UniqueOK /\ LineOK /\ FreshOK
        /\ Inside(t) /\ Tried(t) = index[t] - 1
    BY DEF AnswerInv, OutcomeInv, TurnsInv, OrderOK, Inside, Tried
  <1>2. ~Written(wire, IdOf(t))
    <2>1. SentUpTo(wire, job[t], index[t] - 1) /\ index[t] \in Nat
      BY <1>1, SoFar, JobTyped
    <2>2. \A k \in DOMAIN wire : wire[k].id[1] = job[t] => wire[k].id[2] # index[t]
      BY <2>1 DEF SentUpTo
    <2> QED BY <2>2 DEF Written, IdOf
  <1>3. /\ LineOK' /\ UniqueOK'
        /\ Outstanding' \subseteq Outstanding \cup {IdOf(t)}
        /\ owed' = owed => Outstanding' \subseteq Outstanding
        /\ \A v : Written(wire, v) => Before(wire', v, IdOf(t))
    <2>1. owed' = owed \/ owed' = Append(owed, IdOf(t))
      OBVIOUS
    <2> QED BY <1>1, <1>2, <2>1, LineSent
  <1>4. DOMAIN wire \subseteq DOMAIN wire' /\ \A k \in DOMAIN wire : wire'[k] = wire[k]
    BY <1>1, ElsewhereGrows
  <1>5. \A v, q : Written(wire, v) /\ q \in Outstanding' =>
                    q \in Outstanding \/ Before(wire', v, q)
    BY <1>3
  <1>6. OrderOK'
    BY <1>1, <1>3, <1>4, <1>5, OrderKept
  <1>7. FreshOK'
    BY <1>1, <1>3, FreshSent
  <1> QED BY <1>6, <1>7

LEMMA WriteStep ==
  ASSUME AnswerInv, OutcomeInv', NEW t \in Threads, TransportWrite(t)
  PROVE  OrderOK' /\ FreshOK'
  <1>1. /\ OutcomeInv /\ Typed /\ CallsTypeOK /\ Inside(t) /\ pc[t] = "write" /\ pc[t] \in InBatch
        /\ UNCHANGED pipe /\ Deliver(t)
    BY DEF TransportWrite, AnswerInv, OutcomeInv, TurnsInv, Typed, TypeOK, Inside, InBatch
  <1>2. PICK d \in Delays : Record(t, d, TRUE, TRUE)
    BY DEF TransportWrite
  <1>3. Sent(t)
    BY <1>1, <1>2, RecordSends
  <1>4. wire'[Len(wire')].delivered
    <2>1. wire \in Seq(Attempts) /\ Len(wire') = Len(wire) + 1
      BY <1>1, <1>3, SentWire DEF Typed, TypeOK, WireTypeOK
    <2> DEFINE e == [id |-> IdOf(t), start |-> now, end |-> now + d,
                     delivered |-> TRUE, ok |-> TRUE, interval |-> interval]
    <2>2. wire' = Append(wire, e) /\ e.delivered
      BY <1>2 DEF Record
    <2> HIDE DEF e
    <2>3. wire \in Seq(Attempts \cup {e})
      BY <2>1, SeqMonotonic
    <2>4. wire'[Len(wire) + 1] = e
      BY <2>2, <2>3, AppendProperties
    <2> QED BY <2>1, <2>2, <2>4
  <1>5. CASE CommandOf(t) = "query"
    <2>1. /\ pc' = [pc EXCEPT ![t] = "settle"] /\ owed' = Append(owed, IdOf(t))
          /\ UNCHANGED <<job, index, values, batches, outcome>>
      BY <1>1, <1>5 DEF TransportWrite, Deliver
    <2>2. pc'[t] = "settle" /\ Inside(t)' /\ Elsewhere(t) /\ Carries(t, values[t])
      BY <1>1, <1>3, <2>1 DEF Elsewhere, Carries, Inside, CallsTypeOK
    <2>3. GotKept
      BY <1>1, <2>2, MovedKeeps
    <2>4. Reading(t)' /\ IdOf(t)' = IdOf(t)
      BY <2>1, <2>2 DEF Reading, IdOf
    <2> QED BY <1>1, <1>3, <1>4, <2>1, <2>2, <2>3, <2>4, SentStep
  <1>6. CASE CommandOf(t) # "query"
    <2>1. Advance(t, NoValue) /\ UNCHANGED owed
      BY <1>1, <1>6 DEF TransportWrite, Deliver
    <2>2. Elsewhere(t) /\ GotKept
      BY <1>1, <1>3, <1>6, <2>1, AdvanceGets, AdvanceMovesValues DEF CommandOf
    <2> QED BY <1>1, <1>3, <1>4, <2>1, <2>2, SentStep
  <1> QED BY <1>5, <1>6

LEMMA WriteFailsStep ==
  ASSUME AnswerInv, OutcomeInv', NEW t \in Threads, TransportWriteFails(t)
  PROVE  OrderOK' /\ FreshOK'
  <1>1. /\ OutcomeInv /\ Typed /\ CallsTypeOK /\ Inside(t) /\ pc[t] = "write" /\ pc[t] \in InBatch
        /\ UNCHANGED pipe
    BY DEF TransportWriteFails, AnswerInv, OutcomeInv, TurnsInv, Typed, TypeOK, Inside, InBatch
  <1>2. PICK kind \in {"timeout", "connection", "interrupt"}, delivered \in BOOLEAN, d \in Delays :
          /\ Record(t, d, delivered, FALSE) /\ Fail(t, kind)
          /\ IF delivered THEN Deliver(t) ELSE UNCHANGED owed
    BY DEF TransportWriteFails
  <1>3. Sent(t)
    BY <1>1, <1>2, RecordSends
  <1>4. GotKept /\ Elsewhere(t)
    BY <1>1, <1>2, <1>3, FailKeeps
  <1>5. pc'[t] = "idle" /\ ~Reading(t)'
    <2>1. pc'[t] = "idle"
      BY <1>1, <1>2 DEF Fail, Leave, CallsTypeOK
    <2> QED BY <2>1 DEF Reading
  <1>6. CASE UNCHANGED owed
    BY <1>1, <1>3, <1>4, <1>5, <1>6, SentStep
  <1>7. CASE ~UNCHANGED owed
    <2>1. delivered /\ CommandOf(t) = "query" /\ owed' = Append(owed, IdOf(t))
      BY <1>2, <1>7 DEF Deliver
    <2>2. /\ wire \in Seq(Attempts) /\ Len(wire) + 1 \in DOMAIN wire'
          /\ wire'[Len(wire) + 1].id = IdOf(t)
      BY <1>1, <1>3, SentWire DEF Typed, TypeOK, WireTypeOK
    <2> DEFINE e == [id |-> IdOf(t), start |-> now, end |-> now + d,
                     delivered |-> delivered, ok |-> FALSE, interval |-> interval]
    <2>3. wire' = Append(wire, e) /\ e.delivered
      BY <1>2, <2>1 DEF Record
    <2> HIDE DEF e
    <2>4. wire \in Seq(Attempts \cup {e})
      BY <2>2, SeqMonotonic
    <2>5. wire'[Len(wire) + 1] = e
      BY <2>3, <2>4, AppendProperties
    <2>6. Abandoned' # {}
      BY <1>1, <1>2, <1>3, <2>1, <2>2, <2>3, <2>5, GivenUp DEF CommandOf
    <2> QED BY <1>1, <1>3, <1>4, <1>5, <2>1, <2>6, SentStep
  <1> QED BY <1>6, <1>7

LEMMA ReadStep ==
  ASSUME AnswerInv, OutcomeInv', NEW t \in Threads, TransportRead(t)
  PROVE  OrderOK' /\ FreshOK'
  <1>1. /\ OutcomeInv /\ Typed /\ OrderOK /\ FreshOK /\ CallsTypeOK /\ Inside(t)
        /\ pc[t] = "read" /\ pc[t] \in InBatch /\ LastSent(IdOf(t))
        /\ UNCHANGED <<wire, owed>> /\ pipe # <<>> /\ pipe' = Tail(pipe)
    BY DEF TransportRead, AnswerInv, OutcomeInv, TurnsInv, PositionOK, Typed, TypeOK, Inside, InBatch
  <1>2. /\ Elsewhere(t) /\ GotOne(t, Head(pipe).answers) /\ pc'[t] \in {"idle", "wait"}
    <2>1. CASE Head(pipe).ascii
      <3>1. Advance(t, Head(pipe).answers)
        BY <2>1 DEF TransportRead
      <3>2. Elsewhere(t) /\ GotOne(t, Head(pipe).answers)
        BY <1>1, <3>1, AdvanceGets, AdvanceMovesValues
      <3>3. pc'[t] \in {"idle", "wait"}
        BY <1>1, <3>1 DEF Advance, Leave, CallsTypeOK
      <3> QED BY <3>2, <3>3
    <2>2. CASE ~Head(pipe).ascii
      <3>1. Fail(t, "protocol")
        BY <2>2 DEF TransportRead
      <3>2. GotKept /\ Elsewhere(t)
        BY <1>1, <3>1, FailKeeps
      <3>3. pc'[t] = "idle"
        BY <1>1, <3>1 DEF Fail, Leave, CallsTypeOK
      <3> QED BY <3>2, <3>3 DEF GotKept, GotOne
    <2> QED BY <2>1, <2>2
  <1>3. ~Reading(t)'
    BY <1>2 DEF Reading
  <1>4. OrderOK'
    BY <1>1, <1>2, OrderRead
  <1>5. FreshOK'
    BY <1>1, <1>2, <1>3, FreshRead
  <1> QED BY <1>4, <1>5

LEMMA AnswerStep ==
  ASSUME AnswerInv, OutcomeInv', NEW t \in Threads, Step(t) \/ Interrupt(t) \/ CallClose(t)
  PROVE  OrderOK' /\ FreshOK'
  <1>1. /\ OutcomeInv /\ Typed /\ CallsTypeOK /\ PositionOK /\ OutcomesTell /\ LineOK /\ FreshOK
    BY DEF AnswerInv, OutcomeInv, TurnsInv, OrderOK, Typed, TypeOK
  <1>2. CASE Acquire(t)
    <2>1. /\ Inside(t) /\ Moved(t, "wait") /\ ~Reading(t)
          /\ UNCHANGED <<wire, pipe, owed, values, outcome>>
      BY <1>2 DEF Acquire, Inside, Moved, Reading, instrumentVars
    <2> QED BY <2>1, MovedStep DEF InBatch
  <1>3. CASE RejectClosed(t)
    <2>1. /\ Inside(t) /\ UNCHANGED <<wire, pipe, owed>> /\ Leave(t, "closed", 0, <<>>)
          /\ ~Reading(t) /\ index[t] = 1
      BY <1>1, <1>3 DEF RejectClosed, Inside, Reading, PositionOK, instrumentVars
    <2>2. values[t] = <<>>
      <3>1. Len(values[t]) = 0 /\ values[t] \in Seq(Values)
        BY <1>1, <2>1, SoFar, JobTyped DEF ValuesTell
      <3> QED BY <3>1, EmptySeq
    <2>3. Elsewhere(t) /\ Carries(t, values[t]) /\ pc'[t] = "idle"
      BY <1>1, <2>1, <2>2, LeaveElsewhere
    <2>4. GotKept /\ ~Reading(t)'
      BY <1>1, <2>1, <2>3, MovedKeeps DEF Reading
    <2> QED BY <2>1, <2>3, <2>4, QuietStep
  <1>4. CASE WaitBeforeWrite(t)
    <2>1. /\ Inside(t) /\ Moved(t, "write") /\ ~Reading(t)
          /\ UNCHANGED <<wire, pipe, owed, values, outcome>>
      BY <1>4 DEF WaitBeforeWrite, Inside, Moved, Reading, instrumentVars
    <2> QED BY <2>1, MovedStep DEF InBatch
  <1>5. CASE SettleSleep(t)
    <2>1. /\ Inside(t) /\ Moved(t, "read") /\ Reading(t)
          /\ UNCHANGED <<wire, pipe, owed, values, outcome>>
      BY <1>5 DEF SettleSleep, Inside, Moved, Reading, instrumentVars
    <2> QED BY <2>1, MovedStep DEF InBatch
  <1>6. CASE TransportWrite(t)
    BY <1>6, WriteStep
  <1>7. CASE TransportWriteFails(t)
    BY <1>7, WriteFailsStep
  <1>8. CASE TransportRead(t)
    BY <1>8, ReadStep
  <1>9. CASE TransportReadFails(t)
    <2>1. PICK kind \in {"timeout", "connection"} : Fail(t, kind)
      BY <1>9 DEF TransportReadFails
    <2>2. Inside(t) /\ UNCHANGED <<wire, pipe, owed>>
      BY <1>9 DEF TransportReadFails, Inside, instrumentVars
    <2>3. kind \in {"timeout", "connection", "interrupt"}
      BY <2>1
    <2> QED BY <2>1, <2>2, <2>3, GiveUpStep
  <1>10. CASE Interrupt(t)
    <2>1. /\ Inside(t) /\ Fail(t, "interrupt") /\ UNCHANGED <<wire, owed>>
          /\ UNCHANGED pipe \/ (Reading(t) /\ pipe # <<>> /\ pipe' = Tail(pipe))
      BY <1>10 DEF Interrupt, Inside, Reading
    <2> QED BY <2>1, GiveUpStep
  <1>11. CASE Close(t) \/ CallClose(t)
    <2>1. /\ UNCHANGED <<wire, pipe, owed, outcome, values, batches, job, index>>
          /\ pc[t] \in {"idle", "closing"} /\ pc'[t] \in {"idle", "closing"}
          /\ \A u \in Threads \ {t} : pc'[u] = pc[u]
      BY <1>1, <1>11 DEF Close, CallClose, instrumentVars, CallsTypeOK
    <2>2. \A u \in Threads : /\ Inside(u)' <=> Inside(u)
                             /\ Reading(u)' <=> Reading(u)
                             /\ IdOf(u)' = IdOf(u)
      BY <2>1 DEF Inside, Reading, IdOf
    <2>3. GotKept
      BY <2>1, <2>2, StillKeeps
    <2>4. LineOK' /\ Outstanding' \subseteq Outstanding
      BY <1>1, <2>1, LineStill
    <2>5. Abandoned \subseteq Abandoned'
      BY <2>1 DEF Abandoned
    <2>6. FreshOK'
      BY <1>1, <2>1, <2>2, <2>3, <2>4, <2>5, FreshKept
    <2> QED BY <2>1, <2>3, <2>4, <2>6, QuietOrder
  <1> QED BY <1>2, <1>3, <1>4, <1>5, <1>6, <1>7, <1>8, <1>9, <1>10, <1>11 DEF Step

LEMMA AnswerNext == AnswerInv /\ [Next]_vars => AnswerInv'
  <1> SUFFICES ASSUME AnswerInv, [Next]_vars PROVE AnswerInv'
    OBVIOUS
  <1>1. OutcomeInv /\ OutcomeInv' /\ Typed /\ CallsTypeOK /\ LineOK /\ FreshOK
    <2>1. OutcomeInv
      BY DEF AnswerInv
    <2>2. OutcomeInv'
      BY <2>1, OutcomeNext
    <2> QED BY <2>1, <2>2 DEF AnswerInv, OutcomeInv, TurnsInv, OrderOK, Typed, TypeOK
  <1>2. ASSUME NEW t \in Threads, NEW commands \in Batches, Call(t, commands)
        PROVE  OrderOK' /\ FreshOK'
    <2>1. /\ UNCHANGED <<wire, pipe, owed, index>> /\ pc[t] = "idle" /\ pc'[t] = "acquire"
          /\ \A u \in Threads \ {t} : pc'[u] = pc[u] /\ job'[u] = job[u]
      BY <1>1, <1>2 DEF Call, CallsTypeOK, instrumentVars
    <2>2. /\ GotKept
          /\ \A b \in 1..Len(batches) : batches'[b] = batches[b] /\ outcome'[b] = outcome[b]
      BY <1>1, <1>2, CallKeeps
    <2>3. Abandoned \subseteq Abandoned'
      BY <1>1, <2>1, <2>2, AbandonedGrows
    <2>4. LineOK' /\ Outstanding' \subseteq Outstanding
      BY <1>1, <2>1, LineStill
    <2>5. \A u \in Threads : /\ Reading(u)' <=> Reading(u)
                             /\ Reading(u) => IdOf(u)' = IdOf(u)
      BY <2>1 DEF Reading, IdOf
    <2>6. FreshOK'
      BY <1>1, <2>1, <2>2, <2>3, <2>4, <2>5, FreshKept
    <2> QED BY <2>1, <2>2, <2>4, <2>6, QuietOrder
  <1>3. CASE Answer \/ Ignore \/ UNCHANGED vars
    <2>1. UNCHANGED <<callVars, wire>>
      BY <1>3 DEF Answer, Ignore, vars
    <2>2. UNCHANGED <<pc, job, index, values, batches, outcome, wire>>
      BY <2>1 DEF callVars
    <2>3. GotKept
      BY <2>2, StillKeeps DEF Inside
    <2>4. LineOK' /\ Outstanding' \subseteq Outstanding
      <3>1. CASE Answer \/ Ignore
        BY <1>1, <3>1, LineAnswer
      <3>2. CASE UNCHANGED vars
        BY <1>1, <3>2, LineStill DEF vars, instrumentVars
      <3> QED BY <1>3, <3>1, <3>2
    <2>5. Abandoned \subseteq Abandoned'
      BY <2>2 DEF Abandoned
    <2>6. \A u \in Threads : /\ Reading(u)' <=> Reading(u)
                             /\ Reading(u) => IdOf(u)' = IdOf(u)
      BY <2>2 DEF Reading, IdOf
    <2>7. FreshOK'
      BY <1>1, <2>2, <2>3, <2>4, <2>5, <2>6, FreshKept
    <2>8. OrderOK'
      BY <2>2, <2>3, <2>4, QuietOrder
    <2> QED BY <1>1, <2>7, <2>8 DEF AnswerInv
  <1>4. ASSUME NEW t \in Threads, Step(t) \/ Interrupt(t) \/ CallClose(t)
        PROVE  OrderOK' /\ FreshOK'
    BY <1>1, <1>4, AnswerStep
  <1> QED BY <1>1, <1>2, <1>3, <1>4 DEF Next, AnswerInv

LEMMA AnswerInit == Init => AnswerInv
  <1> SUFFICES ASSUME Init PROVE AnswerInv
    OBVIOUS
  <1>1. OutcomeInv
    BY OutcomeInit
  <1>2. DOMAIN wire = {} /\ DOMAIN pipe = {} /\ DOMAIN owed = {}
    BY DEF Init
  <1>3. OrderOK
    BY <1>2 DEF OrderOK, UniqueOK, LineOK, UsedOK, Outstanding
  <1>4. FreshOK
    <2>1. \A t \in Threads : ~Reading(t)
      BY DEF Init, Reading
    <2> QED BY <1>2, <2>1 DEF FreshOK, Outstanding
  <1> QED BY <1>1, <1>3, <1>4 DEF AnswerInv

LEMMA AnswersAll == AnswerInv => AnswersInOrder
  <1> SUFFICES ASSUME AnswerInv, NEW k \in Returned
               PROVE  /\ WrittenAt(Value(k)) <= k
                      /\ Abandoned = {} => WrittenAt(Value(k)) = k
                      /\ \A l \in Returned : l < k => WrittenAt(Value(l)) < WrittenAt(Value(k))
    BY DEF AnswersInOrder
  <1>1. /\ CallsTypeOK /\ WireOK /\ Len(outcome) = Len(batches) /\ UniqueOK /\ UsedOK /\ FreshOK
        /\ wire \in Seq(Attempts)
    BY DEF AnswerInv, OutcomeInv, TurnsInv, Typed, TypeOK, OutcomesTell, OrderOK, WireTypeOK
  <1>2. \A j \in DOMAIN wire : \A v : wire[j].id = v => WrittenAt(v) = j
    <2> SUFFICES ASSUME NEW j \in DOMAIN wire PROVE WrittenAt(wire[j].id) = j
      OBVIOUS
    <2>1. \A i \in DOMAIN wire : wire[i].id = wire[j].id => i = j
      BY <1>1 DEF UniqueOK
    <2> QED BY <2>1 DEF WrittenAt
  <1>3. ASSUME NEW l \in Returned
        PROVE  l \in DOMAIN wire /\ Value(l) \in Values /\ Got(l, Value(l))
    <2>1. /\ l \in DOMAIN wire /\ wire[l].id[2] \in DOMAIN outcome[wire[l].id[1]].values
          /\ batches[wire[l].id[1]][wire[l].id[2]] = "query"
      BY DEF Returned
    <2>2. outcome[wire[l].id[1]].values \in Seq(Values)
      <3>1. outcome[wire[l].id[1]] \in Outcomes
        BY <1>1, <2>1, ElementOfSeq DEF WireOK, CallsTypeOK
      <3> QED BY <3>1 DEF Outcomes
    <2>3. Value(l) \in Values
      BY <2>1, <2>2, ElementOfSeq, LenProperties DEF Value
    <2> QED BY <2>1, <2>3 DEF Got, Value
  <1>4. k \in DOMAIN wire /\ Value(k) \in Values /\ Got(k, Value(k))
    BY <1>3
  <1>5. WrittenAt(Value(k)) <= k
    <2>1. PICK j \in DOMAIN wire : j <= k /\ wire[j].id = Value(k)
      BY <1>1, <1>4 DEF UsedOK
    <2> QED BY <1>2, <2>1
  <1>6. Abandoned = {} => WrittenAt(Value(k)) = k
    BY <1>1, <1>2, <1>4 DEF FreshOK
  <1>7. ASSUME NEW l \in Returned, l < k PROVE WrittenAt(Value(l)) < WrittenAt(Value(k))
    <2>1. l \in DOMAIN wire /\ Value(l) \in Values /\ Got(l, Value(l))
      BY <1>3
    <2>2. Before(wire, Value(l), Value(k))
      BY <1>1, <1>4, <1>7, <2>1 DEF UsedOK
    <2>3. PICK i \in DOMAIN wire, j \in DOMAIN wire :
            i < j /\ wire[i].id = Value(l) /\ wire[j].id = Value(k)
      BY <2>2 DEF Before
    <2> QED BY <1>2, <2>3
  <1> QED BY <1>5, <1>6, <1>7

(* Answers go to queries in the order in which these were written, none is *)
(* used twice, and none goes to a query older than the one it answers; as  *)
(* long as no read was given up, every query returns its own answer.       *)
THEOREM AnswersKeepOrder == Spec => []AnswersInOrder
  <1> QED BY AnswerInit, AnswerNext, AnswersAll, PTL DEF Spec
===============================================================================
