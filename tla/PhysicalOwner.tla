----------------------------- MODULE PhysicalOwner -----------------------------
(***************************************************************************)
(* _PhysicalOwner of gateway/server.py around the DirectExecutor: the      *)
(* request handlers put work on a queue, one worker thread runs it through *)
(* the executor with the settings of the client it came from, and close()  *)
(* stops the worker with a None in the queue, waits five seconds for it    *)
(* and closes the executor.                                                *)
(*                                                                         *)
(* A work is named by its place in the order of submission.  All calls of  *)
(* execute() come from the worker, so the batch of the executor with the   *)
(* same number should be the same work: WorkIsTheBatch checks it.          *)
(***************************************************************************)
EXTENDS DirectExecutor

CONSTANTS
  worker,    \* the thread "spd3000-owner"
  closer     \* the thread that calls close()

ASSUME OwnerAssumption == worker \in Threads /\ closer \in Threads /\ worker # closer

VARIABLES
  work,              \* every _Work submitted: its commands and its interval
  workState,         \* "queued", "executing" or, once the event is set, "done"
  queue,             \* _queue, with Stop for None
  current,           \* the work in the worker's hands, 0 if none
  ownerPc,           \* where the worker's _run is
  previousInterval,  \* _previous_interval
  lastCompletedAt,   \* _last_completed_at
  closePc,           \* where close() is
  joinTimedOut       \* history: join(timeout=5) gave up

ownerVars == <<work, workState, queue, current, ownerPc, previousInterval,
               lastCompletedAt, closePc, joinTimedOut>>
allVars == <<vars, ownerVars>>

Stop == 0   \* the None that ends _run

OwnerInit ==
  /\ Init
  /\ work = <<>>
  /\ workState = <<>>
  /\ queue = <<>>
  /\ current = 0
  /\ ownerPc = "get"
  /\ previousInterval = NoTime
  /\ lastCompletedAt = NoTime
  /\ closePc = "open"
  /\ joinTimedOut = FALSE

-------------------------------------------------------------------------------
\* execute() up to the wait for the event, on the thread of a request handler.
Submit(commands, i) ==
  /\ Len(work) < MaxBatches
  /\ work' = Append(work, [commands |-> commands, interval |-> i])
  /\ workState' = Append(workState, "queued")
  /\ queue' = Append(queue, Len(work) + 1)
  /\ UNCHANGED <<vars, current, ownerPc, previousInterval, lastCompletedAt, closePc,
                 joinTimedOut>>

(***************************************************************************)
(* The worker's loop.                                                      *)
(***************************************************************************)
\* Mutant of GetWork: the newest work first.
GetNewestWork ==
  /\ ownerPc = "get"
  /\ queue # <<>>
  /\ queue[Len(queue)] # Stop
  /\ queue' = SubSeq(queue, 1, Len(queue) - 1)
  /\ current' = queue[Len(queue)]
  /\ workState' = [workState EXCEPT ![current'] = "executing"]
  /\ ownerPc' = "space"
  /\ UNCHANGED <<vars, work, previousInterval, lastCompletedAt, closePc, joinTimedOut>>

GetWork ==
  /\ ownerPc = "get"
  /\ queue # <<>>
  /\ Head(queue) # Stop
  /\ queue' = Tail(queue)
  /\ current' = Head(queue)
  /\ workState' = [workState EXCEPT ![Head(queue)] = "executing"]
  /\ ownerPc' = "space"
  /\ UNCHANGED <<vars, work, previousInterval, lastCompletedAt, closePc, joinTimedOut>>

GetStop ==
  /\ ownerPc = "get"
  /\ queue # <<>>
  /\ Head(queue) = Stop
  /\ queue' = Tail(queue)
  /\ ownerPc' = "stopped"
  /\ UNCHANGED <<vars, work, workState, current, previousInterval, lastCompletedAt,
                 closePc, joinTimedOut>>

\* The distance to keep from the previous work.
Required(new) == IF previousInterval > new THEN previousInterval ELSE new

\* The sleep before a work, then the executor gets the work's settings.
SpaceWorks ==
  /\ ownerPc = "space"
  /\ LET new == work[current].interval
         allowedAt == lastCompletedAt + Required(new) IN
     /\ \E d \in Delays :
          now' = d + IF lastCompletedAt = NoTime \/ allowedAt <= now THEN now ELSE allowedAt
     /\ interval' = new
  /\ ownerPc' = "call"
  /\ UNCHANGED <<lastWriteAt, lockVars, callVars, wire, instrumentVars, work, workState,
                 queue, current, previousInterval, lastCompletedAt, closePc, joinTimedOut>>

CallExecutor ==
  /\ ownerPc = "call"
  /\ Call(worker, work[current].commands)
  /\ ownerPc' = "running"
  /\ UNCHANGED <<work, workState, queue, current, previousInterval, lastCompletedAt,
                 closePc, joinTimedOut>>

\* Mutant of FinishWork: a failed work does not count for the spacing.
FinishSuccessOnly ==
  /\ ownerPc = "running"
  /\ pc[worker] = "idle"
  /\ IF outcome[current].kind = "result"
     THEN previousInterval' = work[current].interval /\ lastCompletedAt' = now
     ELSE UNCHANGED <<previousInterval, lastCompletedAt>>
  /\ workState' = [workState EXCEPT ![current] = "done"]
  /\ current' = 0
  /\ ownerPc' = "get"
  /\ UNCHANGED <<vars, work, queue, closePc, joinTimedOut>>

\* Mutant of FinishWork: the worker thread ends with the error of a work.
FinishOrDie ==
  /\ ownerPc = "running"
  /\ pc[worker] = "idle"
  /\ previousInterval' = work[current].interval
  /\ lastCompletedAt' = now
  /\ workState' = [workState EXCEPT ![current] = "done"]
  /\ current' = 0
  /\ ownerPc' = IF outcome[current].kind = "result" THEN "get" ELSE "stopped"
  /\ UNCHANGED <<vars, work, queue, closePc, joinTimedOut>>

\* A result and an Exception alike: the finally block, then the next work.
FinishWork ==
  /\ ownerPc = "running"
  /\ pc[worker] = "idle"
  /\ previousInterval' = work[current].interval
  /\ lastCompletedAt' = now
  /\ workState' = [workState EXCEPT ![current] = "done"]
  /\ current' = 0
  /\ ownerPc' = "get"
  /\ UNCHANGED <<vars, work, queue, closePc, joinTimedOut>>

(***************************************************************************)
(* close().                                                                *)
(***************************************************************************)
PutStop ==
  /\ closePc = "open"
  /\ queue' = Append(queue, Stop)
  /\ closePc' = "joining"
  /\ UNCHANGED <<vars, work, workState, current, ownerPc, previousInterval,
                 lastCompletedAt, joinTimedOut>>

\* Mutant of Join: the worker is not waited for.
JoinAtOnce ==
  /\ closePc = "joining"
  /\ UNCHANGED joinTimedOut
  /\ closePc' = "closing"
  /\ CallClose(closer)
  /\ UNCHANGED <<work, workState, queue, current, ownerPc, previousInterval, lastCompletedAt>>

\* Where time passes for the worker: a sleep that is due, of its own or of the
\* executor, or a call of the transport.
WorkerIsLong ==
  \/ /\ ownerPc = "space" /\ lastCompletedAt # NoTime
     /\ lastCompletedAt + Required(work[current].interval) > now
  \/ pc[worker] = "wait" /\ WriteAllowedAt > now
  \/ pc[worker] = "settle" /\ interval > 0
  \/ pc[worker] \in {"write", "read"}

\* join returns when the worker has stopped, or after five seconds. If they end
\* between two such places, it could as well have been at the one before: close()
\* then goes on whenever it likes.
Join ==
  /\ closePc = "joining"
  /\ ownerPc = "stopped" \/ WorkerIsLong
  /\ joinTimedOut' = (ownerPc # "stopped")
  /\ closePc' = "closing"
  /\ CallClose(closer)
  /\ UNCHANGED <<work, workState, queue, current, ownerPc, previousInterval, lastCompletedAt>>

\* executor.close() returned, or raised to the caller.
Closed ==
  /\ closePc = "closing"
  /\ pc[closer] = "idle"
  /\ closePc' = "closed"
  /\ UNCHANGED <<vars, work, workState, queue, current, ownerPc, previousInterval,
                 lastCompletedAt, joinTimedOut>>

-------------------------------------------------------------------------------
ExecutorStep ==
  /\ \E t \in {worker, closer} : Step(t)
  /\ UNCHANGED ownerVars

InstrumentStep ==
  /\ Answer \/ Ignore
  /\ UNCHANGED ownerVars

WorkerStep == GetWork \/ GetStop \/ SpaceWorks \/ CallExecutor \/ FinishWork

OwnerNext ==
  \/ \E commands \in Batches, i \in Intervals : Submit(commands, i)
  \/ WorkerStep
  \/ PutStop
  \/ Join
  \/ Closed
  \/ ExecutorStep
  \/ InstrumentStep

\* The worker thread runs, its sleeps are finite and every transport call
\* ends, at the latest by its timeout.
OwnerSpec ==
  /\ OwnerInit
  /\ [][OwnerNext]_allVars
  /\ WF_allVars(WorkerStep)
  /\ WF_allVars(ExecutorStep)

-------------------------------------------------------------------------------
OwnerTypeOK ==
  /\ TypeOK
  /\ work \in Seq([commands : Batches, interval : Intervals])
  /\ workState \in Seq({"queued", "executing", "done"})
  /\ queue \in Seq(Nat)
  /\ current \in 0..MaxBatches
  /\ ownerPc \in {"get", "space", "call", "running", "stopped"}
  /\ previousInterval \in Intervals \cup {NoTime}
  /\ lastCompletedAt \in Nat \cup {NoTime}
  /\ closePc \in {"open", "joining", "closing", "closed"}
  /\ joinTimedOut \in BOOLEAN

(* Works run in the order of submission and each under the settings of its *)
(* own client: the batch of a work is executed with its interval, and a    *)
(* work whose event is set has a result or an error (never neither, the    *)
(* GatewayInternalError of execute()).                                     *)
WorkIsTheBatch ==
  /\ \A b \in DOMAIN batches : batches[b] = work[b].commands
  /\ \A k \in DOMAIN wire : wire[k].interval = work[wire[k].id[1]].interval
  /\ \A w \in DOMAIN work : workState[w] = "done" =>
       w \in DOMAIN outcome /\ outcome[w].kind # "pending"

(* Two commands of different works are as far apart as both clients asked  *)
(* for, also when the first one failed and left no write time.             *)
WorksSpaced ==
  \A j, k \in DOMAIN wire :
    j < k /\ wire[j].id[1] # wire[k].id[1] =>
      /\ wire[k].start >= wire[j].end + wire[j].interval
      /\ wire[k].start >= wire[j].end + wire[k].interval

(* A close() whose join did not time out refuses nobody: every work that   *)
(* reached the worker before the None was run by an open executor.         *)
QuietStopRefusesNobody ==
  ~joinTimedOut => \A w \in DOMAIN outcome : outcome[w].kind # "closed"

(* "Stop a gateway during a query and require a gateway exception rather   *)
(* than an instrument exception": stopping the owner never makes a work    *)
(* fail with the executor's own SPD3000ConnectionError (the work behind a  *)
(* long one fails with it, when close() has not waited any longer).        *)
StopGivesNoInstrumentError ==
  \A w \in DOMAIN outcome : outcome[w].kind # "closed"

(* Whatever happens to the works before it, a work that was queued before  *)
(* the None is eventually done: its handler stops waiting.                 *)
AcceptedWorkEnds ==
  \A w \in 1..MaxBatches :
    (w \in DOMAIN work /\ closePc = "open") ~> (w \in DOMAIN work /\ workState[w] = "done")
===============================================================================
