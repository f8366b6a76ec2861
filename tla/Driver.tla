-------------------------------- MODULE Driver --------------------------------
(***************************************************************************)
(* SPD3000 of driver.py, used by several threads: semantic reads and       *)
(* writes, the batch() and verify_writes() scopes and the reentrant        *)
(* _operation_lock that both hold from entry to exit.                      *)
(*                                                                         *)
(* An operation outside a scope takes the lock, does all its work and      *)
(* gives the lock back, so it is one step; what other threads can do in    *)
(* between is what they can do while a scope is open.  The executor is     *)
(* any object of the Executor protocol: a batch returns one response per   *)
(* query or raises, with or without the index of a command.                *)
(***************************************************************************)
EXTENDS Operations, BatchPlan, FiniteSets

CONSTANTS
  Threads,       \* the threads that use the driver
  NoThread,      \* the owner of a free lock
  Model,         \* the connected model
  Used,          \* the operations that the threads call
  RawTexts,      \* {TRUE} or {TRUE, FALSE}: may raw command text be invalid?
  MaxDepth,      \* bound: scopes a thread has open at a time
  MaxOps,        \* bound: operations of a batch
  MaxFaults      \* bound: responses of a batch that are not good

ASSUME DriverAssumption ==
  /\ NoThread \notin Threads
  /\ Model \in Models
  /\ Used \subseteq Names
  /\ RawTexts \subseteq BOOLEAN
  /\ MaxDepth \in Nat
  /\ MaxOps \in Nat
  /\ MaxFaults \in Nat

VARIABLES
  owner,        \* the thread that holds _operation_lock
  depth,        \* how many times it has acquired it
  batchActive,  \* _batch_active
  pending,      \* _pending_operations
  responseDeferreds,  \* _batch_response_deferreds
  overrides,    \* _verify_writes_overrides
  globally,     \* _verify_writes_globally
  closed,       \* _closed; the executor is closed with the driver
  scopes,       \* the with statements each thread is in, outermost first
  deferreds,    \* the Deferreds of the open batch or else of the last run
  lastRun       \* history: the run of _execute_pending_operations that the
                \* last step made, NoRun if it made none

lockVars  == <<owner, depth>>
batchVars == <<batchActive, pending, responseDeferreds>>
modeVars  == <<overrides, globally>>
history   == <<deferreds, lastRun>>
vars == <<lockVars, batchVars, modeVars, closed, scopes, history>>

BatchScope      == [kind |-> "batch", enabled |-> FALSE]
VerifyScope(on) == [kind |-> "verify", enabled |-> on]

NoRun == [thread |-> NoThread, ops |-> <<>>, commands |-> <<>>, error |-> NoError,
          outcome |-> [kind |-> "none", index |-> NoIndex, responses |-> <<>>],
          batch |-> FALSE, list |-> <<>>]

\* The Deferreds that an open batch still has to settle.
Known == IF batchActive THEN deferreds ELSE <<>>

\* A step that runs nothing.
NoNewRun == lastRun' = NoRun /\ deferreds' = Known

-------------------------------------------------------------------------------
Init ==
  /\ owner = NoThread
  /\ depth = 0
  /\ batchActive = FALSE
  /\ pending = <<>>
  /\ responseDeferreds = <<>>
  /\ overrides = <<>>
  /\ globally \in BOOLEAN
  /\ closed = FALSE
  /\ scopes = [t \in Threads |-> <<>>]
  /\ deferreds = <<>>
  /\ lastRun = NoRun

\* Mutant of MayLock: the lock is not looked at.
MayLockAlways(t) == TRUE

\* with self._operation_lock: another thread's holding it blocks the call.
MayLock(t) == owner \in {NoThread, t}

Lock(t) == MayLock(t) /\ owner' = t /\ depth' = depth + 1

\* Mutant of Unlock: released in the body and again in the finally.
UnlockTwice(t) ==
  /\ depth' = depth - 2
  /\ owner' = IF depth <= 2 THEN NoThread ELSE owner

Unlock(t) ==
  /\ depth' = depth - 1
  /\ owner' = IF depth = 1 THEN NoThread ELSE owner

\* Mutant of VerifiesWrites: the outermost scope decides.
VerifiesWritesOutermost ==
  IF overrides # <<>> THEN overrides[1] ELSE globally

\* _should_verify_writes
VerifiesWrites ==
  IF overrides # <<>> THEN overrides[Len(overrides)] ELSE globally

(***************************************************************************)
(* The executor and what the driver makes of its answer.                   *)
(***************************************************************************)
Queries(ops) ==
  LET commands == Compile(ops) IN {i \in DOMAIN commands : commands[i].role # "write"}

\* BatchResult.values: None ("missing") for a write, and for the queries a
\* response that is good in all but MaxFaults of them.
Responses(ops) ==
  LET n == Len(Compile(ops))
      queries == Queries(ops) IN
  UNION {{[i \in 1..n |-> IF i \in F THEN fault[i]
                           ELSE IF i \in queries THEN "good" ELSE "missing"] :
            fault \in [F -> ResponseClasses \ {"good"}]} :
          F \in {G \in SUBSET queries : Cardinality(G) <= MaxFaults}}

\* "spd": an SPD3000Error; index 0: it names no command.  A closed executor
\* refuses the batch, or, if its close() raised, fails at the first command.
Outcomes(ops) ==
  LET n == Len(Compile(ops))
      Raised(kind, i) == [kind |-> kind, index |-> i, responses |-> <<>>] IN
  IF closed
  THEN {Raised("spd", NoIndex), Raised("spd", 1), Raised("gateway", NoIndex)}
  ELSE {Raised("spd", i) : i \in 0..n}
         \cup {Raised(kind, NoIndex) : kind \in {"gateway", "interrupt"}}
         \cup {[kind |-> "result", index |-> NoIndex, responses |-> r] :
                 r \in Responses(ops)}

ErrorOf(ops, outcome) ==
  IF Invalid(ops) THEN [kind |-> "validation", op |-> 0]
  ELSE IF outcome.kind = "result" THEN ErrorOfResult(ops, outcome.responses)
  ELSE ErrorOfException(ops, outcome)

\* The Deferred behind number d of the reads of ops.
ReadOf(ops, d) == CHOOSE k \in ReadOps(ops) : ops[k].deferred = d

\* An exception that the driver sees in time rejects every read, a response
\* resolves or rejects its own; invalid text and a failed assert leave the
\* Deferreds as they are.
Settle(known, ops, outcome) ==
  LET unsettled == ErrorOf(ops, outcome).kind \in {"validation", "assertion"}
      rejected  == IF outcome.kind # "result" THEN ReadOps(ops)
                   ELSE {e.op : e \in ReadErrors(ops, outcome.responses)} IN
  [d \in DOMAIN known |->
     LET k == ReadOf(ops, d) IN
     [state |-> IF unsettled THEN known[d].state
                ELSE IF k \in rejected THEN "rejected" ELSE "value",
      from |-> ReadIndexes(ops, k)]]

\* list: what the responses list of the batch scope is extended with.
RunOf(t, ops, outcome, list) ==
  [thread |-> t, ops |-> ops, commands |-> Compile(ops), outcome |-> outcome,
   error |-> ErrorOf(ops, outcome), batch |-> batchActive, list |-> list]

(***************************************************************************)
(* Operations.                                                             *)
(***************************************************************************)
\* The pending operation for a call; a read brings its Deferred with it.
Operation(t, name, valid) ==
  IF name \in Reads
  THEN [kind |-> "read", size |-> Size(name), valid |-> valid, thread |-> t,
        name |-> name, deferred |-> Len(Known) + 1]
  ELSE [kind |-> "write", valid |-> valid, thread |-> t, name |-> name,
        verify |-> IF ~VerifiesWrites THEN "off"
                   ELSE IF Readable(name, Model) THEN "query" ELSE "none"]

NewDeferred(op) ==
  IF op.kind = "read"
  THEN Append(Known, [state |-> "pending", from |-> {}])
  ELSE Known

\* Every operation that thread t could call now.  Semantic operations
\* validate their arguments first; raw text is looked at only when the
\* command object is made.
Callable(t) ==
  {Operation(t, p[1], p[2]) :
     p \in {q \in Used \X BOOLEAN :
              /\ Supported(q[1], Model)
              /\ q[2] \in IF q[1] \in {"scpi.write", "scpi.query"} THEN RawTexts ELSE {TRUE}}}

\* Inside a batch scope: _write and _queries only collect.
Collect(t) ==
  /\ MayLock(t)
  /\ batchActive
  /\ Len(pending) < MaxOps
  /\ \E op \in Callable(t) :
       /\ pending' = Append(pending, op)
       /\ deferreds' = NewDeferred(op)
       /\ responseDeferreds' = IF op.kind = "read" THEN Append(responseDeferreds, op.deferred)
                                                   ELSE responseDeferreds
  /\ lastRun' = NoRun
  /\ UNCHANGED <<lockVars, batchActive, modeVars, closed, scopes>>

\* Outside: a batch of its own, at once.
ExecuteNow(t) ==
  /\ MayLock(t)
  /\ ~batchActive
  /\ \E op \in Callable(t) : \E outcome \in Outcomes(<<op>>) :
       /\ deferreds' = Settle(NewDeferred(op), <<op>>, outcome)
       /\ lastRun' = RunOf(t, <<op>>, outcome, <<>>)
  /\ UNCHANGED <<lockVars, batchVars, modeVars, closed, scopes>>

\* The caller's own batch: what the executor answers passes through.
RawRun(t) ==
  \E outcome \in {"result", "spd", "gateway", "interrupt"} :
    /\ closed => outcome \in {"spd", "gateway"}
    /\ lastRun' = [NoRun EXCEPT !.thread = t, !.outcome.kind = outcome,
                               !.error.kind = IF outcome = "result" THEN "none" ELSE outcome]

\* Mutant of ExecuteRaw: only verification is looked at.
ExecuteRawInBatch(t) ==
  /\ MayLock(t)
  /\ deferreds' = Known
  /\ IF VerifiesWrites THEN lastRun' = NoRun ELSE RawRun(t)
  /\ UNCHANGED <<lockVars, batchVars, modeVars, closed, scopes>>

\* psu.scpi.execute(): refused in a batch scope and under verification.
ExecuteRaw(t) ==
  /\ MayLock(t)
  /\ deferreds' = Known
  /\ IF batchActive \/ VerifiesWrites THEN lastRun' = NoRun ELSE RawRun(t)
  /\ UNCHANGED <<lockVars, batchVars, modeVars, closed, scopes>>

(***************************************************************************)
(* with psu.batch():                                                       *)
(***************************************************************************)
EnterBatch(t) ==
  /\ Len(scopes[t]) < MaxDepth
  /\ ~batchActive
  /\ Lock(t)
  /\ batchActive' = TRUE
  /\ pending' = <<>>
  /\ responseDeferreds' = <<>>
  /\ scopes' = [scopes EXCEPT ![t] = Append(@, BatchScope)]
  /\ deferreds' = <<>>
  /\ lastRun' = NoRun
  /\ UNCHANGED <<modeVars, closed>>

\* Mutant of EnterNestedBatch: the lock is not given back before the raise.
EnterNestedBatchLeak(t) ==
  /\ batchActive
  /\ depth <= MaxDepth
  /\ Lock(t)
  /\ NoNewRun
  /\ UNCHANGED <<batchVars, modeVars, closed, scopes>>

\* A nested batch acquires, releases and raises.
EnterNestedBatch(t) ==
  /\ batchActive
  /\ MayLock(t)
  /\ NoNewRun
  /\ UNCHANGED <<lockVars, batchVars, modeVars, closed, scopes>>

\* The exit of the innermost scope, which must be of this kind.
Leave(t, kind) ==
  /\ scopes[t] # <<>>
  /\ scopes[t][Len(scopes[t])].kind = kind
  /\ scopes' = [scopes EXCEPT ![t] = SubSeq(@, 1, Len(@) - 1)]
  /\ Unlock(t)

ClearBatch ==
  /\ batchActive' = FALSE
  /\ pending' = <<>>
  /\ responseDeferreds' = <<>>

\* Mutant of ExitBatch: the list is extended whatever the run came to.
ExitBatchExtendAlways(t) ==
  /\ Leave(t, "batch")
  /\ ClearBatch
  /\ pending # <<>>
  /\ \E outcome \in Outcomes(pending) :
       /\ deferreds' = Settle(deferreds, pending, outcome)
       /\ lastRun' = RunOf(t, pending, outcome, responseDeferreds)
  /\ UNCHANGED <<modeVars, closed>>

\* The body is done: run what was collected, then fill the list.
ExitBatch(t) ==
  /\ Leave(t, "batch")
  /\ ClearBatch
  /\ pending # <<>>
  /\ \E outcome \in Outcomes(pending) :
       /\ deferreds' = Settle(deferreds, pending, outcome)
       /\ LET run == RunOf(t, pending, outcome, responseDeferreds) IN
          lastRun' = IF run.error = NoError THEN run ELSE [run EXCEPT !.list = <<>>]
  /\ UNCHANGED <<modeVars, closed>>

ExitEmptyBatch(t) ==
  /\ Leave(t, "batch")
  /\ ClearBatch
  /\ pending = <<>>
  /\ NoNewRun
  /\ UNCHANGED <<modeVars, closed>>

\* The body raised: everything collected is cancelled and nothing is sent.
AbortBatch(t) ==
  /\ Leave(t, "batch")
  /\ ClearBatch
  /\ pending # <<>>
  /\ deferreds' = [d \in DOMAIN deferreds |->
                     IF \E k \in ReadOps(pending) : pending[k].deferred = d
                     THEN [deferreds[d] EXCEPT !.state = "cancelled"]
                     ELSE deferreds[d]]
  /\ lastRun' = NoRun
  /\ UNCHANGED <<modeVars, closed>>

(***************************************************************************)
(* with psu.verify_writes(enabled): and the global setting.                *)
(***************************************************************************)
EnterVerify(t, on) ==
  /\ Len(scopes[t]) < MaxDepth
  /\ Lock(t)
  /\ overrides' = Append(overrides, on)
  /\ scopes' = [scopes EXCEPT ![t] = Append(@, VerifyScope(on))]
  /\ NoNewRun
  /\ UNCHANGED <<batchVars, globally, closed>>

ExitVerify(t) ==
  /\ Leave(t, "verify")
  /\ overrides' = SubSeq(overrides, 1, Len(overrides) - 1)
  /\ NoNewRun
  /\ UNCHANGED <<batchVars, globally, closed>>

SetGlobally(t, on) ==
  /\ MayLock(t)
  /\ globally' = on
  /\ NoNewRun
  /\ UNCHANGED <<lockVars, batchVars, overrides, closed, scopes>>

\* close(): the executor is closed, whether or not its close() raises.
Close(t) ==
  /\ MayLock(t)
  /\ ~closed
  /\ closed' = TRUE
  /\ NoNewRun
  /\ UNCHANGED <<lockVars, batchVars, modeVars, scopes>>

-------------------------------------------------------------------------------
Next ==
  \E t \in Threads :
    \/ Collect(t)
    \/ ExecuteNow(t)
    \/ ExecuteRaw(t)
    \/ EnterBatch(t)
    \/ EnterNestedBatch(t)
    \/ ExitBatch(t)
    \/ ExitEmptyBatch(t)
    \/ AbortBatch(t)
    \/ \E on \in BOOLEAN : EnterVerify(t, on)
    \/ ExitVerify(t)
    \/ \E on \in BOOLEAN : SetGlobally(t, on)
    \/ Close(t)

Spec == Init /\ [][Next]_vars

-------------------------------------------------------------------------------
ReadOp   == [kind : {"read"}, size : {1, 4}, valid : BOOLEAN, thread : Threads,
             name : Names, deferred : Nat \ {0}]
WriteOp  == [kind : {"write"}, valid : BOOLEAN, thread : Threads, name : Names,
             verify : {"off", "query", "none"}]
Op       == ReadOp \cup WriteOp
Scope    == [kind : {"batch", "verify"}, enabled : BOOLEAN]
Deferred == [state : {"pending", "value", "rejected", "cancelled"}, from : SUBSET Nat]
Errors   == {"none", "validation", "assertion", "verification", "noResponse", "parse",
             "spd", "gateway", "interrupt"}

TypeOK ==
  /\ owner \in Threads \cup {NoThread}
  /\ depth \in 0..MaxDepth
  /\ batchActive \in BOOLEAN
  /\ pending \in Seq(Op) /\ Len(pending) <= MaxOps
  /\ responseDeferreds \in Seq(1..MaxOps)
  /\ overrides \in Seq(BOOLEAN)
  /\ globally \in BOOLEAN
  /\ closed \in BOOLEAN
  /\ scopes \in [Threads -> Seq(Scope)]
  /\ deferreds \in Seq(Deferred)
  /\ lastRun.ops \in Seq(Op)
  /\ lastRun.error.kind \in Errors

\* r[1], r[2], ... are the values of val at the elements of S in their order.
InOrder(r, S, val) ==
  \E place \in [DOMAIN r -> S] :
    /\ \A i, j \in DOMAIN r : i < j => place[i] < place[j]
    /\ \A k \in S : \E i \in DOMAIN r : place[i] = k
    /\ \A i \in DOMAIN r : r[i] = val[place[i]]

(* The lock, the batch flag and the overrides follow the with statements:  *)
(* the lock is held exactly as often as its owner has scopes open, no      *)
(* other thread is in a scope, and the override in force is that of the    *)
(* owner's innermost verify_writes() - however its batches ended.          *)
VerifyScopes(t) == {k \in DOMAIN scopes[t] : scopes[t][k].kind = "verify"}
Enabled(t)      == [k \in DOMAIN scopes[t] |-> scopes[t][k].enabled]
ScopesHoldTheLock ==
  /\ \A t \in Threads : scopes[t] # <<>> => owner = t
  /\ owner # NoThread =>
       /\ depth = Len(scopes[owner])
       /\ InOrder(overrides, VerifyScopes(owner), Enabled(owner))
       /\ batchActive <=> \E k \in DOMAIN scopes[owner] : scopes[owner][k].kind = "batch"
  /\ owner = NoThread => depth = 0 /\ ~batchActive /\ overrides = <<>>

(* A batch holds the operations of one thread only, the one that opened    *)
(* it: no other thread's write slips into it or executes beside it.        *)
BatchOfOneThread ==
  /\ batchActive => \A k \in DOMAIN pending : pending[k].thread = owner
  /\ \A k \in DOMAIN lastRun.ops : lastRun.ops[k].thread = lastRun.thread

(* "responses ... is extended with the ordinary parsed results of explicit *)
(* user queries when the batch exits successfully": it has the value of    *)
(* every read, in order, or nothing at all.                                *)
ListFilledOnSuccess ==
  lastRun.batch =>
    LET reads == ReadOps(lastRun.ops) IN
    IF lastRun.error.kind = "none"
    THEN /\ InOrder(lastRun.list, reads, [k \in reads |-> lastRun.ops[k].deferred])
         /\ \A i \in DOMAIN lastRun.list : deferreds[lastRun.list[i]].state = "value"
    ELSE lastRun.list = <<>>

(* When a call or a batch ends without an error, every write that was to   *)
(* be verified has been read back with the value it asked for.             *)
SuccessMeansVerified ==
  lastRun.error.kind = "none" =>
    \A i \in DOMAIN lastRun.commands :
      LET c == lastRun.commands[i]
          op == lastRun.ops[c.op] IN
      c.role = "write" /\ op.verify # "off" =>
        /\ op.verify = "query"
        /\ lastRun.commands[i + 1] = [op |-> c.op, role |-> "readback"]
        /\ lastRun.outcome.responses[i + 1] = "good"

(* When several responses of a batch are at fault, the error raised is the *)
(* one of the operation that comes first in the batch.                     *)
AtFault ==
  {i \in DOMAIN lastRun.commands :
     LET c == lastRun.commands[i] IN
     \/ c.role = "query" /\ lastRun.outcome.responses[i] \in {"bad", "missing"}
     \/ c.role = "readback" /\ lastRun.outcome.responses[i] # "good"
     \/ c.role = "write" /\ lastRun.ops[c.op].verify = "none"}
FirstFaultRaised ==
  lastRun.outcome.kind = "result" /\ lastRun.error.kind # "validation" =>
    IF AtFault = {} THEN lastRun.error = NoError
    ELSE lastRun.error.op = lastRun.commands[FirstOf(AtFault)].op

(* A verification error that stands for a failed batch names a write that  *)
(* was sent: the command that failed is the readback of that very write.   *)
VerificationErrorAfterWrite ==
  lastRun.error.kind = "verification" /\ lastRun.outcome.kind # "result" =>
    /\ lastRun.outcome.index # NoIndex
    /\ lastRun.commands[lastRun.outcome.index] = [op |-> lastRun.error.op, role |-> "readback"]

(* The verification of a write is decided when it is called, by the        *)
(* innermost verify_writes() scope of its thread or else by the global     *)
(* setting.                                                                *)
VerificationFollowsScope ==
  [][ Len(pending') > Len(pending) /\ pending'[Len(pending')].kind = "write" =>
        LET op == pending'[Len(pending')]
            t  == op.thread IN
        /\ VerifyScopes(t) = {} => (op.verify # "off") = globally
        /\ \A k \in VerifyScopes(t) :
             (\A j \in VerifyScopes(t) : j <= k) =>
               (op.verify # "off") = scopes[t][k].enabled ]_vars

(* While a batch collects, nothing is executed, by its own thread or by    *)
(* another: not at once, not as a raw batch, only the batch at its exit.   *)
NothingBesideTheBatch ==
  [][ batchActive /\ lastRun' # NoRun => ~batchActive' /\ lastRun'.ops = pending ]_vars

(* Once a run is over the driver saw the end of, none of its reads is      *)
(* pending, and one that has a value got it from the responses to its own  *)
(* queries, wherever readbacks of verified writes stand in the batch.      *)
(* Invalid text and the failed assert are left out here; see               *)
(* NothingStaysPending.                                                    *)
SettledByItsRun ==
  lastRun.error.kind \notin {"validation", "assertion"} =>
    \A k \in ReadOps(lastRun.ops) :
      LET d == deferreds[lastRun.ops[k].deferred] IN
      /\ d.state # "pending"
      /\ d.state = "value" =>
           /\ d.from = {i \in DOMAIN lastRun.commands : lastRun.commands[i].op = k}
           /\ \A i \in d.from : lastRun.outcome.responses[i] \in {"good", "differs"}

(* Deferred.done, "whether the batch has resolved, failed, or cancelled    *)
(* this result": no Deferred is pending once no batch is open.             *)
NothingStaysPending ==
  ~batchActive => \A d \in DOMAIN deferreds : deferreds[d].state # "pending"

(* "If a write fails, its original driver or gateway exception is          *)
(* preserved": an exception of the executor that is not about a readback   *)
(* reaches the caller as it is.                                            *)
OriginalErrorPreserved ==
  LET o == lastRun.outcome IN
  /\ lastRun.error.kind # "validation"
  /\ o.kind \notin {"none", "result"}
  /\ o.index # NoIndex => lastRun.commands[o.index].role = "write"
  => lastRun.error.kind = o.kind
===============================================================================
