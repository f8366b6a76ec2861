------------------------------- MODULE BatchPlan -------------------------------
(***************************************************************************)
(* _execute_pending_operations of driver.py as operators: how collected    *)
(* operations become one batch of commands, and what the result or the     *)
(* exception of the executor means for each of them.                       *)
(*                                                                         *)
(* A read is [kind |-> "read", size, valid, deferred], a write is          *)
(* [kind |-> "write", verify, valid] where verify is "off", "query" (there *)
(* is a query that reads the value back) or "none" (verification is on and *)
(* there is no such query).  valid: the command text is acceptable.        *)
(* Command indices start at 1; 0 is the None of the code.                  *)
(***************************************************************************)
EXTENDS Integers, Sequences, SequencesExt

NoIndex == 0

\* The classes of response that the driver tells apart: usable, not
\* parseable, parseable but not the expected value, and None.
ResponseClasses == {"good", "bad", "differs", "missing"}

CommandsOf(op, k) ==
  IF op.kind = "read"
  THEN [i \in 1..op.size |-> [op |-> k, role |-> "query"]]
  ELSE <<[op |-> k, role |-> "write"]>>
         \o IF op.verify = "query" THEN <<[op |-> k, role |-> "readback"]>> ELSE <<>>

Compile(ops) == FlattenSeq([k \in DOMAIN ops |-> CommandsOf(ops[k], k)])

\* Mutant of CommandsBefore: the readbacks of earlier writes are not counted.
CommandsBeforeNoReadbacks(ops, k) ==
  Len(SelectSeq(Compile(SubSeq(ops, 1, k - 1)), LAMBDA c : c.role # "readback"))

\* len(commands) when the loop reaches operation k.
CommandsBefore(ops, k) ==
  LET before[j \in 1..k] == IF j = 1 THEN 0 ELSE before[j - 1] + Len(CommandsOf(ops[j - 1], j - 1))
  IN before[k]

\* read_indexes: the indices of a read's responses.
ReadIndexes(ops, k) == LET n == CommandsBefore(ops, k) IN (n + 1)..(n + ops[k].size)

\* verification_indexes: of the write and of its readback.
WriteIndex(ops, k) == CommandsBefore(ops, k) + 1
QueryIndex(ops, k) ==
  IF ops[k].verify = "query" THEN CommandsBefore(ops, k) + 2 ELSE NoIndex

ReadOps(ops)     == {k \in DOMAIN ops : ops[k].kind = "read"}
VerifiedOps(ops) == {k \in DOMAIN ops : ops[k].kind = "write" /\ ops[k].verify # "off"}

\* Write(...) or Query(...) raises while the commands are assembled.
Invalid(ops) == \E k \in DOMAIN ops : ~ops[k].valid

-------------------------------------------------------------------------------
\* The executor raised.  The first verified write whose query index equals
\* the index of the exception - None included - is blamed.
Blamed(ops, failedIndex) ==
  {k \in VerifiedOps(ops) : QueryIndex(ops, k) = failedIndex}

FirstOf(S) == CHOOSE k \in S : \A j \in S : k <= j

NoError == [kind |-> "none", op |-> 0]

\* Mutant of ErrorOfException: a failed write counts as a failed readback.
ErrorOfExceptionLoose(ops, outcome) ==
  LET blamed == {k \in VerifiedOps(ops) :
                   outcome.index \in {WriteIndex(ops, k), QueryIndex(ops, k)}} IN
  IF blamed = {} \/ outcome.kind # "spd" THEN [kind |-> outcome.kind, op |-> 0]
  ELSE [kind |-> "verification", op |-> FirstOf(blamed)]

\* What leaves _execute_pending_operations: the exception itself, a
\* verification error for a failed readback, or the failure of the assert.
ErrorOfException(ops, outcome) ==
  LET blamed == Blamed(ops, outcome.index) IN
  IF blamed = {} \/ outcome.kind # "spd" THEN [kind |-> outcome.kind, op |-> 0]
  ELSE IF ops[FirstOf(blamed)].verify = "none"
  THEN [kind |-> "assertion", op |-> FirstOf(blamed)]
  ELSE [kind |-> "verification", op |-> FirstOf(blamed)]

-------------------------------------------------------------------------------
\* The executor returned.  Errors are numbered by the command they stand at.
ReadErrors(ops, responses) ==
  {[kind |-> IF \E i \in ReadIndexes(ops, k) : responses[i] = "missing"
             THEN "noResponse" ELSE "parse",
    op |-> k, index |-> CommandsBefore(ops, k) + 1] :
     k \in {j \in ReadOps(ops) :
              \E i \in ReadIndexes(ops, j) : responses[i] \in {"missing", "bad"}}}

\* Mutant of VerificationErrors: an unusable readback is let pass.
VerificationErrorsDiffers(ops, responses) ==
  {[kind |-> "verification", op |-> k,
    index |-> IF ops[k].verify = "none" THEN WriteIndex(ops, k) ELSE QueryIndex(ops, k)] :
     k \in {j \in VerifiedOps(ops) :
              ops[j].verify = "none" \/ responses[QueryIndex(ops, j)] = "differs"}}

VerificationErrors(ops, responses) ==
  {[kind |-> "verification", op |-> k,
    index |-> IF ops[k].verify = "none" THEN WriteIndex(ops, k) ELSE QueryIndex(ops, k)] :
     k \in {j \in VerifiedOps(ops) :
              ops[j].verify = "none" \/ responses[QueryIndex(ops, j)] # "good"}}

\* Mutant of ErrorOfResult: reads are looked at before verifications.
ErrorOfResultReadsFirst(ops, responses) ==
  LET reads == ReadErrors(ops, responses)
      errors == IF reads # {} THEN reads ELSE VerificationErrors(ops, responses) IN
  IF errors = {} THEN NoError
  ELSE LET e == CHOOSE e \in errors : \A f \in errors : e.index <= f.index IN
       [kind |-> e.kind, op |-> e.op]

\* min(errors, key=index)
ErrorOfResult(ops, responses) ==
  LET errors == ReadErrors(ops, responses) \cup VerificationErrors(ops, responses) IN
  IF errors = {} THEN NoError
  ELSE LET e == CHOOSE e \in errors : \A f \in errors : e.index <= f.index IN
       [kind |-> e.kind, op |-> e.op]
===============================================================================
