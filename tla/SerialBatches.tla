----------------------------- MODULE SerialBatches -----------------------------
(***************************************************************************)
(* What an owner of the physical connection promises: batches take turns.  *)
(* One batch at a time sends its commands, in order from the first; it may *)
(* end after any of them, and it never comes back.                         *)
(***************************************************************************)
EXTENDS Integers, Sequences

CONSTANT BatchIds   \* numbers of the batches that may be submitted, all above 0

VARIABLES
  log,      \* the commands sent so far, as pairs <<batch, command index>>
  current   \* the next command of the batch whose turn it is

vars == <<log, current>>

Idle == <<0, 0>>

Init == log = <<>> /\ current = Idle

Begin ==
  /\ current = Idle
  /\ \E b \in BatchIds :
       /\ \A k \in DOMAIN log : log[k][1] # b
       /\ current' = <<b, 1>>
  /\ UNCHANGED log

Send ==
  /\ current # Idle
  /\ log' = Append(log, current)
  /\ current' \in {Idle, <<current[1], current[2] + 1>>}

End ==
  /\ current # Idle
  /\ current' = Idle
  /\ UNCHANGED log

Next == Begin \/ Send \/ End

Spec == Init /\ [][Next]_vars
===============================================================================
