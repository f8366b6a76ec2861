-------------------------------- MODULE MCDriver --------------------------------
(* Instances of Driver for TLC. *)
EXTENDS Driver, TLC

CONSTANTS t1, t2

Symmetric == Permutations({t1, t2})
===============================================================================
