---------------------------- MODULE MCPhysicalOwner ----------------------------
(* Batches of the TLC instances of PhysicalOwner. *)
EXTENDS PhysicalOwner

MCBatches   == {<<"query">>, <<"write", "query">>}
MCQueryOnly == {<<"query">>}
===============================================================================
