--------------------------- MODULE MCDirectExecutor ---------------------------
(* Batches of the TLC instances of DirectExecutor. *)
EXTENDS DirectExecutor

MCBatches      == {<<"query">>, <<"query", "write">>, <<"write", "query">>}
MCQueryOnly    == {<<"query">>}
===============================================================================
