------------------------------- MODULE MCGateway -------------------------------
(* Instances of Gateway for TLC. *)
EXTENDS Gateway

CONSTANTS a, b   \* two connections
===============================================================================
