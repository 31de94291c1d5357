------------------------------ MODULE MCCalls ------------------------------
(* Calls with every fault. *)
EXTENDS Calls
=============================================================================
