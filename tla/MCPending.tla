------------------------------ MODULE MCPending ------------------------------
(* Pending for TLC: the constants get their values in MCPending.cfg. *)
EXTENDS Pending
=============================================================================
