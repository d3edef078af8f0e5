------------------------------- MODULE MCPit -------------------------------
(* Instances of Pit for TLC. *)
EXTENDS Pit
=============================================================================
