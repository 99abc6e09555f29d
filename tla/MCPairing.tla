------------------------------ MODULE MCPairing ------------------------------
(* Two devices for TLC. *)
EXTENDS Pairing

CONSTANTS A, B
=============================================================================
