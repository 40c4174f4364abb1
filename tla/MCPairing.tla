------------------------------ MODULE MCPairing ------------------------------
(* Pairing for TLC: see README.md for the bounds.                           *)
EXTENDS Pairing
=============================================================================
