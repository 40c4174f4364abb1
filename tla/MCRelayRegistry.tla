--------------------------- MODULE MCRelayRegistry ---------------------------
(* Instances of RelayRegistry for TLC.  Connections are interchangeable.     *)
EXTENDS RelayRegistry, TLC

Symmetry == Permutations(Conn)
=============================================================================
