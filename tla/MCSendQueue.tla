----------------------------- MODULE MCSendQueue -----------------------------
(* Small instances of SendQueue. *)
EXTENDS SendQueue, TLC

CONSTANT d1

\* Both connections through one driver.
SharedDriver == [c \in Conn |-> d1]
RelaySymmetry == Permutations(Relay)
====
