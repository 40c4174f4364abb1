---------------------------- MODULE MCRelayDriver ----------------------------
(* Small instances of RelayDriver. *)
EXTENDS RelayDriver

\* Of the relays only the last one can be reached.
LastAlive == {Relays - 1}
\* Every relay can be reached.
AllAlive == 0..(Relays - 1)
====
