------------------------------ MODULE MCEngine -------------------------------
(* Two callers, two route ids, two peers.                                  *)
EXTENDS Engine

\* The configured routes up to the names of routes and peers: none, one, two
\* with one peer, two with two peers.
MCInit ==
  /\ Init
  /\ LET r == CHOOSE x \in Routes : TRUE
         n == CHOOSE x \in Nodes : TRUE IN
     routes[r].node = n \/ \A q \in Routes : routes[q] = NoRoute

MCSpec == MCInit /\ [][Next]_vars /\ Fairness
=============================================================================
