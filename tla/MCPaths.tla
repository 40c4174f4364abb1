------------------------------- MODULE MCPaths -------------------------------
(* Instances of Paths in which every session is with the one peer: that is *)
(* where sessions meet.                                                    *)
EXTENDS Paths

CONSTANT p1

OnePeerOf == [s \in Session |-> p1]
OneReach == [p \in Peer |-> Addr]

====
