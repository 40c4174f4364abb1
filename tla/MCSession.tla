----------------------------- MODULE MCSession ------------------------------
(* One session whose peer may be reached on two relay drivers.             *)
EXTENDS Session
=============================================================================
