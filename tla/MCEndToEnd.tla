------------------------------ MODULE MCEndToEnd ------------------------------
(* Instances of EndToEnd for TLC; a tick is 2 seconds. *)
EXTENDS EndToEnd

CONSTANTS a, s1, s2, p1, p2
===============================================================================
