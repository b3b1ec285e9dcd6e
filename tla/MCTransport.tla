----------------------------- MODULE MCTransport -----------------------------
(* Small instances of Transport for TLC. *)
EXTENDS Transport, TLC

CONSTANTS s1, s2, p1, c1

Perms == Permutations({s1, s2})
==============================================================================
