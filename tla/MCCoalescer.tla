----------------------------- MODULE MCCoalescer -----------------------------
(* Small instances of Coalescer for TLC. *)
EXTENDS Coalescer, TLC

CONSTANTS w1, w2, t1, t2

Perms == Permutations({w1, w2}) \cup Permutations({t1, t2})
==============================================================================
