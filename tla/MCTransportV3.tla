---------------------------- MODULE MCTransportV3 ----------------------------
(* Small instances of TransportV3 for TLC. *)
EXTENDS TransportV3, TLC

CONSTANTS s1, s2, c1

FragmentHeaders == Fragments
==============================================================================
