------------------------------ MODULE MCReceiver ------------------------------
(* Instances of Receiver for TLC. *)
EXTENDS Receiver, TLC

CONSTANTS peer1, peer2, fpA, fpB, msg, note, plan

SplitM == [p \in Payloads |-> IF p = msg THEN 2 ELSE 0]
Hash == [p \in Payloads |-> p]
Host == [p \in Fingerprints |-> "h"]
PeerPerms == Permutations({peer1, peer2})
===============================================================================
