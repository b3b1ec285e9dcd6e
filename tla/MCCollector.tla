----------------------------- MODULE MCCollector -----------------------------
(* An instance of Collector for TLC: an envelope in two fragments, one in  *)
(* as many as there are sequence numbers, and whole payloads of every kind. *)
EXTENDS Collector

CONSTANTS two, full, plain, proto, junk

Parts == [p \in Payloads |-> IF p = two THEN 2 ELSE IF p = full THEN SeqSpace ELSE 0]
Hash == [p \in Payloads |-> p]
Formats == [p \in Payloads |->
              IF p = proto THEN "protobuf" ELSE IF p = junk THEN "junk" ELSE "json"]
Populated == [p \in Payloads |->
                IF p = plain THEN {"metrics", "logs"} ELSE {"metrics", "traces"}]
=============================================================================
