----------------------------- MODULE ChunkedSend -----------------------------
(***************************************************************************)
(* SendCycle of a single goroutine with one signal: sendChunkedSignal of   *)
(* entropyops-helper/internal/transport/agenticudp.go.  The batch is tried *)
(* whole, then in chunks whose size is halved, from the first record on,   *)
(* whenever a datagram proves too long, and at last record by record.      *)
(*                                                                         *)
(* The client underneath is reduced to its counters and to the number of   *)
(* awaited datagrams, which Transport keeps exact (its Accounting).  They  *)
(* are kept per era, so that properties can tell the datagrams of one      *)
(* part of a session from those of another; no action of the program reads *)
(* the era of an awaited or a lost datagram.                               *)
(***************************************************************************)
EXTENDS Integers

CONSTANTS
    Records,     \* number of records of the batch
    ChunkSize,   \* records per chunk of the first chunked pass (15)
    Batches,     \* batches: each the set of slices <<first, last>> of records
                 \* whose datagram is within maxPayload
    Refused,     \* slices whose write the system calls too long
    Window       \* maxInflight; 0 disables the window

Eras == {"warm", "main"}
Record == 1 .. Records

ASSUME ChunkedSendAssumption ==
    /\ Records \in Nat \ {0} /\ ChunkSize \in Nat \ {0} /\ Window \in Nat

VARIABLES
    era,         \* part of the session the sender is in
    cycle,       \* "none", "whole", "chunks", "single", "sent" or "failed"
    fitting,     \* the batch of this cycle
    size,        \* chunkSize
    off,         \* records of this pass already sent
    copies,      \* history: how often each record was written in this cycle
    passes,      \* history: passes over the batch begun in this cycle
    sent, acked, dropped,   \* Stats() counters
    out,         \* awaited datagrams, by era
    lost         \* history: given up datagrams, by era

loopVars == <<cycle, fitting, size, off, copies, passes>>
clientVars == <<sent, acked, dropped, out, lost>>
sendVars == <<era, loopVars, clientVars>>

-----------------------------------------------------------------------------
NoCycle ==
    /\ cycle = "none" /\ fitting = {} /\ size = 0 /\ off = 0 /\ passes = 0
    /\ copies = [r \in Record |-> 0]
FreshClient ==
    /\ sent = 0 /\ acked = 0 /\ dropped = 0
    /\ out = [e \in Eras |-> 0] /\ lost = [e \in Eras |-> 0]

(* SendCycle begins with the whole batch as one datagram. *)
BeginCycle ==
    /\ cycle' = "whole" /\ fitting' \in Batches /\ size' = Records /\ off' = 0 /\ passes' = 1
    /\ copies' = [r \in Record |-> 0]
    /\ UNCHANGED clientVars

(* The records of the next datagram. *)
SliceEnd == IF off + size > Records THEN Records ELSE off + size
Slice == <<off + 1, SliceEnd>>

(* waitForInflightWindow lets a datagram pass; the whole batch never waits. *)
WindowFull == Window > 0 /\ out["warm"] + out["main"] >= Window
MaySend ==
    /\ cycle \in {"whole", "chunks", "single"} /\ off < Records
    /\ cycle = "whole" \/ ~WindowFull

(* The write succeeds; a guaranteed datagram is awaited from then on. *)
SendSlice_Skips ==
    /\ MaySend /\ Slice \in fitting \ Refused
    /\ copies' = [r \in Record |-> IF off < r /\ r <= SliceEnd
                                   THEN copies[r] + 1
                                   ELSE copies[r]]
    /\ off' = off + size + 1
    /\ sent' = sent + 1 /\ out' = [out EXCEPT ![era] = @ + 1]
    /\ UNCHANGED <<era, cycle, fitting, size, passes, acked, dropped, lost>>

SendSlice ==
    /\ MaySend /\ Slice \in fitting \ Refused
    /\ copies' = [r \in Record |-> IF off < r /\ r <= SliceEnd
                                   THEN copies[r] + 1
                                   ELSE copies[r]]
    /\ off' = off + size
    /\ sent' = sent + 1 /\ out' = [out EXCEPT ![era] = @ + 1]
    /\ UNCHANGED <<era, cycle, fitting, size, passes, acked, dropped, lost>>

(* The datagram is too long for maxPayload, or for the system, which costs *)
(* a drop: the pass is given up and the next one, with chunks half as      *)
(* large, starts at the first record again.  A single record too long ends *)
(* the cycle.                                                              *)
TooLong ==
    /\ MaySend /\ Slice \notin fitting \ Refused
    /\ dropped' = IF Slice \in fitting THEN dropped + 1 ELSE dropped
    /\ \/ /\ cycle = "whole"
          /\ cycle' = "chunks" /\ size' = ChunkSize /\ off' = 0
          /\ passes' = passes + 1
       \/ /\ cycle = "chunks"
          /\ off' = 0 /\ passes' = passes + 1
          /\ IF size \div 2 = 0 THEN cycle' = "single" /\ size' = 1
                                ELSE cycle' = cycle /\ size' = size \div 2
       \/ /\ cycle = "single"
          /\ cycle' = "failed" /\ UNCHANGED <<size, off, passes>>
    /\ UNCHANGED <<era, fitting, copies, sent, acked, out, lost>>

(* The write fails for another reason. *)
WriteFails ==
    /\ MaySend /\ Slice \in fitting
    /\ dropped' = dropped + 1
    /\ cycle' = "failed"
    /\ UNCHANGED <<era, fitting, size, off, copies, passes, sent, acked, out, lost>>

(* The deadline of 60 s, shared by all chunks, passes in the window. *)
Stall ==
    /\ cycle \in {"chunks", "single"} /\ off < Records /\ WindowFull
    /\ cycle' = "failed"
    /\ UNCHANGED <<era, fitting, size, off, copies, passes, clientVars>>

(* The pass reached the last record: SendCycle returns nil. *)
PassDone ==
    /\ cycle \in {"whole", "chunks", "single"} /\ off >= Records
    /\ cycle' = "sent"
    /\ UNCHANGED <<era, fitting, size, off, copies, passes, clientVars>>

ChunkLoop == SendSlice \/ TooLong \/ WriteFails \/ Stall \/ PassDone

-----------------------------------------------------------------------------
(* The client's other goroutines: ackLoop counts an ACK that matches, and  *)
(* retransmitLoop gives a datagram up.                                     *)
ProcessACK(e) ==
    /\ out[e] > 0
    /\ out' = [out EXCEPT ![e] = @ - 1] /\ acked' = acked + 1
    /\ UNCHANGED <<era, loopVars, sent, dropped, lost>>

GiveUp(e) ==
    /\ out[e] > 0
    /\ out' = [out EXCEPT ![e] = @ - 1] /\ dropped' = dropped + 1
    /\ lost' = [lost EXCEPT ![e] = @ + 1]
    /\ UNCHANGED <<era, loopVars, sent, acked>>

-----------------------------------------------------------------------------
(* When SendCycle returns nil every record was in a datagram written, and  *)
(* a record travelled more than once only because an earlier pass was      *)
(* broken off at a datagram that was too long: the offsets of              *)
(* sendChunkedSignal neither skip a record nor visit one twice in a pass.  *)
BatchCovered ==
    cycle = "sent" => \A r \in Record : copies[r] \in 1 .. passes

(* The inductive invariant behind it: a pass has sent the records up to    *)
(* off once, and no record more often than there were passes.              *)
CycleInv ==
    /\ cycle \in {"none", "whole", "chunks", "single", "sent", "failed"}
    /\ off \in Nat /\ size \in Nat /\ passes \in Nat /\ copies \in [Record -> Nat]
    /\ cycle \in {"whole", "chunks", "single"} =>
         \A r \in Record : IF r <= off THEN copies[r] \in 1 .. passes
                                       ELSE copies[r] <= passes - 1
    /\ BatchCovered
=============================================================================
