------------------------------ MODULE Transport ------------------------------
(***************************************************************************)
(* The sending agent's reliability engine: type Client of                  *)
(* entropyops-helper/internal/transport/agenticudp.go.                     *)
(*                                                                         *)
(* Goroutines of the agent call Send*, SendRaw or SendCycle concurrently;  *)
(* the client's own goroutines are ackLoop, keepaliveLoop and              *)
(* retransmitLoop.  The inflight map is shared under inflightMu, so one    *)
(* critical section is one action, and what a sender does before it takes  *)
(* the lock (check the window, write the datagram) is an earlier action.   *)
(*                                                                         *)
(* Time is counted in ticks: an entry carries the age of its last          *)
(* transmission (now - sentAt) instead of sentAt, saturated at AgeCap.     *)
(* Two saturated entries have lost their order, which only adds            *)
(* behaviours.  The network is a pair of sets of packets: a packet in the  *)
(* set may be received now, later, again or never.                         *)
(***************************************************************************)
EXTENDS Integers, FiniteSets

CONSTANTS
    Senders,            \* goroutines that call into the client
    Bulk,               \* those of them inside sendChunkedSignal's chunk loop
    SendTiers,          \* tiers the senders use
    Payloads,           \* datagram payloads
    Streams,            \* wire stream ids
    Configs,            \* configurations the server may push
    SeqSpace,           \* number of wire sequence numbers (2^16 in the code)
    Windows,            \* values maxInflight is set to; 0 disables the window
    GuaranteedRetries,  \* retries before a guaranteed datagram is given up (10)
    ReliableRetries,    \* the same for every other tracked tier (3)
    BaseRTO, MaxRTO,    \* retransmit timeouts, in ticks
    Budget,             \* retransmissions one tick may make
    AgeCap,             \* bound: ages saturate here
    LifeCap,            \* bound: history of an entry's whole life saturates here
    MaxSends,           \* bound: sequence numbers drawn in a session
    MaxUnsent,          \* bound: datagrams counted dropped before any write
    MaxNackRetries      \* bound: NACKs are ignored once retries reaches it

ASSUME TransportAssumption ==
    /\ IsFiniteSet(Senders)
    /\ Bulk \subseteq Senders
    /\ SendTiers \subseteq {"guaranteed", "reliable", "besteff"}
    /\ Streams \subseteq Nat
    /\ SeqSpace \in Nat \ {0}
    /\ Windows \subseteq Nat /\ Windows # {}
    /\ GuaranteedRetries \in Nat /\ ReliableRetries \in Nat
    /\ BaseRTO \in Nat \ {0} /\ MaxRTO \in Nat \ {0}
    /\ Budget \in Nat \ {0}
    /\ AgeCap \in Nat /\ AgeCap > BaseRTO /\ AgeCap > MaxRTO
    /\ LifeCap \in Nat
    /\ MaxSends \in Nat /\ MaxUnsent \in Nat /\ MaxNackRetries \in Nat

Tiers == {"guaranteed", "reliable", "besteff"}

VARIABLES
    phase,        \* "new", "handshake", "open" or "closed"
    loops,        \* which of ackLoop and retransmitLoop are running
    pc,           \* where each sender is
    cap,          \* the window each waiting sender read when it began to wait
    current,      \* the datagram each sender has written and not yet tracked
    maxInflight,  \* the window
    seqCounter,   \* last sequence number drawn (the full 32-bit counter)
    inflight,     \* key -> entry, the datagrams awaiting an ACK
    sent, acked, dropped, retransmits,   \* Stats() counters
    untracked,    \* history: best-effort datagrams written
    unsent,       \* history: part of dropped that never reached the wire
    applied,      \* history: configs handed to the config handler
    toServer,     \* datagrams on their way to the server
    toClient      \* datagrams on their way to the client

counters == <<sent, acked, dropped, retransmits, untracked, unsent>>
local == <<pc, cap, current>>
net == <<toServer, toClient>>
clientVars == <<phase, loops, local, maxInflight, seqCounter, inflight,
                counters, applied>>
vars == <<clientVars, net>>

-----------------------------------------------------------------------------
(* Packets.  The field key is the full counter value: it is not on the     *)
(* wire, no action of the program reads it, only properties do.            *)

Key == 1 .. MaxSends
WireSeq(k) == k % SeqSpace

DataPacket(k, t, st, p) ==
    [type |-> "data", seq |-> WireSeq(k), stream |-> st, tier |-> t,
     payload |-> p, key |-> k]
Reply(ty, d) ==
    [type |-> ty, seq |-> d.seq, stream |-> d.stream, key |-> d.key]
Control(ty) == [type |-> ty]
ConfigPacket(c) == [type |-> "config", config |-> c]

DataPackets ==
    [type : {"data"}, seq : 0 .. SeqSpace - 1, stream : Streams,
     tier : Tiers, payload : Payloads, key : Key]

(* computeRTO: the timeout doubles with every retry up to the ceiling,     *)
(* which is never below the base.                                          *)
ComputeRTO(base, ceiling, retries) ==
    LET top == IF ceiling < base THEN base ELSE ceiling
        rto == base * 2^retries
    IN  IF retries >= 31 \/ rto > top THEN top ELSE rto

MaxRetries_Swapped(t) ==
    IF t = "guaranteed" THEN ReliableRetries ELSE GuaranteedRetries
MaxRetries(t) ==
    IF t = "guaranteed" THEN GuaranteedRetries ELSE ReliableRetries

(* The field life, the time since the first transmission, is history.     *)
Entry(d) == [data |-> d, retries |-> 0, age |-> 0, life |-> 0]
Retried_KeepsSentAt(e) == [e EXCEPT !.retries = @ + 1]
Retried(e) ==
    [data |-> e.data, retries |-> e.retries + 1, age |-> 0, life |-> e.life]

InflightKey_Wire(d) == d.seq
InflightKey(d) == d.key

Keys == DOMAIN inflight
Without(f, S) == [k \in DOMAIN f \ S |-> f[k]]
Matches_StreamOnly(k, p) == inflight[k].data.stream = p.stream
Matches(k, p) ==
    inflight[k].data.seq = p.seq /\ inflight[k].data.stream = p.stream

-----------------------------------------------------------------------------
(* Connect and Close.                                                      *)

NewClient ==
    /\ phase = "new" /\ loops = {}
    /\ pc = [s \in Senders |-> "idle"]
    /\ cap = [s \in Senders |-> 0]
    /\ current = [s \in Senders |-> {}]
    /\ maxInflight \in Windows
    /\ seqCounter = 0
    /\ inflight = [k \in {} |-> {}]
    /\ sent = 0 /\ acked = 0 /\ dropped = 0 /\ retransmits = 0
    /\ untracked = 0 /\ unsent = 0 /\ applied = {}

(* doHandshake, up to the write. *)
SendHandshake ==
    /\ phase = "new"
    /\ phase' = "handshake"
    /\ toServer' = toServer \cup {Control("handshake")}
    /\ UNCHANGED <<loops, local, maxInflight, seqCounter, inflight, counters,
                   applied, toClient>>

(* doHandshake's read: the first packet must be a handshake, anything else *)
(* fails Connect.  On success Connect starts the background loops.         *)
HandshakeReply(p) ==
    /\ phase = "handshake" /\ p \in toClient
    /\ IF p.type = "handshake"
          THEN phase' = "open" /\ loops' = {"ack", "retransmit"}
          ELSE phase' = "new" /\ UNCHANGED loops
    /\ UNCHANGED <<local, maxInflight, seqCounter, inflight, counters,
                   applied, net>>

(* The 5 s read deadline of doHandshake passes. *)
HandshakeTimeout ==
    /\ phase = "handshake"
    /\ phase' = "new"
    /\ UNCHANGED <<loops, local, maxInflight, seqCounter, inflight, counters,
                   applied, net>>

(* Close cancels the loops, sends a FIN and closes the socket.  It neither *)
(* waits for the inflight map nor clears established.                      *)
Close ==
    /\ phase = "open"
    /\ phase' = "closed"
    /\ toServer' = toServer \cup {Control("fin")}
    /\ UNCHANGED <<loops, local, maxInflight, seqCounter, inflight, counters,
                   applied, toClient>>

(* A loop sees its context done and returns.  Until then it may finish an  *)
(* iteration it was in when Close ran.                                     *)
LoopExit(l) ==
    /\ phase = "closed" /\ l \in loops
    /\ loops' = loops \ {l}
    /\ UNCHANGED <<phase, local, maxInflight, seqCounter, inflight, counters,
                   applied, net>>

SetMaxInflight(n) ==
    /\ maxInflight' = n
    /\ UNCHANGED <<phase, loops, local, seqCounter, inflight, counters,
                   applied, net>>

Established == phase \in {"open", "closed"}

-----------------------------------------------------------------------------
(* Sending: sendChunkedSignal, waitForInflightWindow, transmitWithFlags.   *)

(* A chunk begins: waitForInflightWindow reads the window once. *)
BeginChunk(s) ==
    /\ s \in Bulk /\ pc[s] = "idle" /\ Established
    /\ cap' = [cap EXCEPT ![s] = maxInflight]
    /\ pc' = [pc EXCEPT ![s] = IF maxInflight = 0 THEN "ready" ELSE "window"]
    /\ UNCHANGED <<phase, loops, current, maxInflight, seqCounter, inflight,
                   counters, applied, net>>

WindowOpen_OffByOne(s) ==
    /\ pc[s] = "window" /\ Cardinality(Keys) <= cap[s]
    /\ pc' = [pc EXCEPT ![s] = "ready"]
    /\ UNCHANGED <<phase, loops, cap, current, maxInflight, seqCounter,
                   inflight, counters, applied, net>>

WindowOpen(s) ==
    /\ pc[s] = "window" /\ Cardinality(Keys) < cap[s]
    /\ pc' = [pc EXCEPT ![s] = "ready"]
    /\ UNCHANGED <<phase, loops, cap, current, maxInflight, seqCounter,
                   inflight, counters, applied, net>>

(* The 60 s stall deadline passes with the window still full. *)
WindowStalled(s) ==
    /\ pc[s] = "window" /\ Cardinality(Keys) >= cap[s]
    /\ pc' = [pc EXCEPT ![s] = "idle"]
    /\ UNCHANGED <<phase, loops, cap, current, maxInflight, seqCounter,
                   inflight, counters, applied, net>>

(* Bulk senders reach transmit through the window, the others directly.    *)
MayTransmit(s) ==
    IF s \in Bulk THEN pc[s] = "ready" ELSE pc[s] = "idle" /\ Established

(* sendSignal drops a best-effort datagram under predicted congestion. *)
DeferBestEffort(s) ==
    /\ MayTransmit(s) /\ "besteff" \in SendTiers /\ unsent < MaxUnsent
    /\ dropped' = dropped + 1 /\ unsent' = unsent + 1
    /\ pc' = [pc EXCEPT ![s] = "idle"]
    /\ UNCHANGED <<phase, loops, cap, current, maxInflight, seqCounter,
                   inflight, sent, acked, retransmits, untracked, applied, net>>

(* transmitWithFlags: draw a number, write, count.  The entry of a tracked *)
(* datagram is inserted by a later step: the ACK may overtake it.          *)
Transmit(s, t, st, p) ==
    /\ MayTransmit(s) /\ phase = "open" /\ seqCounter < MaxSends
    /\ LET d == DataPacket(seqCounter + 1, t, st, p)
       IN  /\ seqCounter' = seqCounter + 1
           /\ sent' = sent + 1
           /\ toServer' = toServer \cup {d}
           /\ IF t = "besteff"
                 THEN /\ pc' = [pc EXCEPT ![s] = "idle"]
                      /\ untracked' = untracked + 1
                      /\ UNCHANGED current
                 ELSE /\ pc' = [pc EXCEPT ![s] = "insert"]
                      /\ current' = [current EXCEPT ![s] = {d}]
                      /\ UNCHANGED untracked
    /\ UNCHANGED <<phase, loops, cap, maxInflight, inflight, acked, dropped,
                   retransmits, unsent, applied, toClient>>

(* The write fails: always after Close, and before it when the socket      *)
(* reports an error.  The number drawn is spent.                           *)
TransmitFails(s) ==
    /\ MayTransmit(s) /\ seqCounter < MaxSends /\ unsent < MaxUnsent
    /\ seqCounter' = seqCounter + 1
    /\ dropped' = dropped + 1 /\ unsent' = unsent + 1
    /\ pc' = [pc EXCEPT ![s] = "idle"]
    /\ UNCHANGED <<phase, loops, cap, current, maxInflight, inflight, sent,
                   acked, retransmits, untracked, applied, net>>

(* The datagram would exceed maxPayload: the chunk loop starts again with  *)
(* smaller chunks.  No number is drawn and nothing is counted.             *)
Oversize(s) ==
    /\ s \in Bulk /\ pc[s] = "ready"
    /\ pc' = [pc EXCEPT ![s] = "idle"]
    /\ UNCHANGED <<phase, loops, cap, current, maxInflight, seqCounter,
                   inflight, counters, applied, net>>

(* The critical section that inserts the written datagram. *)
Track(s) ==
    /\ pc[s] = "insert"
    /\ \E d \in current[s] :
          inflight' = [k \in Keys \cup {InflightKey(d)} |->
                         IF k = InflightKey(d) THEN Entry(d) ELSE inflight[k]]
    /\ current' = [current EXCEPT ![s] = {}]
    /\ pc' = [pc EXCEPT ![s] = "idle"]
    /\ UNCHANGED <<phase, loops, cap, maxInflight, seqCounter, counters,
                   applied, net>>

-----------------------------------------------------------------------------
(* The client's own loops.                                                 *)

(* processACK removes one entry, any one, that carries the wire sequence   *)
(* number and stream of the ACK; an ACK that matches nothing is ignored.   *)
ProcessACK_CountsGhosts(p) ==
    /\ "ack" \in loops /\ p \in toClient /\ p.type = "ack"
    /\ inflight' = Without(inflight, {k \in Keys : Matches(k, p)})
    /\ acked' = acked + 1
    /\ UNCHANGED <<phase, loops, local, maxInflight, seqCounter, sent, dropped,
                   retransmits, untracked, unsent, applied, net>>

ProcessACK(p) ==
    /\ "ack" \in loops /\ p \in toClient /\ p.type = "ack"
    /\ \E k \in Keys :
          /\ Matches(k, p)
          /\ inflight' = Without(inflight, {k})
    /\ acked' = acked + 1
    /\ UNCHANGED <<phase, loops, local, maxInflight, seqCounter, sent, dropped,
                   retransmits, untracked, unsent, applied, net>>

(* A write: nothing leaves a closed socket, and the code ignores the error *)
(* of every write but the first of a datagram.                             *)
Written(ps) == toServer' = IF phase = "open" THEN toServer \cup ps ELSE toServer

(* processNACK retransmits one matching entry at once, whatever its tier's *)
(* retry limit says.                                                       *)
ProcessNACK(p) ==
    /\ "ack" \in loops /\ p \in toClient /\ p.type = "nack"
    /\ \E k \in Keys :
          /\ Matches(k, p) /\ inflight[k].retries < MaxNackRetries
          /\ inflight' = [inflight EXCEPT ![k] = Retried(@)]
          /\ Written({inflight[k].data})
    /\ retransmits' = retransmits + 1
    /\ UNCHANGED <<phase, loops, local, maxInflight, seqCounter, sent, acked,
                   dropped, untracked, unsent, applied, toClient>>

(* ackLoop's pktConfig case: acknowledge, then run the handler. *)
RecvConfig(p) ==
    /\ "ack" \in loops /\ p \in toClient /\ p.type = "config"
    /\ Written({Control("ack")})
    /\ applied' = applied \cup {p.config}
    /\ UNCHANGED <<phase, loops, local, maxInflight, seqCounter, inflight,
                   counters, toClient>>

(* keepaliveLoop; what it does after Close is a write that fails. *)
SendKeepalive ==
    /\ phase = "open"
    /\ Written({Control("keepalive")})
    /\ UNCHANGED <<phase, loops, local, maxInflight, seqCounter, inflight,
                   counters, applied, toClient>>

(* runRetransmitTick: entries past their timeout are given up when their   *)
(* retries are spent, and the others retransmitted oldest first within     *)
(* the budget.                                                             *)
Ripe_SkipsSpent ==
    {k \in Keys :
       /\ inflight[k].retries < MaxRetries(inflight[k].data.tier)
       /\ inflight[k].age > ComputeRTO(BaseRTO, MaxRTO, inflight[k].retries)}
Ripe ==
    {k \in Keys :
       inflight[k].age > ComputeRTO(BaseRTO, MaxRTO, inflight[k].retries)}
Spent ==
    {k \in Ripe : inflight[k].retries >= MaxRetries(inflight[k].data.tier)}
Eligible == Ripe \ Spent
OldestFirst(C) ==
    /\ \A i \in C, j \in Eligible \ C : inflight[i].age >= inflight[j].age
    /\ Cardinality(C) <= Budget
    /\ Cardinality(C) < Budget => C = Eligible

RunRetransmitTick_CountsAcked ==
    /\ "retransmit" \in loops /\ Ripe # {}
    /\ \E C \in SUBSET Eligible :
          /\ OldestFirst(C)
          /\ Written({inflight[k].data : k \in C})
          /\ inflight' = [k \in Keys \ Spent |->
                             IF k \in C THEN Retried(inflight[k]) ELSE inflight[k]]
          /\ retransmits' = retransmits + Cardinality(C)
    /\ acked' = acked + Cardinality(Spent)
    /\ UNCHANGED <<phase, loops, local, maxInflight, seqCounter, sent, dropped,
                   untracked, unsent, applied, toClient>>

RunRetransmitTick ==
    /\ "retransmit" \in loops /\ Ripe # {}
    /\ \E C \in SUBSET Eligible :
          /\ OldestFirst(C)
          /\ Written({inflight[k].data : k \in C})
          /\ inflight' = [k \in Keys \ Spent |->
                             IF k \in C THEN Retried(inflight[k]) ELSE inflight[k]]
          /\ retransmits' = retransmits + Cardinality(C)
    /\ dropped' = dropped + Cardinality(Spent)
    /\ UNCHANGED <<phase, loops, local, maxInflight, seqCounter, sent, acked,
                   untracked, unsent, applied, toClient>>

(* A tick of time passes.  The network is left to the caller. *)
Older(n, bound) == IF n < bound THEN n + 1 ELSE n
Aged(e) == [data |-> e.data, retries |-> e.retries,
            age |-> Older(e.age, AgeCap), life |-> Older(e.life, LifeCap)]
Elapse ==
    /\ inflight' = [k \in Keys |-> Aged(inflight[k])]
    /\ UNCHANGED <<phase, loops, local, maxInflight, seqCounter, counters,
                   applied>>

-----------------------------------------------------------------------------
(* Any server of the protocol: it answers handshakes, answers a datagram   *)
(* with an ACK or a NACK, and pushes configurations.                       *)

ServerSends(p) ==
    toClient' = toClient \cup {p} /\ UNCHANGED <<clientVars, toServer>>

Server ==
    \/ /\ Control("handshake") \in toServer
       /\ \/ ServerSends(Control("handshake"))
          \/ \E c \in Configs : ServerSends(ConfigPacket(c))
    \/ \E d \in toServer \cap DataPackets :
          /\ d.tier # "besteff"
          /\ \/ ServerSends(Reply("ack", d))
             \/ MaxNackRetries > 0 /\ ServerSends(Reply("nack", d))

Sender(s) ==
    \/ BeginChunk(s) \/ WindowOpen(s) \/ WindowStalled(s)
    \/ DeferBestEffort(s) \/ TransmitFails(s) \/ Oversize(s) \/ Track(s)
    \/ \E t \in SendTiers, st \in Streams, p \in Payloads : Transmit(s, t, st, p)

AckLoop == \E p \in toClient : ProcessACK(p) \/ ProcessNACK(p) \/ RecvConfig(p)

Client ==
    \/ SendHandshake \/ HandshakeTimeout \/ Close \/ SendKeepalive
    \/ \E p \in toClient : HandshakeReply(p)
    \/ \E l \in loops : LoopExit(l)
    \/ \E n \in Windows : SetMaxInflight(n)
    \/ \E s \in Senders : Sender(s)
    \/ AckLoop \/ RunRetransmitTick

Init == NewClient /\ toServer = {} /\ toClient = {}
Next == Client \/ Server \/ (Elapse /\ UNCHANGED net)
Spec == Init /\ [][Next]_vars

(* The retransmit ticker fires and time passes.  A sender holding a        *)
(* written datagram takes the lock, one waiting for the window is woken    *)
(* every 200 microseconds and gives up at its deadline.                    *)
Fairness ==
    /\ WF_vars(RunRetransmitTick) /\ WF_vars(Elapse /\ UNCHANGED net)
    /\ \A s \in Senders :
         WF_vars(Track(s)) /\ WF_vars(WindowOpen(s) \/ WindowStalled(s))
FairSpec == Spec /\ Fairness

-----------------------------------------------------------------------------
(* Properties.                                                             *)

Pcs == {"idle", "window", "ready", "insert"}
Entries ==
    [data : DataPackets, retries : Nat, age : 0 .. AgeCap, life : 0 .. LifeCap]

(* Every variable has its type; in particular a sender is about to insert  *)
(* an entry exactly when it holds one written datagram.                    *)
TypeOK ==
    /\ phase \in {"new", "handshake", "open", "closed"}
    /\ loops \subseteq {"ack", "retransmit"}
    /\ pc \in [Senders -> Pcs]
    /\ cap \in [Senders -> Windows \cup {0}]
    /\ current \in [Senders -> SUBSET DataPackets]
    /\ \A s \in Senders : IF pc[s] = "insert" THEN \E d \in DataPackets : current[s] = {d}
                                             ELSE current[s] = {}
    /\ maxInflight \in Windows
    /\ seqCounter \in 0 .. MaxSends
    /\ Keys \subseteq Key /\ inflight \in [Keys -> Entries]
    /\ sent \in Nat /\ acked \in Nat /\ dropped \in Nat /\ retransmits \in Nat
    /\ untracked \in Nat /\ unsent \in Nat
    /\ applied \subseteq Configs

Inserting == {s \in Senders : pc[s] = "insert"}

(* Every datagram counted sent is accounted for exactly once: it was       *)
(* best-effort, or was acknowledged, or was given up, or is awaited, or is *)
(* about to be.  transmitWithFlags, processACK and runRetransmitTick       *)
(* update the counters and the map in different critical sections, and a   *)
(* caller that drains on sent and acked relies on it: no wrapped sequence  *)
(* number may overwrite an entry, no duplicate ACK may count twice.        *)
Accounting ==
    sent = untracked + acked + (dropped - unsent)
             + Cardinality(Keys) + Cardinality(Inserting)

(* A written datagram never finds its key taken: the key is the full       *)
(* counter, so two datagrams of a session never share an entry even when   *)
(* their wire sequence numbers are equal (comment in transmitWithFlags).   *)
NoOverwrite ==
    \A s \in Inserting : \A d \in current[s] :
       /\ InflightKey(d) \notin Keys
       /\ \A t \in Inserting \ {s} : d \notin current[t]

(* With chunked senders only, and the window on, the number of awaited     *)
(* datagrams stays below the widest window plus one per concurrent sender: *)
(* the check of waitForInflightWindow and the insert are different         *)
(* critical sections, and a waiting sender may hold an outdated window.    *)
WindowRespected ==
    Bulk = Senders /\ 0 \notin Windows =>
       \E w \in Windows :
          Cardinality(Keys) + Cardinality(Inserting) <= w + Cardinality(Bulk) - 1

(* A datagram leaves the map as acknowledged only when the server sent an  *)
(* ACK for that very datagram: processACK never credits an ACK to another  *)
(* entry.                                                                  *)
AckAttribution ==
    [][acked' # acked =>
         \A k \in Keys \ DOMAIN inflight' :
            \E p \in toClient : p.type = "ack" /\ p.key = k]_vars

RTOSum(r) ==
    LET sum[n \in 0 .. r] ==
          ComputeRTO(BaseRTO, MaxRTO, n) + 1 + (IF n = 0 THEN 0 ELSE sum[n - 1])
    IN  sum[r]

(* A datagram that no NACK hurried is given up only after all its timeouts *)
(* ran, each twice the one before up to the ceiling: retries and sentAt    *)
(* are reset together, so no tick can charge two retries to one timeout.   *)
GivenUpOnlyAfterBackoff ==
    [][acked' = acked =>
         \A k \in Keys \ DOMAIN inflight' :
            inflight[k].life >= RTOSum(MaxRetries(inflight[k].data.tier))]_vars

(* Every awaited datagram is acknowledged or given up, unless the client   *)
(* is closed first: the budget of runRetransmitTick starves no entry.      *)
InflightDrains ==
    \A k \in Key : k \in Keys ~> (k \notin Keys \/ phase = "closed")

-----------------------------------------------------------------------------
(* The inductive invariant behind Accounting and AckAttribution.           *)

(* Every packet on the network carries the wire form of its key. *)
NetOK ==
    /\ \A d \in toServer \cap DataPackets : d.seq = WireSeq(d.key)
    /\ \A p \in toClient :
         /\ p.type = "config" => p.config \in Configs
         /\ p.type = "ack" => p.key \in Key /\ p.seq = WireSeq(p.key)

(* No key is used twice, by the map or by a sender about to insert. *)
KeysOK ==
    /\ \A k \in Keys : /\ k <= seqCounter
                       /\ inflight[k].data.key = k
                       /\ inflight[k].data.seq = WireSeq(k)
    /\ \A s \in Senders : \A d \in current[s] :
         d.key <= seqCounter /\ d.key \notin Keys /\ d.seq = WireSeq(d.key)
    /\ \A s, t \in Senders : \A d \in current[s], e \in current[t] :
         s # t => d.key # e.key

(* Senders past the window check hold a place each, until they insert. *)
Admitted == {s \in Senders : pc[s] \in {"ready", "insert"}}
WindowInv ==
    Bulk = Senders /\ 0 \notin Windows =>
       \E w \in Windows :
          Cardinality(Keys) + Cardinality(Admitted) <= w + Cardinality(Bulk) - 1

IndInv == TypeOK /\ NetOK /\ KeysOK /\ Accounting

=============================================================================
