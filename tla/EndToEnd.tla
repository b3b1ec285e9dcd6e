------------------------------- MODULE EndToEnd -------------------------------
(***************************************************************************)
(* One agent (Transport) and the server (Receiver) over raw UDP, in the    *)
(* same time.  A tick is longer than the 500 ms period of retransmitLoop   *)
(* and than the time a datagram stays in the network: when time passes,    *)
(* datagrams that were not received are lost.  Within a tick they may be   *)
(* received in any order and more than once.                               *)
(*                                                                         *)
(* The agent sends without the window, which Transport examines.           *)
(***************************************************************************)
EXTENDS Integers, FiniteSets

CONSTANTS
    Agent,            \* the agent's address
    Senders, SendTiers, Payloads,
    GuaranteedRetries, ReliableRetries, BaseRTO, MaxRTO,
    TTL, FragmentTTL, GCPeriod, SeqSpace, MaxSends, MaxRestarts,
    LifeCap           \* bound: history of an entry's whole life saturates here

ASSUME EndToEndAssumption ==
    /\ SendTiers \subseteq {"guaranteed", "reliable", "besteff"}
    /\ GuaranteedRetries \in Nat /\ ReliableRetries \in Nat
    /\ BaseRTO \in Nat \ {0} /\ MaxRTO \in Nat \ {0}
    /\ TTL \in Nat /\ FragmentTTL \in Nat /\ GCPeriod \in Nat \ {0}
    /\ SeqSpace \in Nat \ {0} /\ MaxSends \in Nat /\ MaxRestarts \in Nat
    /\ LifeCap \in Nat

VARIABLES
    phase, loops, pc, cap, current, maxInflight, seqCounter, inflight,
    sent, acked, dropped, retransmits, untracked, unsent, applied, toServer,
    sessions, dedup, fragments, configs, known, allowed, gcClock, sessionClock,
    replies, restarts, joined, handled, assembled, lastAccepted, repeats,
    accepted,         \* history: payload -> times it was passed to storage
    written           \* history: datagrams ever written

T == INSTANCE Transport WITH
        Bulk <- {}, Streams <- {0}, Configs <- {}, Windows <- {0}, Budget <- 64,
        AgeCap <- MaxRTO + BaseRTO + 1, MaxUnsent <- 0,
        MaxNackRetries <- 0, toClient <- replies[Agent]

R == INSTANCE Receiver WITH
        Peers <- {Agent}, Fingerprints <- {}, Split <- [p \in Payloads |-> 0],
        Tiers <- SendTiers, ContentId <- [p \in Payloads |-> p],
        HostOf <- [p \in {} |-> p], Configs <- {}, Dtls <- FALSE,
        SessionTTL <- TTL, SessionGCPeriod <- GCPeriod, AgeLimit <- TTL + GCPeriod + 1

agentVars == <<phase, loops, pc, cap, current, maxInflight, seqCounter, inflight,
               sent, acked, dropped, retransmits, untracked, unsent, applied>>
serverVars == <<sessions, dedup, fragments, configs, known, allowed, gcClock,
                sessionClock, replies, restarts, joined, handled, assembled,
                lastAccepted, repeats, accepted>>
vars == <<agentVars, toServer, serverVars, written>>

(* The agent has connected: Connect's handshake is examined in Transport,  *)
(* and over raw UDP the server's answers do not depend on it.              *)
Init ==
    /\ phase = "open" /\ loops = {"ack", "retransmit"}
    /\ pc = [s \in Senders |-> "idle"] /\ cap = [s \in Senders |-> 0]
    /\ current = [s \in Senders |-> {}] /\ maxInflight = 0 /\ seqCounter = 0
    /\ inflight = [k \in {} |-> {}]
    /\ sent = 0 /\ acked = 0 /\ dropped = 0 /\ retransmits = 0
    /\ untracked = 0 /\ unsent = 0 /\ applied = {}
    /\ toServer = {} /\ R!Init /\ accepted = [p \in Payloads |-> 0]
    /\ written = {}

ClientStep ==
    /\ UNCHANGED serverVars
    /\ \/ \E s \in Senders : T!Sender(s)
       \/ T!AckLoop \/ T!RunRetransmitTick \/ T!Close
       \/ \E l \in loops : T!LoopExit(l)
    /\ written' = written \cup (toServer' \cap T!DataPackets)

Accepted(p) ==
    accepted' = [accepted EXCEPT ![p] = @ + IF p \in DOMAIN dedup THEN 0 ELSE 1]
ServerStep ==
    /\ \/ \E d \in toServer \cap T!DataPackets :
             R!HandleData(Agent, d) /\ Accepted(d.payload)
       \/ (R!DedupGC \/ R!SessionGC \/ R!Restart) /\ UNCHANGED accepted
    /\ UNCHANGED <<agentVars, toServer, written>>

(* The retransmit ticker, if it runs, has fired for every entry past its   *)
(* timeout, and a sender has inserted what it wrote, before time passes.   *)
Elapse ==
    /\ T!Inserting = {}
    /\ "retransmit" \in loops => T!Ripe = {}
    /\ T!Elapse /\ R!Elapse
    /\ toServer' = {} /\ replies' = [replies EXCEPT ![Agent] = {}]
    /\ UNCHANGED <<accepted, written>>

Next == ClientStep \/ ServerStep \/ Elapse
Spec == Init /\ [][Next]_vars

-----------------------------------------------------------------------------
(* Properties.                                                             *)

(* A payload sent in one datagram is passed to storage at most once for    *)
(* every life of the server process, however many copies arrive: all of    *)
(* the datagram's retransmissions fall into the time its content id is     *)
(* remembered.                                                             *)
SentOnce(p) == \A d, e \in written : d.payload = p /\ e.payload = p => d = e
StoredOnce ==
    \A p \in Payloads : SentOnce(p) => accepted[p] <= 1 + restarts

(* A datagram leaves the sender's map as acknowledged only after the       *)
(* server accepted its payload.                                            *)
AckedWasAccepted ==
    [][acked' # acked =>
         \A k \in DOMAIN inflight \ DOMAIN inflight' :
            accepted[inflight[k].data.payload] > 0]_vars

(* A reliable datagram is given up only after all its timeouts ran, each   *)
(* twice the one before up to the ceiling: retries and sentAt are reset    *)
(* together, so no tick can charge two retries to one timeout.             *)
GivenUpOnlyAfterBackoff == T!GivenUpOnlyAfterBackoff

-----------------------------------------------------------------------------
(* The inductive invariants behind them.                                   *)

(* What is on the wire, in the map or about to be inserted was written,    *)
(* under a key of its own; every ACK is that of a written datagram whose   *)
(* payload the server has accepted.                                        *)
WireInv ==
    /\ seqCounter \in 0 .. MaxSends
    /\ written \subseteq T!DataPackets
    /\ \A d \in written : d.key <= seqCounter /\ d.seq = T!WireSeq(d.key)
    /\ \A d, e \in written : d.key = e.key => d = e
    /\ toServer \cap T!DataPackets \subseteq written
    /\ current \in [Senders -> SUBSET written]
    /\ \A k \in T!Keys : inflight[k].data \in written /\ inflight[k].data.key = k
    /\ replies = [a \in {Agent} |-> replies[Agent]]
    /\ \A q \in replies[Agent] :
         /\ q.type = "ack"
         /\ \E d \in written :
              q.seq = d.seq /\ q.stream = d.stream /\ accepted[d.payload] > 0

(* The server remembers what it accepted for TTL, and how long ago.        *)
DedupInv ==
    /\ accepted \in [Payloads -> Nat] /\ restarts \in Nat
    /\ DOMAIN dedup \subseteq DOMAIN lastAccepted /\ DOMAIN lastAccepted \subseteq Payloads
    /\ \A p \in DOMAIN lastAccepted :
         /\ accepted[p] > 0 /\ lastAccepted[p] \in Nat
         /\ p \in DOMAIN dedup => dedup[p] = lastAccepted[p]
         /\ lastAccepted[p] <= TTL => p \in DOMAIN dedup

(* A sender holds a datagram only between its write and its insert, and    *)
(* every datagram is of a tier that was asked for.                         *)
SenderInv ==
    /\ pc \in [Senders -> T!Pcs]
    /\ \A s \in Senders : current[s] # {} => pc[s] = "insert"
    /\ \A d \in written : d.tier \in SendTiers

(* No entry is retried too often, and while retransmitLoop runs none waits *)
(* longer than a tick after its timeout.                                   *)
EntryOK(e, running) ==
    /\ e.retries \in 0 .. T!MaxRetries(e.data.tier) /\ e.age \in Nat
    /\ running => e.age <= T!ComputeRTO(BaseRTO, MaxRTO, e.retries) + 1
EntryInv == \A k \in T!Keys : EntryOK(inflight[k], "retransmit" \in loops)

(* An entry has lived through the timeouts of its retries, and its age.    *)
Waited(r) == IF r = 0 THEN 0 ELSE T!RTOSum(r - 1)
LifeOK(e) ==
    e.life \in Nat /\ (e.life >= Waited(e.retries) + e.age \/ e.life >= LifeCap)
LifeInv == \A k \in T!Keys : LifeOK(inflight[k])

(* A payload sent once was accepted at most once in this life of the       *)
(* server; since then no more time has passed than since its first         *)
(* transmission, which D bounds for every retry.                           *)
Counted(p) == accepted[p] <= IF p \in DOMAIN lastAccepted THEN 1 + restarts ELSE restarts
Recent(p, D) ==
    LET n == lastAccepted[p]
    IN  /\ \A d \in toServer \cap T!DataPackets : d.payload = p => n <= TTL
        /\ \A s \in Senders : \A d \in current[s] : d.payload = p => n = 0
        /\ "retransmit" \in loops => \A k \in T!Keys :
             inflight[k].data.payload = p => n <= D[inflight[k].retries] + inflight[k].age
PayloadInv(p, D) ==
    /\ (\A d \in written : d.payload # p) => accepted[p] = 0
    /\ SentOnce(p) => Counted(p) /\ (p \in DOMAIN lastAccepted => Recent(p, D))
TimeInv(D) == \A p \in Payloads : PayloadInv(p, D)
===============================================================================
