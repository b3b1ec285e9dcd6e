------------------------------- MODULE Receiver -------------------------------
(***************************************************************************)
(* The server's protocol engine: type AgenticUDPReceiver of                *)
(* entropyops-v2/internal/ingest/receiver/agenticudp.go, up to the point   *)
(* where a payload is routed to storage.                                   *)
(*                                                                         *)
(* One goroutine handles the packets of a peer in turn (the read loop, or  *)
(* the one that serves its DTLS connection), and what handlers of          *)
(* different peers share, dedup and fragments, each handler changes in one *)
(* critical section.  So a handler is one action.  dedupGC and sessionGC   *)
(* are goroutines of their own.                                            *)
(*                                                                         *)
(* Instead of times the maps hold ages, counted in ticks.                  *)
(***************************************************************************)
EXTENDS Integers, FiniteSets

CONSTANTS
    Peers,            \* remote addresses
    Payloads,         \* payloads of data packets
    Fingerprints,     \* those that are fingerprint reports
    Split,            \* payload -> number of fragments it is sent in, 0: whole
    Tiers,            \* tiers of the data packets
    ContentId,        \* payload -> its 32-bit hash
    HostOf,           \* fingerprint -> the host it names
    Configs,          \* what the planner may generate for a host
    Dtls,             \* the receiver listens for DTLS, not raw UDP
    TTL, FragmentTTL, GCPeriod,       \* of dedupGC (60 s, 30 s, 30 s)
    SessionTTL, SessionGCPeriod,      \* of sessionGC (5 min, 60 s)
    AgeLimit,         \* bound: ages saturate here
    MaxRestarts       \* bound: process restarts

ASSUME ReceiverAssumption ==
    /\ Fingerprints \subseteq Payloads
    /\ Split \in [Payloads -> Nat] /\ DOMAIN ContentId = Payloads
    /\ DOMAIN HostOf = Fingerprints
    /\ Dtls \in BOOLEAN
    /\ TTL \in Nat /\ FragmentTTL \in Nat /\ SessionTTL \in Nat
    /\ GCPeriod \in Nat \ {0} /\ SessionGCPeriod \in Nat \ {0}
    /\ AgeLimit \in Nat /\ AgeLimit > TTL + GCPeriod
    /\ AgeLimit > FragmentTTL + GCPeriod
    /\ AgeLimit > SessionTTL + SessionGCPeriod
    /\ MaxRestarts \in Nat

VARIABLES
    sessions,      \* peer -> session
    dedup,         \* content id -> age of its entry
    fragments,     \* content id -> fragment buffer
    configs,       \* host -> configuration waiting to be pushed
    known,         \* host -> fingerprint last stored for it
    allowed,       \* the ingest toggle
    gcClock, sessionClock,   \* ages of the tickers of dedupGC and sessionGC
    replies,       \* peer -> packets sent to it
    restarts,      \* history: process restarts
    joined,        \* history: peers since their handshake, until their FIN
    handled,       \* history: tracked datagrams past the gate, with their peer
    assembled,     \* history: the parts of every payload put together
    lastAccepted,  \* history: content id -> time since it was last accepted
    repeats        \* history: content ids accepted again within TTL

memory == <<sessions, dedup, fragments, configs>>
clocks == <<gcClock, sessionClock>>
accounts == <<handled, assembled, lastAccepted, repeats>>
history == <<restarts, joined, accounts>>
vars == <<memory, known, allowed, clocks, replies, history>>

NoHost == ""
Ids == {ContentId[p] : p \in Payloads}
Empty == [x \in {} |-> x]
Put(f, x, v) == [y \in DOMAIN f \cup {x} |-> IF y = x THEN v ELSE f[y]]
Drop(f, S) == [y \in DOMAIN f \ S |-> f[y]]

Init ==
    /\ sessions = Empty /\ dedup = Empty /\ fragments = Empty
    /\ configs = Empty /\ known = Empty /\ allowed = TRUE
    /\ gcClock = 0 /\ sessionClock = 0
    /\ replies = [p \in Peers |-> {}]
    /\ restarts = 0 /\ joined = {} /\ handled = {} /\ assembled = {}
    /\ lastAccepted = Empty /\ repeats = {}

-----------------------------------------------------------------------------
(* Sessions.                                                               *)

Session(r) == [age |-> 0, reply |-> r, host |-> NoHost]

(* touchSession: a session made here has no reply function. *)
Touched(from) ==
    Put(sessions, from,
        IF from \in DOMAIN sessions
          THEN [sessions[from] EXCEPT !.age = 0]
          ELSE Session(FALSE))

(* sessionReply: the session's own reply function, or the raw socket,      *)
(* which does not exist in DTLS mode.                                      *)
Reachable_NoFallback(ss, from) == from \in DOMAIN ss /\ ss[from].reply
Reachable(ss, from) == (from \in DOMAIN ss /\ ss[from].reply) \/ ~ Dtls
Send(ss, from, ps) ==
    replies' = IF Reachable(ss, from)
                 THEN [replies EXCEPT ![from] = @ \cup ps] ELSE replies

Control(ty) == [type |-> ty]
ConfigPacket(c) == [type |-> "config", config |-> c]
Ack(d) == [type |-> "ack", seq |-> d.seq, stream |-> d.stream, key |-> d.key]

(* handleHandshake replaces the session, and with it the host it was       *)
(* tagged with.                                                            *)
HandleHandshake(from) ==
    /\ allowed
    /\ sessions' = Put(sessions, from, Session(TRUE))
    /\ Send(sessions', from, {Control("handshake")})
    /\ joined' = joined \cup {from}
    /\ UNCHANGED <<dedup, fragments, configs, known, allowed, clocks, restarts,
                   accounts>>

(* handleKeepalive answers and pushes the host's waiting configuration,    *)
(* which leaves the map whether or not it can be sent.                     *)
HandleKeepalive_AnswerOnly(from) ==
    /\ allowed
    /\ sessions' = Touched(from)
    /\ Send(sessions', from, {Control("keepalive")})
    /\ configs' = Drop(configs, {sessions'[from].host})
    /\ UNCHANGED <<dedup, fragments, known, allowed, clocks, history>>

HandleKeepalive(from) ==
    /\ allowed
    /\ sessions' = Touched(from)
    /\ LET due == (DOMAIN configs \cap {sessions'[from].host}) \ {NoHost}
       IN  /\ Send(sessions', from,
                   {Control("keepalive")} \cup {ConfigPacket(configs[h]) : h \in due})
           /\ configs' = Drop(configs, due)
    /\ UNCHANGED <<dedup, fragments, known, allowed, clocks, history>>

HandleMetrics(from) ==
    /\ allowed
    /\ sessions' = Touched(from)
    /\ UNCHANGED <<dedup, fragments, configs, known, allowed, clocks, replies,
                   history>>

HandleFIN(from) ==
    /\ allowed
    /\ sessions' = Drop(sessions, {from})
    /\ joined' = joined \ {from}
    /\ UNCHANGED <<dedup, fragments, configs, known, allowed, clocks, replies,
                   restarts, accounts>>

HandleMTUProbe(from, d) ==
    /\ allowed
    /\ Send(sessions, from, {Ack(d)})
    /\ UNCHANGED <<memory, known, allowed, clocks, history>>
-----------------------------------------------------------------------------
(* handleData: touch the session, acknowledge, reassemble, drop what was   *)
(* accepted before, route.                                                 *)

IsFragment(d) == Split[d.payload] > 0
IsLast(d) == d.seq = Split[d.payload] - 1

(* addFragment: the buffer of a content id, with this part in it.  Its age *)
(* is that of its first part.                                              *)
Buffer(d) ==
    LET id == ContentId[d.payload]
        b  == IF id \in DOMAIN fragments
                THEN fragments[id] ELSE [parts |-> Empty, last |-> -1, age |-> 0]
    IN  [parts |-> Put(b.parts, d.seq, d.payload),
         last  |-> IF IsLast(d) THEN d.seq ELSE b.last,
         age   |-> b.age]
Whole_AnyParts(b) == b.last >= 0 /\ Cardinality(DOMAIN b.parts) >= b.last
Whole(b) == b.last >= 0 /\ 0 .. b.last \subseteq DOMAIN b.parts

(* The planner runs, and may end with a configuration for the host. *)
RunAutoplan(h) == UNCHANGED configs \/ \E c \in Configs : configs' = Put(configs, h, c)

(* The store fails, or the fingerprint is stored and tags the session with *)
(* its host; if it differs from the last one stored, the planner runs.     *)
HandleFingerprintData(from, d, ss) ==
    \/ sessions' = ss /\ UNCHANGED <<known, configs>>
    \/ LET h == HostOf[d.payload]
       IN  /\ known' = Put(known, h, d.payload)
           /\ sessions' = [ss EXCEPT ![from].host = h]
           /\ IF h \in DOMAIN known /\ known[h] = d.payload
                THEN UNCHANGED configs ELSE RunAutoplan(h)

(* Telemetry goes to the coalescers. *)
RouteToQueue(from, d, ss) ==
    IF d.payload \in Fingerprints
      THEN HandleFingerprintData(from, d, ss)
      ELSE sessions' = ss /\ UNCHANGED <<known, configs>>

(* isDuplicate, and what follows it. *)
Accept(from, d, ss) ==
    LET id == ContentId[d.payload]
    IN  IF id \in DOMAIN dedup
          THEN sessions' = ss /\ UNCHANGED <<dedup, known, configs, lastAccepted, repeats>>
          ELSE /\ dedup' = Put(dedup, id, 0)
               /\ lastAccepted' = Put(lastAccepted, id, 0)
               /\ repeats' = IF id \in DOMAIN lastAccepted /\ lastAccepted[id] <= TTL
                               THEN repeats \cup {id} ELSE repeats
               /\ RouteToQueue(from, d, ss)

HandleData(from, d) ==
    /\ allowed
    /\ LET ss == Touched(from)
           b  == Buffer(d)
           id == ContentId[d.payload]
       IN  /\ IF d.tier # "besteff"
                THEN /\ Send(ss, from, {Ack(d)})
                     /\ handled' = handled \cup {<<from, d>>}
                ELSE UNCHANGED <<replies, handled>>
           /\ IF IsFragment(d) /\ ~ Whole(b)
                THEN /\ fragments' = Put(fragments, id, b)
                     /\ sessions' = ss
                     /\ UNCHANGED <<dedup, known, configs, assembled,
                                    lastAccepted, repeats>>
                ELSE /\ IF IsFragment(d)
                          THEN /\ fragments' = Drop(fragments, {id})
                               /\ assembled' = assembled \cup {b.parts}
                          ELSE UNCHANGED <<fragments, assembled>>
                     /\ Accept(from, d, ss)
    /\ UNCHANGED <<allowed, clocks, restarts, joined>>

-----------------------------------------------------------------------------
(* The collectors, the toggle, time, and the loss of the process.          *)

Stale(f, ttl) == {x \in DOMAIN f : f[x].age > ttl}

DedupGC_OneCutoff ==
    /\ gcClock = GCPeriod
    /\ gcClock' = 0
    /\ dedup' = Drop(dedup, {x \in DOMAIN dedup : dedup[x] > FragmentTTL})
    /\ fragments' = Drop(fragments, Stale(fragments, FragmentTTL))
    /\ UNCHANGED <<sessions, configs, known, allowed, sessionClock, replies, history>>

DedupGC_NoReap ==
    /\ gcClock = GCPeriod
    /\ gcClock' = 0
    /\ dedup' = Drop(dedup, {x \in DOMAIN dedup : dedup[x] > TTL})
    /\ UNCHANGED <<sessions, fragments, configs, known, allowed, sessionClock,
                   replies, history>>

DedupGC ==
    /\ gcClock = GCPeriod
    /\ gcClock' = 0
    /\ dedup' = Drop(dedup, {x \in DOMAIN dedup : dedup[x] > TTL})
    /\ fragments' = Drop(fragments, Stale(fragments, FragmentTTL))
    /\ UNCHANGED <<sessions, configs, known, allowed, sessionClock, replies, history>>

SessionGC ==
    /\ sessionClock = SessionGCPeriod
    /\ sessionClock' = 0
    /\ sessions' = Drop(sessions, Stale(sessions, SessionTTL))
    /\ UNCHANGED <<dedup, fragments, configs, known, allowed, gcClock, replies, history>>

SetIngestAllowed ==
    /\ allowed' = ~ allowed
    /\ UNCHANGED <<memory, known, clocks, replies, history>>

Older(n) == IF n < AgeLimit THEN n + 1 ELSE n
OlderAll(f) == [x \in DOMAIN f |-> [f[x] EXCEPT !.age = Older(@)]]

(* A ticker that is due fires before more time passes. *)
Elapse ==
    /\ gcClock < GCPeriod /\ sessionClock < SessionGCPeriod
    /\ gcClock' = gcClock + 1 /\ sessionClock' = sessionClock + 1
    /\ sessions' = OlderAll(sessions)
    /\ fragments' = OlderAll(fragments)
    /\ dedup' = [x \in DOMAIN dedup |-> Older(dedup[x])]
    /\ lastAccepted' = [x \in DOMAIN lastAccepted |-> Older(lastAccepted[x])]
    /\ UNCHANGED <<configs, known, allowed, restarts, joined, handled, assembled, repeats>>

(* The process stops and is started again: only storage survives. *)
Restart ==
    /\ restarts < MaxRestarts
    /\ restarts' = restarts + 1
    /\ sessions' = Empty /\ dedup' = Empty /\ fragments' = Empty /\ configs' = Empty
    /\ gcClock' = 0 /\ sessionClock' = 0
    /\ lastAccepted' = Empty
    /\ UNCHANGED <<known, allowed, joined, replies, handled, assembled, repeats>>

-----------------------------------------------------------------------------
(* The peers: datagrams arrive in any order, again or never.  A peer that  *)
(* speaks DTLS has been greeted on its connection before it sends.         *)

Seqs(p) == 0 .. (IF Split[p] > 0 THEN Split[p] - 1 ELSE 0)
Datagrams ==
    UNION {[type : {"data"}, seq : Seqs(p), stream : {0}, tier : Tiers,
            payload : {p}, key : {0}] : p \in Payloads}

Peer(from) ==
    \/ HandleHandshake(from)
    \/ /\ Dtls => from \in joined
       /\ \/ HandleKeepalive(from) \/ HandleMetrics(from) \/ HandleFIN(from)
          \/ \E d \in Datagrams : HandleData(from, d) \/ HandleMTUProbe(from, d)

Next ==
    \/ \E from \in Peers : Peer(from)
    \/ DedupGC \/ SessionGC \/ SetIngestAllowed \/ Restart
    \/ Elapse /\ UNCHANGED replies
Spec == Init /\ [][Next]_vars

-----------------------------------------------------------------------------
(* Properties.                                                             *)

Ages == 0 .. AgeLimit
Hosts == {HostOf[p] : p \in Fingerprints}

(* Every variable has its type, and every buffer is keyed by the hash of   *)
(* the payloads whose parts it holds.                                      *)
TypeOK ==
    /\ DOMAIN sessions \subseteq Peers
    /\ \A p \in DOMAIN sessions :
         sessions[p] \in [age : Ages, reply : BOOLEAN, host : Hosts \cup {NoHost}]
    /\ DOMAIN dedup \subseteq Ids /\ \A x \in DOMAIN dedup : dedup[x] \in Ages
    /\ DOMAIN fragments \subseteq Ids
    /\ \A x \in DOMAIN fragments :
         /\ fragments[x].age \in Ages /\ fragments[x].last \in Nat \cup {-1}
         /\ \A i \in DOMAIN fragments[x].parts :
              /\ fragments[x].parts[i] \in Payloads
              /\ ContentId[fragments[x].parts[i]] = x
    /\ DOMAIN configs \subseteq Hosts /\ DOMAIN known \subseteq Hosts
    /\ allowed \in BOOLEAN
    /\ gcClock \in 0 .. GCPeriod /\ sessionClock \in 0 .. SessionGCPeriod

(* A content id is accepted for storage at most once in any TTL, for as    *)
(* long as the process lives: whatever arrives again, whole or as          *)
(* fragments, from whichever peer, isDuplicate stops it until dedupGC may  *)
(* have forgotten it.                                                      *)
NoRepeatWithinTTL == repeats = {}

(* Nothing is kept for ever: a dedup entry, a fragment buffer (also one    *)
(* that a late copy of a part opened again after reassembly) and an idle   *)
(* session are gone one collector period after their time at the latest.   *)
Retention ==
    /\ \A x \in DOMAIN dedup : dedup[x] <= TTL + GCPeriod
    /\ \A x \in DOMAIN fragments : fragments[x].age <= FragmentTTL + GCPeriod
    /\ \A p \in DOMAIN sessions : sessions[p].age <= SessionTTL + SessionGCPeriod

(* addFragment hands on only complete payloads: all parts, of one payload, *)
(* whatever order they came in and whoever sent them, when distinct        *)
(* payloads have distinct hashes.                                          *)
Injective == \A p, q \in Payloads : ContentId[p] = ContentId[q] => p = q
ReassembledWhole ==
    Injective => \A a \in assembled : \E p \in Payloads :
                    /\ DOMAIN a = 0 .. Split[p] - 1
                    /\ \A i \in DOMAIN a : a[i] = p

(* handleData acknowledges every tracked datagram it handles, as its       *)
(* comment says, so that the sender can release its entry.                 *)
AckedWhenHandled == \A h \in handled : Ack(h[2]) \in replies[h[1]]

(* A configuration leaves the map only towards a peer that reported its    *)
(* host: pushPendingConfig takes it only to send it, and nothing but the   *)
(* loss of the process discards it unsent.                                 *)
ConfigSent ==
    [][\A h \in DOMAIN configs \ DOMAIN configs' :
         \/ restarts' # restarts
         \/ \E p \in Peers :
              /\ p \in DOMAIN sessions /\ sessions[p].host = h
              /\ ConfigPacket(configs[h]) \in replies'[p]]_vars

-----------------------------------------------------------------------------
(* The inductive invariant.                                                *)

ClocksOK ==
    /\ gcClock \in 0 .. GCPeriod /\ sessionClock \in 0 .. SessionGCPeriod
    /\ restarts \in Nat

(* Dedup remembers at least every content id accepted within TTL, with the *)
(* time since, and for no longer than the collector lets it.               *)
DedupOK ==
    /\ repeats = {}
    /\ \A x \in DOMAIN dedup : /\ x \in DOMAIN lastAccepted
                               /\ dedup[x] = lastAccepted[x]
                               /\ dedup[x] \in Nat /\ dedup[x] <= TTL + gcClock
    /\ \A x \in DOMAIN lastAccepted :
         lastAccepted[x] \in Nat /\ (lastAccepted[x] <= TTL => x \in DOMAIN dedup)

(* A buffer holds parts of payloads with its content id, and its last      *)
(* sequence number is that of such a payload.                              *)
Part(i, p, x) == p \in Payloads /\ ContentId[p] = x /\ i \in 0 .. Split[p] - 1
BufferOK(b, x) ==
    /\ \A i \in DOMAIN b.parts : Part(i, b.parts[i], x)
    /\ \/ b.last = -1
       \/ \E p \in Payloads : ContentId[p] = x /\ Split[p] > 0 /\ b.last = Split[p] - 1
FragmentsOK ==
    \A x \in DOMAIN fragments :
       /\ fragments[x] = [parts |-> fragments[x].parts, last |-> fragments[x].last,
                          age |-> fragments[x].age]
       /\ BufferOK(fragments[x], x)
       /\ fragments[x].age \in Nat /\ fragments[x].age <= FragmentTTL + gcClock

Sessions == [age : Nat, reply : BOOLEAN, host : Hosts \cup {NoHost}]
SessionsOK ==
    \A p \in DOMAIN sessions :
       sessions[p] \in Sessions /\ sessions[p].age <= SessionTTL + sessionClock

AcksOK ==
    /\ DOMAIN replies = Peers
    /\ handled \subseteq Peers \X Datagrams
    /\ ~ Dtls => AckedWhenHandled

IndInv == ClocksOK /\ DedupOK /\ FragmentsOK /\ SessionsOK
          /\ ReassembledWhole /\ AcksOK
===============================================================================
