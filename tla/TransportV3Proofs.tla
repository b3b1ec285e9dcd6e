-------------------------- MODULE TransportV3Proofs --------------------------
(***************************************************************************)
(* The sessions of Transport keep their safety properties, and the V3      *)
(* client implements Transport, for every value of the constants.          *)
(***************************************************************************)
EXTENDS TransportV3, FiniteSetTheorems, TLAPS

(* The low bits of a counter value are a wire sequence number. *)
LEMMA WireSeqType ==
    ASSUME NEW k \in Nat
    PROVE  WireSeq(k) \in 0 .. SeqSpace - 1
BY TransportAssumption DEF WireSeq

(* A counter value that has not wrapped is its own wire sequence number. *)
LEMMA WireSeqExact ==
    ASSUME NEW k \in Nat, k < SeqSpace
    PROVE  WireSeq(k) = k
BY TransportAssumption DEF WireSeq

(* A datagram drawn within the bound is well formed. *)
LEMMA DataPacketType ==
    ASSUME NEW k \in Key, NEW t \in Tiers, NEW st \in Streams, NEW p \in Payloads
    PROVE  /\ DataPacket(k, t, st, p) \in DataPackets
           /\ DataPacket(k, t, st, p).key = k
           /\ DataPacket(k, t, st, p).seq = WireSeq(k)
<1>1. k \in Nat
  BY TransportAssumption DEF Key
<1>2. WireSeq(k) \in 0 .. SeqSpace - 1
  BY <1>1, WireSeqType
<1> QED
  BY <1>2 DEF DataPacket, DataPackets

(* A new entry holds its datagram. *)
LEMMA EntryType ==
    ASSUME NEW d \in DataPackets
    PROVE  Entry(d) \in Entries /\ Entry(d).data = d
BY TransportAssumption DEF Entry, Entries

(* Retrying an entry keeps its datagram. *)
LEMMA RetriedType ==
    ASSUME NEW e \in Entries
    PROVE  Retried(e) \in Entries /\ Retried(e).data = e.data
BY TransportAssumption DEF Entries, Retried

(* Aging an entry keeps its datagram. *)
LEMMA AgedType ==
    ASSUME NEW e \in Entries
    PROVE  Aged(e) \in Entries /\ Aged(e).data = e.data
BY TransportAssumption DEF Entries, Aged, Older

(* The map and the parts of it that a tick handles are finite. *)
LEMMA TickCounts ==
    ASSUME TypeOK
    PROVE  /\ IsFiniteSet(Keys) /\ Cardinality(Keys) \in Nat
           /\ Spent \subseteq Keys
           /\ IsFiniteSet(Spent) /\ Cardinality(Spent) \in Nat
           /\ \A C \in SUBSET Eligible : Cardinality(C) \in Nat
<1>1. IsFiniteSet(Key)
  BY FS_Interval, TransportAssumption DEF Key
<1>2. Spent \subseteq Keys /\ Eligible \subseteq Keys /\ Keys \subseteq Key
  BY DEF Spent, Eligible, Ripe, TypeOK
<1>3. \A C \in SUBSET Key : IsFiniteSet(C) /\ Cardinality(C) \in Nat
  BY <1>1, FS_Subset, FS_CardinalityType
<1> QED
  BY <1>2, <1>3

-----------------------------------------------------------------------------
(* Every step keeps the types.  A configuration on its way to the client   *)
(* is one of Configs (NetOK), the only fact needed beyond TypeOK.          *)
LEMMA TypeInductive ==
    ASSUME TypeOK, NetOK, [Next]_vars
    PROVE  TypeOK'
<1> USE TransportAssumption
<1>1. CASE UNCHANGED vars
  BY <1>1 DEF TypeOK, vars, clientVars, local, counters, net, Keys
<1>2. CASE SendHandshake \/ HandshakeTimeout \/ Close \/ SendKeepalive
  BY <1>2 DEF TypeOK, SendHandshake, HandshakeTimeout, Close, SendKeepalive,
     local, counters, net, Keys
<1>3. ASSUME NEW p \in toClient, HandshakeReply(p)
      PROVE  TypeOK'
  BY <1>3 DEF TypeOK, HandshakeReply, local, counters, net, Keys
<1>4. ASSUME NEW l \in loops, LoopExit(l)
      PROVE  TypeOK'
  BY <1>4 DEF TypeOK, LoopExit, local, counters, net, Keys
<1>5. ASSUME NEW n \in Windows, SetMaxInflight(n)
      PROVE  TypeOK'
  BY <1>5 DEF TypeOK, SetMaxInflight, local, counters, net, Keys
<1>6. ASSUME NEW s \in Senders, Sender(s)
      PROVE  TypeOK'
  <2>1. CASE BeginChunk(s)
    BY <2>1 DEF TypeOK, BeginChunk, counters, net, Keys, Pcs
  <2>2. CASE WindowOpen(s) \/ WindowStalled(s) \/ Oversize(s)
    BY <2>2 DEF TypeOK, WindowOpen, WindowStalled, Oversize, counters, net,
       Keys, Pcs
  <2>3. CASE DeferBestEffort(s) \/ TransmitFails(s)
    <3>1. pc[s] # "insert"
      BY <2>3 DEF DeferBestEffort, TransmitFails, MayTransmit
    <3> QED
      BY <2>3, <3>1 DEF TypeOK, DeferBestEffort, TransmitFails, net, Keys, Pcs
  <2>4. CASE Track(s)
    <3>1. PICK d \in DataPackets : current[s] = {d}
      BY <2>4 DEF Track, TypeOK
    <3>2. d.key \in Key
      BY DEF DataPackets
    <3>3. /\ DOMAIN inflight' = Keys \cup {d.key}
          /\ inflight' \in [DOMAIN inflight' -> Entries]
      BY <2>4, <3>1, EntryType DEF Track, TypeOK, Keys, InflightKey
    <3> QED
      BY <2>4, <3>1, <3>2, <3>3 DEF Track, TypeOK, counters, net, Keys, Pcs
  <2>5. ASSUME NEW t \in SendTiers, NEW st \in Streams, NEW p \in Payloads,
               Transmit(s, t, st, p)
        PROVE  TypeOK'
    <3> DEFINE d == DataPacket(seqCounter + 1, t, st, p)
    <3>1. d \in DataPackets /\ seqCounter + 1 \in 0 .. MaxSends
      <4>1. seqCounter + 1 \in Key /\ t \in Tiers
        BY <2>5 DEF Transmit, TypeOK, Key, Tiers
      <4> QED
        BY <4>1, DataPacketType DEF Key
    <3>2. pc[s] # "insert"
      BY <2>5 DEF Transmit, MayTransmit
    <3>3. /\ UNCHANGED <<phase, loops, cap, maxInflight, inflight, acked,
                         dropped, retransmits, unsent, applied>>
          /\ seqCounter' = seqCounter + 1 /\ sent' = sent + 1
          /\ \/ /\ pc' = [pc EXCEPT ![s] = "idle"]
                /\ untracked' = untracked + 1 /\ current' = current
             \/ /\ pc' = [pc EXCEPT ![s] = "insert"]
                /\ current' = [current EXCEPT ![s] = {d}]
                /\ untracked' = untracked
      BY <2>5 DEF Transmit
    <3> HIDE DEF d
    <3> QED
      BY <3>1, <3>2, <3>3 DEF TypeOK, Keys, Pcs
  <2> QED
    BY <1>6, <2>1, <2>2, <2>3, <2>4, <2>5 DEF Sender
<1>7. ASSUME NEW p \in toClient, ProcessACK(p)
      PROVE  TypeOK'
  BY <1>7 DEF TypeOK, ProcessACK, Without, local, net, Keys
<1>8. ASSUME NEW p \in toClient, ProcessNACK(p)
      PROVE  TypeOK'
  <2>1. /\ DOMAIN inflight' = Keys
        /\ inflight' \in [Keys -> Entries]
    BY <1>8, RetriedType DEF TypeOK, ProcessNACK, Keys
  <2> QED
    BY <1>8, <2>1 DEF TypeOK, ProcessNACK, local, net, Keys
<1>9. ASSUME NEW p \in toClient, RecvConfig(p)
      PROVE  TypeOK'
  BY <1>9 DEF TypeOK, NetOK, RecvConfig, local, counters, Keys
<1>10. CASE RunRetransmitTick
  <2>1. /\ DOMAIN inflight' = Keys \ Spent
        /\ inflight' \in [Keys \ Spent -> Entries]
    BY <1>10, RetriedType DEF TypeOK, RunRetransmitTick, Keys
  <2>2. dropped' \in Nat /\ retransmits' \in Nat
    BY <1>10, TickCounts DEF TypeOK, RunRetransmitTick
  <2> QED
    BY <1>10, <2>1, <2>2 DEF TypeOK, RunRetransmitTick, local, Keys
<1>11. CASE Server
  BY <1>11 DEF TypeOK, Server, ServerSends, clientVars, local, counters, Keys
<1>12. CASE Elapse /\ UNCHANGED net
  <2>1. /\ DOMAIN inflight' = Keys
        /\ inflight' \in [Keys -> Entries]
    BY <1>12, AgedType DEF TypeOK, Elapse, Keys
  <2> QED
    BY <1>12, <2>1 DEF TypeOK, Elapse, local, counters, Keys
<1> QED
  BY <1>1, <1>2, <1>3, <1>4, <1>5, <1>6, <1>7, <1>8, <1>9, <1>10, <1>11, <1>12
  DEF Next, Client, AckLoop

-----------------------------------------------------------------------------
(* A control packet is no datagram. *)
LEMMA ControlNotData ==
    ASSUME NEW ty, ty # "data"
    PROVE  Control(ty) \notin DataPackets
BY DEF Control, DataPackets

(* Every packet put on the network carries the wire form of its key. *)
LEMMA NetInductive ==
    ASSUME TypeOK, NetOK, KeysOK, [Next]_vars
    PROVE  NetOK'
<1> DEFINE ServerOK(S) == \A d \in S \cap DataPackets : d.seq = WireSeq(d.key)
<1>a. ASSUME UNCHANGED toClient, ServerOK(toServer') PROVE NetOK'
  BY <1>a DEF NetOK
<1>b. ASSUME NEW K \in SUBSET Keys, Written({inflight[k].data : k \in K})
      PROVE  ServerOK(toServer')
  BY <1>b DEF NetOK, KeysOK, Written
<1>c. ASSUME NEW ty, ty # "data", toServer' \subseteq toServer \cup {Control(ty)}
      PROVE  ServerOK(toServer')
  BY <1>c, ControlNotData DEF NetOK
<1>1. CASE UNCHANGED net
  BY <1>1 DEF NetOK, net
<1>2. CASE SendHandshake \/ Close \/ SendKeepalive
  <2>1. \E ty \in {"handshake", "fin", "keepalive"} :
           toServer' \subseteq toServer \cup {Control(ty)}
    BY <1>2 DEF SendHandshake, Close, SendKeepalive, Written
  <2>2. UNCHANGED toClient
    BY <1>2 DEF SendHandshake, Close, SendKeepalive
  <2> QED
    BY <1>a, <1>c, <2>1, <2>2
<1>3. ASSUME NEW s \in Senders, NEW t \in SendTiers, NEW st \in Streams,
             NEW p \in Payloads, Transmit(s, t, st, p)
      PROVE  NetOK'
  <2> DEFINE d == DataPacket(seqCounter + 1, t, st, p)
  <2>1. d.key = seqCounter + 1 /\ d.seq = WireSeq(seqCounter + 1)
    BY DEF DataPacket
  <2>2. toServer' = toServer \cup {d} /\ UNCHANGED toClient
    BY <1>3 DEF Transmit
  <2> HIDE DEF d
  <2> QED
    BY <1>a, <2>1, <2>2 DEF NetOK
<1>4. ASSUME NEW p \in toClient, ProcessNACK(p)
      PROVE  NetOK'
  <2>1. PICK k \in Keys : Written({inflight[k].data})
    BY <1>4, ZenonT(30) DEF ProcessNACK
  <2>2. ServerOK(toServer')
    BY <2>1, <1>b, ZenonT(30)
  <2> QED
    BY <1>a, <1>4, <2>2 DEF ProcessNACK
<1>5. ASSUME NEW p \in toClient, RecvConfig(p)
      PROVE  NetOK'
  BY <1>5, <1>a, <1>c DEF RecvConfig, Written
<1>6. CASE RunRetransmitTick
  <2>1. PICK C \in SUBSET Eligible : Written({inflight[k].data : k \in C})
    BY <1>6, ZenonT(30) DEF RunRetransmitTick
  <2>2. C \in SUBSET Keys
    BY <2>1 DEF Eligible, Ripe
  <2> QED
    BY <1>a, <1>b, <1>6, <2>1, <2>2, ZenonT(30) DEF RunRetransmitTick
<1>7. CASE Server
  <2>1. ASSUME NEW d \in toServer \cap DataPackets, NEW ty \in {"ack", "nack"},
               ServerSends(Reply(ty, d))
        PROVE  NetOK'
    <3>1. d.key \in Key /\ d.seq = WireSeq(d.key)
      BY DEF NetOK, DataPackets
    <3> QED
      BY <2>1, <3>1 DEF NetOK, ServerSends, Reply
  <2>2. ASSUME ServerSends(Control("handshake")) PROVE NetOK'
    BY <2>2 DEF NetOK, ServerSends, Control
  <2>3. ASSUME NEW c \in Configs, ServerSends(ConfigPacket(c)) PROVE NetOK'
    BY <2>3 DEF NetOK, ServerSends, ConfigPacket
  <2> QED
    BY <1>7, <2>1, <2>2, <2>3 DEF Server
<1>8. CASE UNCHANGED vars
  BY <1>8, <1>1 DEF vars
<1>9. \/ UNCHANGED net
      \/ SendHandshake \/ Close \/ SendKeepalive
      \/ \E s \in Senders, t \in SendTiers, st \in Streams, p \in Payloads :
            Transmit(s, t, st, p)
      \/ \E p \in toClient : ProcessNACK(p) \/ RecvConfig(p)
      \/ RunRetransmitTick \/ Server
  BY <1>8 DEF Next, Client, Sender, AckLoop, HandshakeTimeout, HandshakeReply,
     LoopExit, SetMaxInflight, BeginChunk, WindowOpen, WindowStalled, Oversize,
     DeferBestEffort, TransmitFails, Track, ProcessACK, vars
<1> QED
  BY <1>1, <1>2, <1>3, <1>4, <1>5, <1>6, <1>7, <1>9

-----------------------------------------------------------------------------
(* No step makes two datagrams share a key. *)
LEMMA KeysInductive ==
    ASSUME TypeOK, KeysOK, [Next]_vars
    PROVE  KeysOK'
<1>a. ASSUME seqCounter' \in Nat, seqCounter <= seqCounter',
             current' = current, DOMAIN inflight' \subseteq Keys,
             \A k \in DOMAIN inflight' : inflight'[k].data = inflight[k].data
      PROVE  KeysOK'
  BY <1>a DEF KeysOK, TypeOK, Keys, Key, DataPackets
<1>1. CASE UNCHANGED <<seqCounter, current, inflight>>
  BY <1>1 DEF KeysOK, Keys
<1>2. ASSUME NEW s \in Senders, Sender(s) PROVE KeysOK'
  <2>1. CASE DeferBestEffort(s) \/ TransmitFails(s)
    BY <1>a, <2>1 DEF DeferBestEffort, TransmitFails, TypeOK, Keys
  <2>2. ASSUME NEW t \in SendTiers, NEW st \in Streams, NEW p \in Payloads,
               Transmit(s, t, st, p)
        PROVE  KeysOK'
    <3> DEFINE d == DataPacket(seqCounter + 1, t, st, p)
    <3>1. d.key = seqCounter + 1 /\ d.seq = WireSeq(d.key)
      BY DEF DataPacket
    <3>2. /\ UNCHANGED inflight /\ seqCounter' = seqCounter + 1
          /\ UNCHANGED current \/ current' = [current EXCEPT ![s] = {d}]
      BY <2>2 DEF Transmit
    <3> HIDE DEF d
    <3>3. CASE UNCHANGED current
      BY <1>a, <3>2, <3>3 DEF TypeOK, Keys
    <3>4. CASE current' = [current EXCEPT ![s] = {d}]
      <4>1. \A r \in Senders : current'[r] = IF r = s THEN {d} ELSE current[r]
        BY <3>4 DEF TypeOK
      <4>2. \A r \in Senders : \A e \in current[r] :
               e.key \in Nat /\ e.key < seqCounter + 1
        BY TransportAssumption DEF KeysOK, TypeOK, DataPackets, Key
      <4>3. seqCounter \in Nat /\ Keys \subseteq Nat
        BY TransportAssumption DEF TypeOK, Key
      <4>4. \A k \in Keys : k < seqCounter + 1
        BY <4>3 DEF KeysOK
      <4> QED
        BY <3>1, <3>2, <4>1, <4>2, <4>3, <4>4 DEF KeysOK, Keys
    <3> QED
      BY <3>2, <3>3, <3>4
  <2>3. CASE Track(s)
    <3>1. PICK d \in DataPackets : current[s] = {d}
      BY <2>3 DEF Track, TypeOK
    <3>2. /\ DOMAIN inflight' = Keys \cup {d.key}
          /\ \A k \in Keys : k # d.key => inflight'[k] = inflight[k]
          /\ inflight'[d.key].data = d
      BY <2>3, <3>1, EntryType DEF Track, InflightKey, Keys
    <3>3. /\ \A r \in Senders : current'[r] = IF r = s THEN {} ELSE current[r]
          /\ UNCHANGED seqCounter
      BY <2>3 DEF Track, TypeOK
    <3> QED
      BY <3>1, <3>2, <3>3 DEF KeysOK, Keys
  <2> QED
    BY <1>1, <1>2, <2>1, <2>2, <2>3 DEF Sender, BeginChunk, WindowOpen,
       WindowStalled, Oversize
<1>3. ASSUME NEW p \in toClient, ProcessACK(p) PROVE KeysOK'
  BY <1>a, <1>3 DEF ProcessACK, Without, TypeOK, Keys, local
<1>4. ASSUME NEW p \in toClient, ProcessNACK(p) PROVE KeysOK'
  <2>1. /\ DOMAIN inflight' = Keys
        /\ \A k \in Keys : inflight'[k].data = inflight[k].data
    BY <1>4, RetriedType DEF ProcessNACK, TypeOK, Keys
  <2> QED
    BY <1>a, <1>4, <2>1 DEF ProcessNACK, TypeOK, local
<1>5. CASE RunRetransmitTick
  <2>1. /\ DOMAIN inflight' \subseteq Keys
        /\ \A k \in DOMAIN inflight' : inflight'[k].data = inflight[k].data
    BY <1>5, RetriedType DEF RunRetransmitTick, TypeOK, Keys
  <2> QED
    BY <1>a, <1>5, <2>1 DEF RunRetransmitTick, TypeOK, local
<1>6. CASE Elapse /\ UNCHANGED net
  <2>1. /\ DOMAIN inflight' = Keys
        /\ \A k \in Keys : inflight'[k].data = inflight[k].data
    BY <1>6, AgedType DEF Elapse, TypeOK, Keys
  <2>2. UNCHANGED <<seqCounter, current>>
    BY <1>6 DEF Elapse, local
  <2>3. seqCounter \in Nat
    BY DEF TypeOK
  <2> QED
    BY <1>a, <2>1, <2>2, <2>3
<1>7. \/ UNCHANGED <<seqCounter, current, inflight>>
      \/ \E s \in Senders : Sender(s)
      \/ \E p \in toClient : ProcessACK(p) \/ ProcessNACK(p)
      \/ RunRetransmitTick \/ (Elapse /\ UNCHANGED net)
  BY DEF Next, Client, AckLoop, SendHandshake, HandshakeTimeout, Close,
     SendKeepalive, HandshakeReply, LoopExit, SetMaxInflight, RecvConfig,
     Server, ServerSends, vars, clientVars, local
<1> QED
  BY <1>1, <1>2, <1>3, <1>4, <1>5, <1>6, <1>7

-----------------------------------------------------------------------------
(* Senders about to insert are finitely many; one more or one fewer of     *)
(* them changes their number by one.                                       *)
LEMMA InsertingCount ==
    ASSUME TypeOK
    PROVE  /\ Cardinality(Inserting) \in Nat
           /\ \A s \in Senders \ Inserting :
                Cardinality(Inserting \cup {s}) = Cardinality(Inserting) + 1
           /\ \A s \in Inserting :
                Cardinality(Inserting \ {s}) = Cardinality(Inserting) - 1
<1>1. IsFiniteSet(Inserting)
  BY FS_Subset, TransportAssumption DEF Inserting
<1> QED
  BY <1>1, FS_CardinalityType, FS_AddElement, FS_RemoveElement

(* Every step keeps the count: each datagram sent is accounted for once. *)
LEMMA AccountingInductive ==
    ASSUME TypeOK, KeysOK, Accounting, [Next]_vars
    PROVE  Accounting'
<1> DEFINE tally == <<sent, acked, dropped, untracked, unsent>>
<1>0. /\ sent \in Nat /\ acked \in Nat /\ dropped \in Nat
      /\ untracked \in Nat /\ unsent \in Nat
      /\ Cardinality(Keys) \in Nat /\ IsFiniteSet(Keys)
      /\ Cardinality(Inserting) \in Nat
  BY TickCounts, InsertingCount DEF TypeOK
<1>a. ASSUME UNCHANGED tally, DOMAIN inflight' = Keys, Inserting' = Inserting
      PROVE  Accounting'
  BY <1>a DEF Accounting, Keys
<1>1. CASE UNCHANGED <<pc, inflight, tally>>
  BY <1>1 DEF Accounting, Keys, Inserting
<1>2. ASSUME NEW s \in Senders, Sender(s) PROVE Accounting'
  <2>1. CASE BeginChunk(s) \/ WindowOpen(s) \/ WindowStalled(s) \/ Oversize(s)
    <3>1. Inserting' = Inserting
      BY <2>1 DEF BeginChunk, WindowOpen, WindowStalled, Oversize, Inserting,
         TypeOK
    <3> QED
      BY <1>a, <2>1, <3>1, SMTT(30) DEF BeginChunk, WindowOpen, WindowStalled, Oversize,
         counters, Keys
  <2>2. CASE DeferBestEffort(s) \/ TransmitFails(s)
    <3>1. Inserting' = Inserting
      BY <2>2 DEF DeferBestEffort, TransmitFails, MayTransmit, Inserting, TypeOK
    <3>2. UNCHANGED Keys
      BY <2>2 DEF DeferBestEffort, TransmitFails, Keys
    <3> QED
      BY <1>0, <2>2, <3>1, <3>2 DEF DeferBestEffort, TransmitFails, Accounting
  <2>3. ASSUME NEW t \in SendTiers, NEW st \in Streams, NEW p \in Payloads,
               Transmit(s, t, st, p)
        PROVE  Accounting'
    <3>1. s \notin Inserting /\ UNCHANGED Keys
      BY <2>3 DEF Transmit, MayTransmit, Inserting, Keys
    <3>2. CASE t = "besteff"
      <4>1. Inserting' = Inserting
        BY <2>3, <3>1, <3>2, ZenonT(30) DEF Transmit, Inserting, TypeOK
      <4> QED
        BY <1>0, <2>3, <3>1, <3>2, <4>1 DEF Transmit, Accounting
    <3>3. CASE t # "besteff"
      <4>1. Inserting' = Inserting \cup {s}
        BY <2>3, <3>3 DEF Transmit, Inserting, TypeOK
      <4>2. Cardinality(Inserting') = Cardinality(Inserting) + 1
        BY <3>1, <4>1, InsertingCount
      <4> QED
        BY <1>0, <2>3, <3>1, <3>3, <4>2 DEF Transmit, Accounting
    <3> QED
      BY <3>2, <3>3
  <2>4. CASE Track(s)
    <3>1. PICK d \in DataPackets : current[s] = {d}
      BY <2>4 DEF Track, TypeOK
    <3>2. d.key \notin Keys /\ Keys' = Keys \cup {d.key}
      BY <2>4, <3>1, ZenonT(30) DEF Track, InflightKey, Keys, KeysOK
    <3>3. Cardinality(Keys') = Cardinality(Keys) + 1
      BY <1>0, <3>2, FS_AddElement, ZenonT(30)
    <3>4. s \in Inserting /\ Inserting' = Inserting \ {s}
      BY <2>4 DEF Track, Inserting, TypeOK
    <3>5. Cardinality(Inserting') = Cardinality(Inserting) - 1
      BY <3>4, InsertingCount
    <3> QED
      BY <1>0, <2>4, <3>3, <3>5 DEF Track, Accounting, counters
  <2> QED
    BY <1>2, <2>1, <2>2, <2>3, <2>4 DEF Sender
<1>3. ASSUME NEW p \in toClient, ProcessACK(p) PROVE Accounting'
  <2>1. PICK k \in Keys : Keys' = Keys \ {k}
    BY <1>3 DEF ProcessACK, Without, Keys
  <2>2. Cardinality(Keys') = Cardinality(Keys) - 1
    BY <1>0, <2>1, FS_RemoveElement, ZenonT(30)
  <2>3. Inserting' = Inserting
    BY <1>3 DEF ProcessACK, Inserting, local
  <2> QED
    BY <1>0, <1>3, <2>2, <2>3 DEF ProcessACK, Accounting
<1>4. ASSUME NEW p \in toClient, ProcessNACK(p) PROVE Accounting'
  <2>1. DOMAIN inflight' = Keys
    BY <1>4 DEF ProcessNACK, Keys
  <2> QED
    BY <1>a, <1>4, <2>1 DEF ProcessNACK, Inserting, local
<1>5. CASE RunRetransmitTick
  <2>1. Keys' = Keys \ Spent
    BY <1>5 DEF RunRetransmitTick, Keys
  <2>2. Cardinality(Keys') = Cardinality(Keys) - Cardinality(Spent)
    <3>1. Keys \cap Spent = Spent
      BY TickCounts
    <3> QED
      BY <1>0, <2>1, <3>1, TickCounts, FS_Difference, ZenonT(40)
  <2>3. Inserting' = Inserting
    BY <1>5 DEF RunRetransmitTick, Inserting, local
  <2>4. Cardinality(Spent) \in Nat
    BY TickCounts
  <2> QED
    <3>1. dropped' = dropped + Cardinality(Spent) /\ UNCHANGED <<sent, acked, untracked, unsent>>
      BY <1>5 DEF RunRetransmitTick
    <3> QED
      BY <1>0, <2>2, <2>3, <2>4, <3>1 DEF Accounting
<1>6. CASE Elapse /\ UNCHANGED net
  BY <1>a, <1>6 DEF Elapse, Inserting, local, counters, Keys
<1>7. \/ UNCHANGED <<pc, inflight, tally>>
      \/ \E s \in Senders : Sender(s)
      \/ \E p \in toClient : ProcessACK(p) \/ ProcessNACK(p)
      \/ RunRetransmitTick \/ (Elapse /\ UNCHANGED net)
  BY ZenonT(30) DEF Next, Client, AckLoop, SendHandshake, HandshakeTimeout, Close,
     SendKeepalive, HandshakeReply, LoopExit, SetMaxInflight, RecvConfig,
     Server, ServerSends, vars, clientVars, local, counters
<1> QED
  BY <1>1, <1>2, <1>3, <1>4, <1>5, <1>6, <1>7

-----------------------------------------------------------------------------
(* The initial state satisfies the inductive invariant. *)
LEMMA InitIndInv == Init => IndInv
<1> SUFFICES ASSUME Init PROVE IndInv
  OBVIOUS
<1> USE TransportAssumption DEF Init, NewClient
<1>1. Keys = {} /\ Inserting = {}
  BY DEF Keys, Inserting
<1>2. TypeOK
  BY <1>1 DEF TypeOK, Pcs, Keys
<1>3. NetOK /\ KeysOK
  BY <1>1 DEF NetOK, KeysOK
<1>4. Accounting
  BY <1>1, FS_EmptySet DEF Accounting
<1> QED
  BY <1>2, <1>3, <1>4 DEF IndInv

(* The inductive invariant holds throughout: it is what the other theorems *)
(* about the client start from.                                            *)
THEOREM Invariance == Spec => []IndInv
<1>1. IndInv /\ [Next]_vars => IndInv'
  BY TypeInductive, NetInductive, KeysInductive, AccountingInductive DEF IndInv
<1> QED
  BY InitIndInv, <1>1, PTL DEF Spec

(* The client's state keeps its types, for any number of senders,          *)
(* datagrams, windows and retries.                                         *)
THEOREM TypeCorrectness == Spec => []TypeOK
<1>1. IndInv => TypeOK
  BY DEF IndInv
<1> QED
  BY <1>1, Invariance, PTL

(* Every datagram counted sent is accounted for exactly once, however the  *)
(* senders, the ACK loop, the retransmit ticks and Close interleave and    *)
(* however often the wire sequence number wraps.                           *)
THEOREM AccountingCorrect == Spec => []Accounting
<1>1. IndInv => Accounting
  BY DEF IndInv
<1> QED
  BY <1>1, Invariance, PTL

(* A written datagram never finds its key taken, so transmitWithFlags      *)
(* never overwrites an older entry.                                        *)
THEOREM NoOverwriteCorrect == Spec => []NoOverwrite
<1>1. ASSUME IndInv PROVE NoOverwrite
  BY <1>1 DEF IndInv, KeysOK, NoOverwrite, Inserting, InflightKey
<1> QED
  BY <1>1, Invariance, PTL

(* As long as the wire sequence number cannot wrap within the session,     *)
(* processACK credits every ACK to the datagram it was sent for.           *)
THEOREM AckAttributionCorrect ==
    ASSUME MaxSends < SeqSpace
    PROVE  Spec => AckAttribution
<1> DEFINE Attributed ==
      acked' # acked =>
        \A k \in Keys \ DOMAIN inflight' :
           \E p \in toClient : p.type = "ack" /\ p.key = k
<1>1. ASSUME IndInv, Next PROVE Attributed
  <2>1. ASSUME NEW p \in toClient, ProcessACK(p) PROVE Attributed
    <3>1. PICK k \in Keys : Matches(k, p) /\ DOMAIN inflight' = Keys \ {k}
      BY <2>1 DEF ProcessACK, Without, Keys
    <3>2. p.type = "ack" /\ p.key \in Key /\ p.seq = WireSeq(p.key)
      BY <1>1, <2>1 DEF ProcessACK, IndInv, NetOK
    <3>3. k \in Key /\ WireSeq(k) = p.seq
      BY <1>1, <3>1, ZenonT(30) DEF IndInv, KeysOK, TypeOK, Matches
    <3>4. WireSeq(k) = k /\ WireSeq(p.key) = p.key
      BY <3>2, <3>3, WireSeqExact, TransportAssumption DEF Key
    <3> QED
      BY <3>1, <3>2, <3>3, <3>4, ZenonT(30)
  <2>2. ASSUME ~ \E p \in toClient : ProcessACK(p) PROVE UNCHANGED acked
    BY <1>1, <2>2, ZenonT(30) DEF Next, Client, Sender, AckLoop, SendHandshake,
       HandshakeTimeout, HandshakeReply, Close, SendKeepalive, LoopExit,
       SetMaxInflight, BeginChunk, WindowOpen, WindowStalled, Oversize,
       DeferBestEffort, TransmitFails, Transmit, Track, ProcessNACK,
       RecvConfig, RunRetransmitTick, Server, ServerSends, Elapse, clientVars,
       counters
  <2> QED
    BY <2>1, <2>2
<1>2. ASSUME IndInv, [Next]_vars PROVE [Attributed]_vars
  BY <1>1, <1>2
<1> QED
  BY <1>2, Invariance, PTL DEF Spec, AckAttribution

-----------------------------------------------------------------------------
(* Senders past the window check are finitely many, at most all of them. *)
LEMMA AdmittedCount ==
    ASSUME TypeOK
    PROVE  /\ Cardinality(Admitted) \in Nat
           /\ IsFiniteSet(Admitted)
           /\ Cardinality(Senders) \in Nat
           /\ \A S \in SUBSET Senders : Cardinality(S) <= Cardinality(Senders)
<1>1. Admitted \subseteq Senders
  BY DEF Admitted
<1> QED
  BY <1>1, FS_Subset, FS_CardinalityType, TransportAssumption

(* Every step keeps the places within the window. *)
LEMMA WindowInductive ==
    ASSUME TypeOK, KeysOK, WindowInv, [Next]_vars, TypeOK'
    PROVE  WindowInv'
<1> SUFFICES ASSUME Bulk = Senders, 0 \notin Windows
             PROVE  \E w \in Windows : Cardinality(Keys') + Cardinality(Admitted')
                                          <= w + Cardinality(Bulk) - 1
  BY DEF WindowInv
<1>0. /\ Cardinality(Keys) \in Nat /\ IsFiniteSet(Keys)
      /\ Cardinality(Admitted) \in Nat /\ IsFiniteSet(Admitted)
      /\ Cardinality(Bulk) \in Nat /\ Windows \subseteq Nat
  BY TickCounts, AdmittedCount, TransportAssumption
<1>1. PICK w \in Windows :
         Cardinality(Keys) + Cardinality(Admitted) <= w + Cardinality(Bulk) - 1
  BY DEF WindowInv
<1>a. ASSUME Keys' \subseteq Keys, Admitted' \subseteq Admitted
      PROVE  Cardinality(Keys') + Cardinality(Admitted')
                <= w + Cardinality(Bulk) - 1
  <2>1. /\ Cardinality(Keys') \in Nat /\ Cardinality(Keys') <= Cardinality(Keys)
        /\ Cardinality(Admitted') \in Nat
        /\ Cardinality(Admitted') <= Cardinality(Admitted)
    BY <1>0, <1>a, FS_Subset, FS_CardinalityType
  <2> QED
    BY <1>0, <1>1, <2>1
<1>2. ASSUME NEW s \in Senders, Sender(s)
      PROVE  \E v \in Windows : Cardinality(Keys') + Cardinality(Admitted')
                                   <= v + Cardinality(Bulk) - 1
  <2>1. CASE WindowOpen(s)
    <3>1. UNCHANGED Keys /\ Cardinality(Keys) < cap[s]
      BY <2>1 DEF WindowOpen, Keys
    <3>2. cap[s] \in Windows /\ cap[s] \in Nat
      <4>1. cap[s] \in Windows \cup {0}
        BY DEF TypeOK
      <4>2. cap[s] # 0
        BY <1>0, <3>1
      <4> QED
        BY <1>0, <4>1, <4>2, ZenonT(30)
    <3>3. Cardinality(Admitted') \in Nat /\ Cardinality(Admitted') <= Cardinality(Bulk)
      <4>1. Admitted' \in SUBSET Senders
        BY DEF Admitted
      <4> QED
        BY <4>1, FS_Subset, FS_CardinalityType, TransportAssumption
    <3>4. Cardinality(Keys') + Cardinality(Admitted')
            <= cap[s] + Cardinality(Bulk) - 1
      BY <1>0, <3>1, <3>2, <3>3
    <3> QED
      BY <3>2, <3>4
  <2>2. CASE Track(s)
    <3>1. PICK d \in DataPackets : current[s] = {d}
      BY <2>2, ZenonT(30) DEF Track, TypeOK
    <3>2. d.key \notin Keys /\ Keys' = Keys \cup {d.key}
      BY <2>2, <3>1, ZenonT(30) DEF Track, InflightKey, Keys, KeysOK
    <3>3. Cardinality(Keys') = Cardinality(Keys) + 1
      BY <1>0, <3>2, FS_AddElement, ZenonT(30)
    <3>4. s \in Admitted /\ Admitted' = Admitted \ {s}
      BY <2>2, ZenonT(30) DEF Track, Admitted, TypeOK
    <3>5. Cardinality(Admitted') = Cardinality(Admitted) - 1
      BY <1>0, <3>4, FS_RemoveElement, ZenonT(30)
    <3> QED
      BY <1>0, <1>1, <3>3, <3>5
  <2>3. CASE ~ WindowOpen(s) /\ ~ Track(s)
    <3>1. UNCHANGED Keys
      BY <1>2, <2>3, ZenonT(30) DEF Sender, BeginChunk, WindowStalled, Oversize,
         DeferBestEffort, TransmitFails, Transmit, Keys
    <3>2. maxInflight # 0
      BY ZenonT(30) DEF TypeOK
    <3>3. \E l \in {"idle", "window", "insert"} :
            pc' = [pc EXCEPT ![s] = l] /\ (l = "insert" => s \in Admitted)
      BY <1>2, <2>3, <3>2, ZenonT(30) DEF Sender, BeginChunk, WindowStalled, Oversize,
         DeferBestEffort, TransmitFails, Transmit, MayTransmit, Admitted
    <3>4. Admitted' \subseteq Admitted
      BY <3>3, ZenonT(30) DEF Admitted, TypeOK
    <3> QED
      BY <1>a, <3>1, <3>4
  <2> QED
    BY <2>1, <2>2, <2>3
<1>3. ASSUME ~ \E s \in Senders : Sender(s)
      PROVE  Keys' \subseteq Keys /\ Admitted' = Admitted
  BY <1>3, ZenonT(30) DEF Next, Client, AckLoop, SendHandshake, HandshakeTimeout,
     HandshakeReply, Close, SendKeepalive, LoopExit, SetMaxInflight,
     ProcessACK, ProcessNACK, Without, RecvConfig, RunRetransmitTick, Server,
     ServerSends, Elapse, vars, clientVars, local, Keys, Admitted
<1> QED
  BY <1>a, <1>2, <1>3

(* When every sender is chunked and the window is on, the datagrams        *)
(* awaited stay below the widest window plus one per concurrent sender.    *)
THEOREM WindowCorrect == Spec => []WindowRespected
<1>1. ASSUME Init PROVE WindowInv
  <2>1. Keys = {} /\ Admitted = {} /\ maxInflight \in Windows
    BY <1>1 DEF Init, NewClient, Keys, Admitted
  <2>2. Cardinality(Bulk) \in Nat /\ Cardinality({}) = 0
    BY FS_Subset, FS_CardinalityType, FS_EmptySet, TransportAssumption
  <2> QED
    BY <2>1, <2>2, TransportAssumption DEF WindowInv
<1>2. ASSUME IndInv, WindowInv, [Next]_vars, IndInv' PROVE WindowInv'
  BY <1>2, WindowInductive DEF IndInv
<1>3. ASSUME IndInv, WindowInv PROVE WindowRespected
  <2>1. TypeOK
    BY <1>3 DEF IndInv
  <2>2. /\ Cardinality(Inserting) \in Nat /\ Cardinality(Admitted) \in Nat
        /\ Cardinality(Inserting) <= Cardinality(Admitted)
    <3>1. Inserting \in SUBSET Admitted
      BY DEF Inserting, Admitted
    <3> QED
      BY <2>1, <3>1, AdmittedCount, InsertingCount, FS_Subset
  <2>3. /\ Cardinality(Keys) \in Nat /\ Windows \subseteq Nat
        /\ Bulk = Senders => Cardinality(Bulk) \in Nat
    BY <2>1, TickCounts, AdmittedCount, TransportAssumption
  <2> QED
    BY <1>3, <2>2, <2>3 DEF WindowInv, WindowRespected
<1> QED
  BY <1>1, <1>2, <1>3, Invariance, PTL DEF Spec



(* The header of a fragment in range is a payload. *)
LEMMA FragmentType ==
    ASSUME NEW m \in Message, NEW n \in 1 .. MaxFragments, NEW i \in 0 .. n - 1
    PROVE  Fragment(m, i, n) \in Payloads
<1>1. i \in 0 .. MaxFragments - 1
  BY TransportV3Assumption
<1>2. Fragment(m, i, n) \in Fragments
  BY <1>1 DEF Fragment, Fragments
<1> QED
  BY <1>2, TransportV3Assumption

(* The initial states satisfy the invariant. *)
LEMMA InitInvV3 == InitV3 => IndInvV3
<1> SUFFICES ASSUME InitV3 PROVE IndInvV3
  OBVIOUS
<1>1. SendingOK
  BY TransportV3Assumption DEF InitV3, Init, NewClient, SendingOK, Pcs
<1>2. SacksOK
  BY DEF InitV3, SacksOK
<1> QED
  BY <1>1, <1>2 DEF IndInvV3

(* Steps of Transport that leave the senders where they are. *)
LEMMA SessionKeepsPc ==
    ASSUME SessionV3 PROVE UNCHANGED <<pc, sendV3, serverV3, sacking>>
BY DEF SessionV3, SendHandshake, HandshakeTimeout, Close, SendKeepalive,
       HandshakeReply, SetMaxInflight, RunRetransmitTick, Elapse, local

(* Sending keeps the messages and the places of the senders in step. *)
LEMMA SendingInductive ==
    ASSUME IndInvV3, [NextV3]_varsV3 PROVE SendingOK'
<1> USE DEF IndInvV3
<1>0. CASE UNCHANGED <<pc, sendV3>>
  BY <1>0 DEF SendingOK, sendV3
<1>1. CASE SessionV3
  BY <1>0, <1>1, SessionKeepsPc
<1>2. CASE AckLoopV3
  <2>1. UNCHANGED <<pc, sendV3>>
    BY <1>2 DEF AckLoopV3, AckLoop, ProcessACK, ProcessNACK, RecvConfig, RecvSACK,
                SackEntry, local, vars, clientVars
  <2> QED BY <1>0, <2>1
<1>3. CASE ServerV3
  <2>1. UNCHANGED <<pc, sendV3>>
    BY <1>3 DEF ServerV3, Server, ServerSends, GatherSACK, SendSACK, local, vars,
                clientVars
  <2> QED BY <1>0, <2>1
<1>4. ASSUME NEW l \in loops, LoopExitV3(l) PROVE SendingOK'
  BY <1>0, <1>4 DEF LoopExitV3, LoopExit, local
<1>5. ASSUME NEW s \in Senders, SenderV3(s) PROVE SendingOK'
  <2> USE DEF SendingOK, Pcs
  <2>1. CASE BeginMessage(s)
    <3>1. PICK t \in SendTiers, st \in Streams, n \in 2 .. MaxFragments :
             sending' = [sending EXCEPT ![s] = {[id |-> msgCounter + 1, tier |-> t,
                           stream |-> st, next |-> 0, total |-> n]}]
      BY <2>1, ZenonT(30) DEF BeginMessage, SetSending
    <3>2. msgCounter' \in Message /\ msgCounter' = msgCounter + 1
      BY <2>1, TransportV3Assumption DEF BeginMessage, Message
    <3>3. [id |-> msgCounter + 1, tier |-> t, stream |-> st, next |-> 0, total |-> n]
             \in Messages
      BY <3>2, TransportV3Assumption DEF Messages
    <3> DEFINE m0 == [id |-> msgCounter + 1, tier |-> t, stream |-> st, next |-> 0,
                      total |-> n]
    <3>4. m0.next = 0 /\ m0.total = n
      OBVIOUS
    <3>5. pc' = pc /\ s \in Bulk
      BY <2>1 DEF BeginMessage, vars, clientVars, local
    <3>6. sending' = [sending EXCEPT ![s] = {m0}] /\ m0 \in Messages
      BY <3>1, <3>3
    <3> HIDE DEF m0
    <3>7. msgCounter' \in 0 .. MaxMessages
      BY <3>2 DEF Message
    <3>8. m0.next <= m0.total /\ m0.next < m0.total
      BY <3>4
    <3> QED BY <3>5, <3>6, <3>7, <3>8, ZenonT(30)
  <2>2. CASE BeginFragment(s)
    <3>1. UNCHANGED sendV3 /\ \E m \in sending[s] : m.next < m.total
      BY <2>2 DEF BeginFragment
    <3>2. pc' = [pc EXCEPT ![s] = IF maxInflight = 0 THEN "ready" ELSE "window"]
      BY <2>2 DEF BeginFragment, BeginChunk
    <3>3. pc[s] = "idle"
      BY <2>2 DEF BeginFragment, BeginChunk
    <3> QED BY <3>1, <3>2, <3>3 DEF sendV3
  <2>3. CASE FragmentAdmitted(s)
    BY <2>3 DEF FragmentAdmitted, WindowOpen, sendV3
  <2>4. CASE FragmentStalled(s)
    BY <2>4 DEF FragmentStalled, WindowStalled, SetSending
  <2>5. CASE SendFragment(s)
    <3>1. PICK m \in sending[s] :
             /\ Transmit(s, m.tier, m.stream, Fragment(m.id, m.next, m.total))
             /\ sending' = [sending EXCEPT ![s] = {[m EXCEPT !.next = @ + 1]}]
      BY <2>5, ZenonT(30) DEF SendFragment, SetSending
    <3>2. m \in Messages /\ s \in Bulk
      OBVIOUS
    <3>3. pc[s] = "ready" /\ m.next < m.total
      BY <3>1, <3>2 DEF Transmit, MayTransmit
    <3>4. \E place \in {"idle", "insert"} : pc' = [pc EXCEPT ![s] = place]
      BY <3>1 DEF Transmit
    <3> DEFINE m1 == [m EXCEPT !.next = @ + 1]
    <3>5. m1 \in Messages /\ m1.next <= m1.total
      BY <3>2, <3>3, TransportV3Assumption DEF Messages
    <3>6. sending' = [sending EXCEPT ![s] = {m1}]
      BY <3>1
    <3>7. UNCHANGED msgCounter
      BY <2>5 DEF SendFragment
    <3> HIDE DEF m1
    <3> QED BY <3>2, <3>4, <3>5, <3>6, <3>7
  <2>6. CASE FragmentFails(s)
    BY <2>6 DEF FragmentFails, TransmitFails, SetSending
  <2>7. CASE TrackFragment(s)
    BY <2>7 DEF TrackFragment, Track, sendV3
  <2>8. CASE MessageSent(s)
    BY <2>8 DEF MessageSent, SetSending, vars, clientVars, local
  <2>9. CASE TransmitSingleV3(s)
    <3>1. /\ s \notin Bulk /\ UNCHANGED sending
          /\ msgCounter < MaxMessages /\ msgCounter' = msgCounter + 1
      BY <2>9 DEF TransmitSingleV3
    <3>2. \E place \in {"idle", "insert"} : pc' = [pc EXCEPT ![s] = place]
      BY <2>9 DEF TransmitSingleV3, Transmit
    <3> QED BY <3>1, <3>2, TransportV3Assumption
  <2>10. CASE SingleFails(s)
    BY <2>10 DEF SingleFails, TransmitFails, sendV3
  <2>11. CASE DeferV3(s)
    BY <2>11 DEF DeferV3, DeferBestEffort, sendV3
  <2> QED
    BY <1>5, <2>1, <2>2, <2>3, <2>4, <2>5, <2>6, <2>7, <2>8, <2>9, <2>10, <2>11,
       ZenonT(30) DEF SenderV3
<1>6. CASE UNCHANGED varsV3
  BY <1>0, <1>6 DEF varsV3, vars, clientVars, local
<1> QED
  BY <1>1, <1>2, <1>3, <1>4, <1>5, <1>6 DEF NextV3

(* The SACKs on the network only grow, and the one in hand is one of them. *)
LEMMA SacksInductive ==
    ASSUME IndInvV3, [NextV3]_varsV3 PROVE SacksOK'
<1> USE DEF IndInvV3
<1>0. CASE UNCHANGED <<loops, serverV3, sacking>>
  BY <1>0 DEF SacksOK, serverV3
<1>1. CASE SessionV3
  <2>1. UNCHANGED <<serverV3, sacking>>
    BY <1>1 DEF SessionV3
  <2>2. UNCHANGED loops \/ "ack" \in loops'
    BY <1>1 DEF SessionV3, SendHandshake, HandshakeTimeout, Close, SendKeepalive,
                HandshakeReply, SetMaxInflight, RunRetransmitTick, Elapse
  <2> QED BY <2>1, <2>2 DEF SacksOK, serverV3
<1>2. CASE AckLoopV3
  <2>1. CASE sacking = {} /\ AckLoop /\ UNCHANGED <<sendV3, serverV3, sacking>>
    BY <1>0, <2>1 DEF AckLoop, ProcessACK, ProcessNACK, RecvConfig
  <2>2. ASSUME NEW q \in sacks, RecvSACK(q) PROVE SacksOK'
    BY <2>2 DEF RecvSACK, SacksOK, serverV3, vars, clientVars
  <2>3. ASSUME NEW p \in sacking, SackEntry(p) PROVE SacksOK'
    BY <2>3 DEF SackEntry, SacksOK, serverV3
  <2> QED BY <1>2, <2>1, <2>2, <2>3 DEF AckLoopV3
<1>3. CASE ServerV3
  <2>1. CASE Server /\ UNCHANGED <<sendV3, serverV3, sacking>>
    BY <1>0, <2>1 DEF Server, ServerSends, clientVars
  <2>2. CASE GatherSACK
    BY <2>2 DEF GatherSACK, Reply, SacksOK, vars, clientVars
  <2>3. CASE SendSACK
    BY <2>3 DEF SendSACK, SacksOK, vars, clientVars
  <2> QED BY <1>3, <2>1, <2>2, <2>3 DEF ServerV3
<1>4. ASSUME NEW l \in loops, LoopExitV3(l) PROVE SacksOK'
  BY <1>4 DEF LoopExitV3, LoopExit, SacksOK, serverV3
<1>5. ASSUME NEW s \in Senders, SenderV3(s) PROVE SacksOK'
  <2>1. UNCHANGED <<loops, serverV3, sacking>>
    BY <1>5, ZenonT(30) DEF SenderV3, BeginMessage, BeginFragment, FragmentAdmitted, FragmentStalled,
       SendFragment, FragmentFails, TrackFragment, MessageSent, TransmitSingleV3,
       SingleFails, DeferV3, BeginChunk, WindowOpen, WindowStalled, Transmit,
       TransmitFails, Track, DeferBestEffort, vars, clientVars
  <2> QED BY <1>0, <2>1
<1>6. CASE UNCHANGED varsV3
  BY <1>0, <1>6 DEF varsV3, vars, clientVars
<1> QED
  BY <1>1, <1>2, <1>3, <1>4, <1>5, <1>6 DEF NextV3

(* The invariant holds in every reachable state of the V3 client. *)
THEOREM InvarianceV3 == SpecV3 => []IndInvV3
<1>1. InitV3 => IndInvV3
  BY InitInvV3
<1>2. IndInvV3 /\ [NextV3]_varsV3 => IndInvV3'
  BY SendingInductive, SacksInductive DEF IndInvV3
<1> QED
  BY <1>1, <1>2, PTL DEF SpecV3

(* The instance counts sets as Transport does. *)
LEMMA SameCardinality == \A S : V2!Cardinality(S) = Cardinality(S)
BY DEF Cardinality, V2!Cardinality

(* A step of Transport on the client side is one of the embedded client,   *)
(* whatever SACKs are on the network.                                      *)
LEMMA SameSession ==
    ASSUME SessionV3 PROVE V2!Next
<1> USE DEF local, counters, net, V2!local, V2!counters, V2!net, V2!clientVars,
            sendV3, serverV3
<1>1. UNCHANGED serverV3
  BY DEF SessionV3
<1>2. CASE SendHandshake
  BY <1>1, <1>2 DEF SendHandshake, V2!SendHandshake, V2!Client, V2!Next, Control, V2!Control
<1>3. CASE HandshakeTimeout
  BY <1>1, <1>3 DEF HandshakeTimeout, V2!HandshakeTimeout, V2!Client, V2!Next
<1>4. CASE Close
  BY <1>1, <1>4 DEF Close, V2!Close, V2!Client, V2!Next, Control, V2!Control
<1>5. CASE SendKeepalive
  BY <1>1, <1>5 DEF SendKeepalive, V2!SendKeepalive, Written, V2!Written, V2!Client,
                    V2!Next, Control, V2!Control
<1>6. ASSUME NEW p \in toClient, HandshakeReply(p) PROVE V2!Next
  <2>1. V2!HandshakeReply(p)
    BY <1>1, <1>6 DEF HandshakeReply, V2!HandshakeReply
  <2> QED BY <2>1 DEF V2!Client, V2!Next
<1>7. ASSUME NEW n \in Windows, SetMaxInflight(n) PROVE V2!Next
  BY <1>1, <1>7 DEF SetMaxInflight, V2!SetMaxInflight, V2!Client, V2!Next
<1>8. CASE RunRetransmitTick
  <2>1. V2!RunRetransmitTick
    BY <1>1, <1>8, SameCardinality, ZenonT(30) DEF RunRetransmitTick, V2!RunRetransmitTick, Written, V2!Written,
       Ripe, V2!Ripe, Spent, V2!Spent, Eligible, V2!Eligible, Keys, V2!Keys,
       OldestFirst, V2!OldestFirst, Retried, V2!Retried, MaxRetries, V2!MaxRetries,
       ComputeRTO, V2!ComputeRTO
  <2> QED BY <2>1 DEF V2!Client, V2!Next
<1>9. CASE Elapse /\ UNCHANGED net
  BY <1>1, <1>9, ZenonT(30) DEF Elapse, V2!Elapse, Aged, V2!Aged, Older, V2!Older, Keys, V2!Keys,
                    V2!Next
<1> QED
  BY <1>2, <1>3, <1>4, <1>5, <1>6, <1>7, <1>8, <1>9 DEF SessionV3

(* Sending a fragment or a single datagram is a transmission of Transport, *)
(* with the fragment's header as its payload.                              *)
LEMMA SameSender ==
    ASSUME IndInvV3, NEW s \in Senders, SenderV3(s) PROVE [V2!Next]_V2!vars
<1> USE DEF local, counters, net, V2!local, V2!counters, V2!net, V2!clientVars,
            Established, V2!Established, Keys, V2!Keys
<1>1. UNCHANGED <<toClient, sackBuf, sacks>>
  BY ZenonT(30) DEF SenderV3, BeginMessage, BeginFragment, FragmentAdmitted, FragmentStalled,
     SendFragment, FragmentFails, TrackFragment, MessageSent, TransmitSingleV3,
     SingleFails, DeferV3, BeginChunk, WindowOpen, WindowStalled, Transmit,
     TransmitFails, Track, DeferBestEffort, vars, clientVars, serverV3
<1>2. CASE UNCHANGED vars
  BY <1>1, <1>2 DEF vars, clientVars, V2!vars
<1>3. CASE BeginChunk(s)
  BY <1>1, <1>3, ZenonT(30) DEF BeginChunk, V2!BeginChunk, V2!Sender, V2!Client, V2!Next
<1>4. CASE WindowOpen(s)
  BY <1>1, <1>4, SameCardinality, ZenonT(30)
     DEF WindowOpen, V2!WindowOpen, V2!Sender, V2!Client, V2!Next
<1>5. CASE WindowStalled(s)
  BY <1>1, <1>5, SameCardinality, ZenonT(30)
     DEF WindowStalled, V2!WindowStalled, V2!Sender, V2!Client, V2!Next
<1>6. CASE TransmitFails(s)
  BY <1>1, <1>6, ZenonT(30) DEF TransmitFails, V2!TransmitFails, MayTransmit, V2!MayTransmit,
                    V2!Sender, V2!Client, V2!Next
<1>7. CASE Track(s)
  BY <1>1, <1>7, ZenonT(30) DEF Track, V2!Track, InflightKey, V2!InflightKey, Entry, V2!Entry,
                    V2!Sender, V2!Client, V2!Next
<1>8. CASE DeferBestEffort(s)
  BY <1>1, <1>8, ZenonT(30) DEF DeferBestEffort, V2!DeferBestEffort, MayTransmit, V2!MayTransmit,
                    V2!Sender, V2!Client, V2!Next
<1>9. ASSUME NEW t \in SendTiers, NEW st \in Streams, NEW p \in Payloads,
             Transmit(s, t, st, p)
      PROVE  V2!Next
  <2>1. V2!Transmit(s, t, st, p)
    BY <1>1, <1>9, ZenonT(30) DEF Transmit, V2!Transmit, MayTransmit, V2!MayTransmit, DataPacket,
                      V2!DataPacket, WireSeq, V2!WireSeq
  <2> QED BY <2>1 DEF V2!Sender, V2!Client, V2!Next
<1>10. CASE SendFragment(s)
  <2>1. PICK m \in sending[s] :
           Transmit(s, m.tier, m.stream, Fragment(m.id, m.next, m.total))
    BY <1>10 DEF SendFragment
  <2>2. m \in Messages /\ s \in Bulk
    BY DEF IndInvV3, SendingOK
  <2>3. m.next < m.total
    BY <2>1, <2>2 DEF IndInvV3, SendingOK, Transmit, MayTransmit
  <2>4. Fragment(m.id, m.next, m.total) \in Payloads
    <3>1. m.id \in Message /\ m.total \in 1 .. MaxFragments /\ m.next \in 0 .. m.total - 1
      BY <2>2, <2>3, TransportV3Assumption DEF Messages
    <3> QED BY <3>1, FragmentType
  <2> QED BY <1>9, <2>1, <2>2, <2>4, ZenonT(30) DEF Messages
<1>11. CASE TransmitSingleV3(s)
  <2>1. PICK t \in SendTiers, st \in Streams :
           Transmit(s, t, st, Fragment(msgCounter + 1, 0, 1))
    BY <1>11 DEF TransmitSingleV3
  <2>2. msgCounter + 1 \in Message
    BY <1>11, TransportV3Assumption DEF TransmitSingleV3, IndInvV3, SendingOK, Message
  <2>3. Fragment(msgCounter + 1, 0, 1) \in Payloads
    BY <2>2, FragmentType, TransportV3Assumption
  <2> QED BY <1>9, <2>1, <2>3
<1> QED
  BY <1>2, <1>3, <1>4, <1>5, <1>6, <1>7, <1>8, <1>10, <1>11, ZenonT(30)
     DEF SenderV3, BeginMessage, BeginFragment, FragmentAdmitted, FragmentStalled,
         FragmentFails, TrackFragment, MessageSent, SingleFails, DeferV3

(* A packet of the SACK in hand is an ACK on the network of Transport. *)
LEMMA SameAckLoop ==
    ASSUME IndInvV3, AckLoopV3 PROVE [V2!Next]_V2!vars
<1> USE DEF local, counters, net, V2!local, V2!counters, V2!net, V2!clientVars, serverV3,
            Keys, V2!Keys, Matches, V2!Matches, Without, V2!Without
<1>1. CASE sacking = {} /\ AckLoop /\ UNCHANGED <<sendV3, serverV3, sacking>>
  <2>1. PICK p \in toClient : ProcessACK(p) \/ ProcessNACK(p) \/ RecvConfig(p)
    BY <1>1 DEF AckLoop
  <2>2. CASE ProcessACK(p)
    <3>1. V2!ProcessACK(p)
      BY <1>1, <2>2, ZenonT(30) DEF ProcessACK, V2!ProcessACK
    <3> QED BY <3>1 DEF V2!AckLoop, V2!Client, V2!Next
  <2>3. CASE ProcessNACK(p)
    <3>1. V2!ProcessNACK(p)
      BY <1>1, <2>3, ZenonT(30) DEF ProcessNACK, V2!ProcessNACK, Retried, V2!Retried, Written,
                        V2!Written
    <3> QED BY <3>1 DEF V2!AckLoop, V2!Client, V2!Next
  <2>4. CASE RecvConfig(p)
    <3>1. V2!RecvConfig(p)
      BY <1>1, <2>4 DEF RecvConfig, V2!RecvConfig, Written, V2!Written, Control, V2!Control
    <3> QED BY <3>1 DEF V2!AckLoop, V2!Client, V2!Next
  <2> QED BY <2>1, <2>2, <2>3, <2>4
<1>2. ASSUME NEW q \in sacks, RecvSACK(q) PROVE [V2!Next]_V2!vars
  BY <1>2 DEF RecvSACK, vars, clientVars, V2!vars
<1>3. ASSUME NEW p \in sacking, SackEntry(p) PROVE [V2!Next]_V2!vars
  <2>1. p \in UNION sacks /\ p.type = "ack" /\ "ack" \in loops
    BY DEF IndInvV3, SacksOK
  <2>2. CASE \E k \in Keys : Matches(k, p)
    <3>1. V2!ProcessACK(p)
      BY <1>3, <2>1, <2>2, ZenonT(30) DEF SackEntry, V2!ProcessACK
    <3> QED BY <2>1, <3>1 DEF V2!AckLoop, V2!Client, V2!Next
  <2>3. CASE ~ \E k \in Keys : Matches(k, p)
    BY <1>3, <2>3 DEF SackEntry, V2!vars
  <2> QED BY <2>2, <2>3
<1> QED
  BY <1>1, <1>2, <1>3 DEF AckLoopV3

(* Gathering an acknowledgement for a SACK is the server's sending it. *)
LEMMA SameServer ==
    ASSUME ServerV3 PROVE [V2!Next]_V2!vars
<1> USE DEF local, counters, net, V2!local, V2!counters, V2!net, clientVars, V2!clientVars,
            serverV3, V2!ServerSends, Control, V2!Control, Reply, V2!Reply, DataPackets,
            V2!DataPackets, Key, V2!Key, Tiers, V2!Tiers
<1>1. ASSUME NEW p, ServerSends(p), UNCHANGED serverV3 PROVE V2!ServerSends(p)
  BY <1>1 DEF ServerSends
<1>2. CASE Server /\ UNCHANGED <<sendV3, serverV3, sacking>>
  BY <1>1, <1>2, ZenonT(30) DEF Server, ConfigPacket, V2!ConfigPacket, V2!Server, V2!Next
<1>3. CASE GatherSACK
  <2>1. PICK d \in toServer \cap DataPackets :
           d.tier # "besteff" /\ sackBuf' = sackBuf \cup {Reply("ack", d)}
    BY <1>3 DEF GatherSACK
  <2>2. V2!ServerSends(V2!Reply("ack", d))
    BY <1>3, <2>1, ZenonT(30) DEF GatherSACK, vars
  <2> QED BY <2>1, <2>2, ZenonT(30) DEF V2!Server, V2!Next
<1>4. CASE SendSACK
  BY <1>4 DEF SendSACK, vars, V2!vars
<1> QED
  BY <1>2, <1>3, <1>4 DEF ServerV3

(* The V3 client with its SACKs and fragments implements Transport: what   *)
(* the first theorems show of V2 sessions holds of V3 sessions.            *)
THEOREM RefinesTransport == SpecV3 => ImplementsTransport
<1>1. InitV3 => V2!Init
  BY DEF InitV3, Init, NewClient, V2!Init, V2!NewClient
<1>2. IndInvV3 /\ [NextV3]_varsV3 => [V2!Next]_V2!vars
  <2> SUFFICES ASSUME IndInvV3, [NextV3]_varsV3 PROVE [V2!Next]_V2!vars
    OBVIOUS
  <2>1. ASSUME NEW l \in loops, LoopExitV3(l) PROVE V2!Next
    BY <2>1 DEF LoopExitV3, LoopExit, V2!LoopExit, V2!Client, V2!Next, local, counters, net,
                V2!local, V2!counters, V2!net, serverV3
  <2>2. CASE UNCHANGED varsV3
    BY <2>2 DEF varsV3, vars, clientVars, V2!vars, V2!clientVars, serverV3, local, counters,
                net, V2!local, V2!counters, V2!net
  <2> QED
    BY <2>1, <2>2, SameSession, SameSender, SameAckLoop, SameServer DEF NextV3
<1> QED
  BY <1>1, <1>2, InvarianceV3, PTL DEF SpecV3, ImplementsTransport, V2!Spec
-----------------------------------------------------------------------------
(* MessagesWhole.  First, what steps do to the datagrams written and to    *)
(* those tracked; of the payloads nothing is used.                         *)

(* A control packet is no datagram. *)
LEMMA ControlUnseen ==
    ASSUME NEW ty, ty # "data", toServer \subseteq toServer',
           toServer' \subseteq toServer \cup {Control(ty)}
    PROVE  UNCHANGED OnWire
<1>1. Control(ty) \notin DataPackets
  BY DEF Control, DataPackets
<1> QED BY <1>1, ZenonT(30) DEF OnWire

(* A retransmission writes what was written before. *)
LEMMA RewrittenUnseen ==
    ASSUME TrackedInv, NEW K \in SUBSET Keys, Written({inflight[k].data : k \in K})
    PROVE  UNCHANGED OnWire
<1>1. toServer' \subseteq toServer /\ toServer \subseteq toServer'
  BY DEF TrackedInv, OnWire, Written
<1> QED BY <1>1, ZenonT(30) DEF OnWire

(* Entries that go, or stay with other retries and ages. *)
LEMMA MapKept ==
    ASSUME TrackedInv, UNCHANGED <<OnWire, seqCounter, current>>,
           DOMAIN inflight' \subseteq Keys,
           \A k \in DOMAIN inflight' : inflight'[k].data = inflight[k].data
    PROVE  TrackedInv'
BY ZenonT(30) DEF TrackedInv, Keys

(* Connect and Close, keepalives, retransmissions and time. *)
LEMMA QuietSession ==
    ASSUME TrackedInv, SessionV3 PROVE UNCHANGED OnWire /\ TrackedInv'
<1>1. UNCHANGED <<seqCounter, current>>
  BY ZenonT(30) DEF SessionV3, SendHandshake, HandshakeTimeout, Close, SendKeepalive,
     HandshakeReply, SetMaxInflight, RunRetransmitTick, Elapse, local
<1>2. CASE UNCHANGED <<inflight, toServer>>
  BY <1>1, <1>2, MapKept DEF OnWire, Keys
<1>3. ASSUME NEW ty \in {"handshake", "fin", "keepalive"}, UNCHANGED inflight,
             toServer' = toServer \cup {Control(ty)}
      PROVE  UNCHANGED OnWire /\ TrackedInv'
  <2>1. UNCHANGED OnWire
    BY <1>3, ControlUnseen
  <2> QED BY <1>1, <1>3, <2>1, MapKept DEF Keys
<1>4. CASE RunRetransmitTick
  <2>1. PICK C \in SUBSET Eligible :
          /\ Written({inflight[k].data : k \in C})
          /\ inflight' = [k \in Keys \ Spent |->
                             IF k \in C THEN Retried(inflight[k]) ELSE inflight[k]]
    BY <1>4, ZenonT(30) DEF RunRetransmitTick
  <2>2. C \subseteq Keys
    BY ZenonT(30) DEF Eligible, Ripe
  <2>3. UNCHANGED OnWire
    BY <2>1, <2>2, RewrittenUnseen
  <2>4. DOMAIN inflight' \subseteq Keys
        /\ \A k \in DOMAIN inflight' : inflight'[k].data = inflight[k].data
    BY <2>1, ZenonT(30) DEF Retried
  <2> QED BY <1>1, <2>3, <2>4, MapKept
<1>5. CASE Elapse /\ UNCHANGED net
  <2>1. UNCHANGED OnWire
    BY <1>5 DEF net, OnWire
  <2>2. DOMAIN inflight' \subseteq Keys
        /\ \A k \in DOMAIN inflight' : inflight'[k].data = inflight[k].data
    BY <1>5, ZenonT(30) DEF Elapse, Aged, Keys
  <2> QED BY <1>1, <2>1, <2>2, MapKept
<1>6. CASE SendKeepalive
  BY <1>3, <1>6, ZenonT(30) DEF SendKeepalive, Written
<1> QED
  BY <1>2, <1>3, <1>4, <1>5, <1>6, ZenonT(30) DEF SessionV3, SendHandshake, HandshakeTimeout,
     Close, HandshakeReply, SetMaxInflight, net

(* Packets of the server, single or in a SACK. *)
LEMMA QuietAckLoop ==
    ASSUME TrackedInv, AckLoopV3 PROVE UNCHANGED <<OnWire, sendV3>> /\ TrackedInv'
<1>1. UNCHANGED <<seqCounter, current, sendV3>>
  BY ZenonT(30) DEF AckLoopV3, AckLoop, ProcessACK, ProcessNACK, RecvConfig, RecvSACK,
     SackEntry, local, vars, clientVars
<1>2. ASSUME UNCHANGED toServer, DOMAIN inflight' \subseteq Keys,
             \A k \in DOMAIN inflight' : inflight'[k] = inflight[k]
      PROVE  UNCHANGED OnWire /\ TrackedInv'
  BY <1>1, <1>2, MapKept DEF OnWire
<1>3. ASSUME NEW k, inflight' = Without(inflight, {k}), UNCHANGED toServer
      PROVE  UNCHANGED OnWire /\ TrackedInv'
  BY <1>2, <1>3, ZenonT(30) DEF Without, Keys
<1>4. ASSUME NEW p, ProcessACK(p) PROVE UNCHANGED OnWire /\ TrackedInv'
  BY <1>3, <1>4, ZenonT(30) DEF ProcessACK, net
<1>5. ASSUME NEW p, ProcessNACK(p) PROVE UNCHANGED OnWire /\ TrackedInv'
  <2>1. PICK k \in Keys : inflight' = [inflight EXCEPT ![k] = Retried(@)]
                          /\ Written({inflight[k].data})
    BY <1>5, ZenonT(30) DEF ProcessNACK
  <2>2. Written({inflight[j].data : j \in {k}})
    BY <2>1
  <2>3. UNCHANGED OnWire
    BY <2>2, RewrittenUnseen, ZenonT(30)
  <2>4. DOMAIN inflight' \subseteq Keys
        /\ \A j \in DOMAIN inflight' : inflight'[j].data = inflight[j].data
    BY <2>1, ZenonT(30) DEF Retried, Keys
  <2> QED BY <1>1, <2>3, <2>4, MapKept
<1>6. ASSUME NEW p, RecvConfig(p) PROVE UNCHANGED OnWire /\ TrackedInv'
  <2>1. UNCHANGED OnWire
    BY <1>6, ControlUnseen DEF RecvConfig, Written
  <2> QED BY <1>1, <1>6, <2>1, MapKept DEF RecvConfig, Keys
<1>7. ASSUME NEW p, SackEntry(p) PROVE UNCHANGED OnWire /\ TrackedInv'
  <2>1. UNCHANGED toServer
    BY <1>7, ZenonT(30) DEF SackEntry, net
  <2>2. UNCHANGED inflight \/ \E k \in Keys : inflight' = Without(inflight, {k})
    BY <1>7, ZenonT(30) DEF SackEntry
  <2>3. CASE UNCHANGED inflight
    BY <1>2, <2>1, <2>3, ZenonT(30) DEF Keys
  <2> QED BY <1>3, <2>1, <2>2, <2>3, ZenonT(30)
<1>8. ASSUME NEW q, RecvSACK(q) PROVE UNCHANGED OnWire /\ TrackedInv'
  BY <1>2, <1>8, ZenonT(30) DEF RecvSACK, vars, clientVars, net, Keys
<1> QED
  BY <1>1, <1>4, <1>5, <1>6, <1>7, <1>8, ZenonT(30) DEF AckLoopV3, AckLoop

(* The server and the end of a loop leave the client's data alone. *)
LEMMA QuietOthers ==
    ASSUME TrackedInv,
           ServerV3 \/ UNCHANGED varsV3 \/ \E l \in loops : LoopExitV3(l)
    PROVE  UNCHANGED <<OnWire, sendV3>> /\ TrackedInv'
<1>1. UNCHANGED <<seqCounter, current, inflight, toServer, sendV3>>
  BY ZenonT(30) DEF ServerV3, Server, ServerSends, GatherSACK, SendSACK, LoopExitV3, LoopExit,
     varsV3, vars, clientVars, local, net
<1> QED BY <1>1, MapKept DEF OnWire, Keys

(* The steps of a sender that write nothing. *)
LEMMA QuietSender ==
    ASSUME TrackedInv, NEW s \in Senders,
           \/ BeginMessage(s) \/ BeginFragment(s) \/ FragmentAdmitted(s) \/ FragmentStalled(s)
           \/ FragmentFails(s) \/ TrackFragment(s) \/ MessageSent(s) \/ SingleFails(s)
           \/ DeferV3(s)
    PROVE  UNCHANGED OnWire /\ TrackedInv'
<1>1. UNCHANGED toServer
  BY ZenonT(30) DEF BeginMessage, BeginFragment, FragmentAdmitted, FragmentStalled, FragmentFails,
     TrackFragment, MessageSent, SingleFails, DeferV3, BeginChunk, WindowOpen, WindowStalled,
     TransmitFails, Track, DeferBestEffort, vars, clientVars, net
<1>2. UNCHANGED OnWire
  BY <1>1 DEF OnWire
<1>3. CASE TransmitFails(s)
  <2>1. seqCounter' \in 0 .. MaxSends
    BY <1>3, TransportAssumption DEF TransmitFails, TrackedInv
  <2> QED BY <1>2, <1>3, <2>1, ZenonT(30) DEF TransmitFails, TrackedInv, Keys
<1>4. CASE Track(s)
  <2>1. PICK d \in current[s] :
          inflight' = [k \in Keys \cup {InflightKey(d)} |->
                         IF k = InflightKey(d) THEN Entry(d) ELSE inflight[k]]
    BY <1>4, ZenonT(30) DEF Track
  <2>2. d \in OnWire /\ Entry(d).data = d
    BY ZenonT(30) DEF TrackedInv, Entry
  <2>3. \A k \in DOMAIN inflight' : inflight'[k].data \in OnWire
    BY <2>1, <2>2, ZenonT(30) DEF TrackedInv
  <2>4. current' \in [Senders -> SUBSET OnWire] /\ UNCHANGED seqCounter
    BY <1>4 DEF Track, TrackedInv
  <2> QED BY <1>2, <2>3, <2>4, ZenonT(30) DEF TrackedInv, Keys
<1>5. CASE UNCHANGED <<seqCounter, current, inflight>>
  BY <1>2, <1>5, MapKept DEF Keys
<1> QED
  BY <1>3, <1>4, <1>5, ZenonT(30) DEF BeginMessage, BeginFragment, FragmentAdmitted, FragmentStalled,
     FragmentFails, TrackFragment, MessageSent, SingleFails, DeferV3, BeginChunk, WindowOpen,
     WindowStalled, DeferBestEffort, vars, clientVars, local

(* A transmission writes one datagram. *)
LEMMA Transmitted ==
    ASSUME TrackedInv, NEW s \in Senders, NEW t \in SendTiers, NEW st \in Streams,
           NEW p \in Payloads, Transmit(s, t, st, p)
    PROVE  /\ TrackedInv'
           /\ \E d \in DataPackets : /\ d.payload = p /\ d.tier = t /\ d.stream = st
                                     /\ OnWire' = OnWire \cup {d}
<1> DEFINE d == DataPacket(seqCounter + 1, t, st, p)
<1>1. seqCounter + 1 \in Key /\ seqCounter + 1 \in Nat /\ seqCounter' = seqCounter + 1
  BY TransportAssumption DEF Transmit, TrackedInv, Key
<1>2. WireSeq(seqCounter + 1) \in 0 .. SeqSpace - 1
  BY <1>1, TransportAssumption DEF WireSeq
<1>3. d \in DataPackets /\ d.payload = p /\ d.tier = t /\ d.stream = st
  <2>1. t \in Tiers
    BY TransportAssumption DEF Tiers
  <2> QED BY <1>1, <1>2, <2>1, ZenonT(30) DEF DataPacket, DataPackets
<1>4. /\ toServer' = toServer \cup {d} /\ UNCHANGED inflight
      /\ UNCHANGED current \/ current' = [current EXCEPT ![s] = {d}]
  BY ZenonT(30) DEF Transmit
<1> HIDE DEF d
<1>5. OnWire' = OnWire \cup {d}
  BY <1>3, <1>4, ZenonT(30) DEF OnWire
<1>6. current' \in [Senders -> SUBSET (OnWire \cup {d})]
  BY <1>4 DEF TrackedInv
<1>7. seqCounter' \in 0 .. MaxSends
  BY <1>1 DEF Key
<1>8. \A k \in DOMAIN inflight' : inflight'[k].data \in OnWire'
  BY <1>4, <1>5, ZenonT(30) DEF TrackedInv, Keys
<1>9. TrackedInv'
  BY <1>5, <1>6, <1>7, <1>8, ZenonT(30) DEF TrackedInv, Keys
<1> QED BY <1>3, <1>5, <1>9

(* Second, what they do to the messages.                                   *)

(* There are n numbers below n. *)
LEMMA FirstNumbers ==
    ASSUME NEW n \in Nat \ {0}
    PROVE  IsFiniteSet(0 .. n - 1) /\ Cardinality(0 .. n - 1) = n
<1> DEFINE b == n - 1
<1>1. b \in Int /\ ~(0 > b) /\ b - 0 + 1 = n
  OBVIOUS
<1> HIDE DEF b
<1>2. 0 \in Int
  OBVIOUS
<1>3. IsFiniteSet(0 .. b) /\ Cardinality(0 .. b) = IF 0 > b THEN 0 ELSE b - 0 + 1
  BY <1>1, <1>2, FS_Interval, ZenonT(30)
<1>4. IsFiniteSet(0 .. b) /\ Cardinality(0 .. b) = n
  BY <1>1, <1>3, ZenonT(30)
<1> QED BY <1>4 DEF b

(* The fragments of a message on the wire are whole when they are all      *)
(* there, once each.                                                       *)
LEMMA PrefixWhole ==
    ASSUME NEW m, NEW n \in Nat \ {0}, NEW t, NEW st, Prefix(m, n, n, t, st)
    PROVE  /\ Cardinality(Written3(m)) = n
           /\ {d.payload.frag : d \in Written3(m)} = 0 .. n - 1
           /\ \A d, e \in Written3(m) :
                d.payload.total = n /\ d.stream = e.stream /\ d.tier = e.tier
<1> DEFINE W == Written3(m)
           N == 0 .. n - 1
           f == [i \in N |-> CHOOSE d \in W : d.payload.frag = i]
<1>1. {d.payload.frag : d \in W} = N /\ \A d, e \in W : d.payload.frag = e.payload.frag => d = e
  BY ZenonT(30) DEF Prefix
<1>2. \A d, e \in W : d.payload.total = n /\ d.stream = e.stream /\ d.tier = e.tier
  BY ZenonT(30) DEF Prefix
<1> HIDE DEF W
<1>3. \A i \in N : f[i] \in W /\ f[i].payload.frag = i
  BY <1>1, ZenonT(30)
<1> HIDE DEF f
<1>4. \A d \in W : d.payload.frag \in N /\ f[d.payload.frag] = d
  BY <1>1, <1>3, ZenonT(30)
<1>5. IsFiniteSet(N) /\ Cardinality(N) = n
  BY FirstNumbers
<1>6. ExistsBijection(N, W)
  <2>1. f \in [N -> W] /\ DOMAIN f = N
    BY <1>3, ZenonT(30) DEF f
  <2> HIDE DEF N
  <2>2. f \in Bijection(N, W)
    BY <1>3, <1>4, <2>1, ZenonT(30) DEF Bijection, Injection, IsInjective,
                                                    Surjection
  <2> QED BY <2>2, ZenonT(30) DEF ExistsBijection
<1>7. Cardinality(W) = n
  BY <1>5, <1>6, FS_Bijection
<1> QED BY <1>1, <1>2, <1>7, ZenonT(30) DEF W

(* What a step writes to other messages leaves a message as it was. *)
LEMMA PrefixKept ==
    ASSUME NEW i, NEW k, NEW n, NEW t, NEW st, Prefix(i, k, n, t, st),
           Written3(i)' = Written3(i)
    PROVE  Prefix(i, k, n, t, st)'
BY ZenonT(30) DEF Prefix

(* No message gains a fragment, and none a send. *)
LEMMA MessagesKept ==
    ASSUME MessagesInv, TrackedInv', UNCHANGED <<OnWire, msgCounter, sentOK>>,
           \A s \in Senders : sending'[s] \subseteq sending[s]
    PROVE  MessagesInv'
<1>1. \A i : Written3(i)' = Written3(i)
  BY ZenonT(30) DEF Written3
<1>2. SendingInv'
  BY <1>1, PrefixKept, ZenonT(30) DEF MessagesInv, SendingInv
<1>3. SentInv'
  <2>1. ASSUME NEW m \in Message, NEW n \in 1 .. MaxFragments, <<m, n>> \in sentOK
        PROVE  /\ m <= msgCounter
               /\ \E t \in SendTiers, st \in Streams : Prefix(m, n, n, t, st)'
               /\ \A s \in Senders : \A q \in sending'[s] : q.id # m
    BY <1>1, <2>1, PrefixKept, ZenonT(30) DEF MessagesInv, SentInv
  <2> QED BY <2>1, ZenonT(30) DEF SentInv
<1> QED BY <1>2, <1>3, ZenonT(30) DEF MessagesInv

(* A new message has a number no datagram carries. *)
LEMMA BeginMessageInd ==
    ASSUME IndInvV3, MessagesInv, NEW s \in Senders, BeginMessage(s) PROVE MessagesInv'
<1>1. PICK t \in SendTiers, st \in Streams, n \in 2 .. MaxFragments :
         sending' = [sending EXCEPT ![s] = {[id |-> msgCounter + 1, tier |-> t,
                       stream |-> st, next |-> 0, total |-> n]}]
  BY ZenonT(30) DEF BeginMessage, SetSending
<1>0. PICK m0 : m0 = [id |-> msgCounter + 1, tier |-> t, stream |-> st, next |-> 0, total |-> n]
  BY ZenonT(30)
<1>2. m0.id = msgCounter + 1 /\ m0.next = 0 /\ m0.total = n /\ m0.tier = t /\ m0.stream = st
  BY <1>0
<1>3. sending' = [sending EXCEPT ![s] = {m0}]
  BY <1>0, <1>1
<1>4. UNCHANGED OnWire /\ TrackedInv' /\ UNCHANGED sentOK /\ msgCounter' = msgCounter + 1
  BY QuietSender, ZenonT(30) DEF MessagesInv, BeginMessage
<1>5. msgCounter \in Nat
  BY TransportV3Assumption DEF IndInvV3, SendingOK
<1>6. \A d \in OnWire : d.payload \in Fragments /\ d.payload.msg <= msgCounter + 1
                       /\ d.payload.msg # msgCounter + 1
  <2>1. \A d \in OnWire : d.payload \in Fragments /\ d.payload.msg <= msgCounter
    BY ZenonT(30) DEF MessagesInv
  <2>2. \A x \in Fragments : x.msg \in Nat
    BY TransportV3Assumption DEF Fragments, Message
  <2> QED BY <1>5, <2>1, <2>2
<1>7. \A i : Written3(i)' = Written3(i)
  BY <1>4, ZenonT(30) DEF Written3
<1>8. Written3(m0.id) = {}
  BY <1>2, <1>6, ZenonT(30) DEF Written3
<1>9. Prefix(m0.id, 0, n, t, st)'
  <2>1. Written3(m0.id)' = {}
    BY <1>7, <1>8
  <2> QED BY <2>1 DEF Prefix
<1>10. /\ sending \in [Senders -> SUBSET Messages]
       /\ \A r \in Senders : \A q \in sending[r] : q.id <= msgCounter /\ q.id \in Nat
  <2>1. sending \in [Senders -> SUBSET Messages]
    BY ZenonT(30) DEF IndInvV3, SendingOK
  <2>2. \A r \in Senders : \A q \in sending[r] : q.id <= msgCounter
    BY ZenonT(30) DEF MessagesInv, SendingInv
  <2>3. \A q \in Messages : q.id \in Nat
    BY TransportV3Assumption DEF Messages, Message
  <2> QED BY <2>1, <2>2, <2>3, ZenonT(30)
<1>11. \A r \in Senders : \A q \in sending[r] : q.id # m0.id /\ q.id <= msgCounter'
  BY <1>2, <1>4, <1>5, <1>10
<1>12. \A r \in Senders \ {s} : sending'[r] = sending[r]
  BY <1>3, <1>10, ZenonT(30)
<1>13. sending'[s] = {m0}
  BY <1>3, <1>10, ZenonT(30)
<1>14. SendingInv'
  <2>1. ASSUME NEW r \in Senders \ {s}, NEW q \in sending[r]
        PROVE  Prefix(q.id, q.next, q.total, q.tier, q.stream)'
    BY <1>7, PrefixKept, ZenonT(30) DEF MessagesInv, SendingInv
  <2>2. ASSUME NEW r \in Senders \ {s}, NEW q \in sending[r]
        PROVE  /\ q.id <= msgCounter'
               /\ \A x \in Senders \ {r} : \A y \in sending'[x] : y.id # q.id
    BY <1>11, <1>12, <1>13, ZenonT(30) DEF MessagesInv, SendingInv
  <2>3. m0.id <= msgCounter'
    BY <1>2, <1>4, <1>5
  <2> QED BY <1>2, <1>9, <1>11, <1>12, <1>13, <2>1, <2>2, <2>3, ZenonT(30) DEF SendingInv
<1>15. SentInv'
  <2>1. ASSUME NEW m \in Message, NEW k \in 1 .. MaxFragments, <<m, k>> \in sentOK
        PROVE  m <= msgCounter' /\ m # m0.id
    <3>1. m <= msgCounter
      BY <2>1, ZenonT(30) DEF MessagesInv, SentInv
    <3>2. m \in Nat
      BY TransportV3Assumption DEF Message
    <3> QED BY <3>1, <3>2, <1>2, <1>4, <1>5
  <2>2. ASSUME NEW m \in Message, NEW k \in 1 .. MaxFragments, <<m, k>> \in sentOK
        PROVE  \E u \in SendTiers, x \in Streams : Prefix(m, k, k, u, x)'
    BY <1>7, <2>2, PrefixKept, ZenonT(30) DEF MessagesInv, SentInv
  <2>3. ASSUME NEW m \in Message, NEW k \in 1 .. MaxFragments, <<m, k>> \in sentOK
        PROVE  \A r \in Senders : \A q \in sending'[r] : q.id # m
    BY <1>12, <1>13, <2>1, <2>3, ZenonT(30) DEF MessagesInv, SentInv
  <2> QED BY <1>4, <2>1, <2>2, <2>3, ZenonT(30) DEF SentInv
<1> QED BY <1>4, <1>6, <1>14, <1>15, ZenonT(30) DEF MessagesInv

(* transmitFragmentedV3 returns nil: the message is whole. *)
LEMMA MessageSentInd ==
    ASSUME IndInvV3, MessagesInv, NEW s \in Senders, MessageSent(s) PROVE MessagesInv'
<1>1. PICK m \in sending[s] : m.next = m.total
  BY DEF MessageSent
<1>2. /\ sending \in [Senders -> SUBSET Messages] /\ sending[s] = {m} /\ m \in Messages
  BY ZenonT(30) DEF IndInvV3, SendingOK
<1>3. UNCHANGED OnWire /\ TrackedInv' /\ UNCHANGED msgCounter
  BY QuietSender, ZenonT(30) DEF MessagesInv, MessageSent
<1>4. sentOK' = sentOK \cup {<<m.id, m.total>>}
  BY <1>2, ZenonT(30) DEF MessageSent
<1>5. sending' = [sending EXCEPT ![s] = {}]
  BY ZenonT(30) DEF MessageSent, SetSending
<1>6. sending'[s] = {} /\ \A r \in Senders \ {s} : sending'[r] = sending[r]
  BY <1>2, <1>5, ZenonT(30)
<1>7. \A i : Written3(i)' = Written3(i)
  BY <1>3, ZenonT(30) DEF Written3
<1>8. m.id <= msgCounter /\ Prefix(m.id, m.total, m.total, m.tier, m.stream)
  BY <1>1, <1>2, ZenonT(30) DEF MessagesInv, SendingInv
<1>9. m.tier \in SendTiers /\ m.stream \in Streams
  BY <1>2 DEF Messages
<1>10. SendingInv'
  <2>1. ASSUME NEW r \in Senders \ {s}, NEW q \in sending[r]
        PROVE  /\ q.id <= msgCounter /\ Prefix(q.id, q.next, q.total, q.tier, q.stream)'
               /\ \A x \in Senders \ {r} : \A y \in sending[x] : y.id # q.id
    BY <1>7, PrefixKept, ZenonT(30) DEF MessagesInv, SendingInv
  <2>2. \A x \in Senders : \A y \in sending'[x] : x # s /\ y \in sending[x]
    BY <1>6, ZenonT(30)
  <2> QED BY <1>3, <2>1, <2>2, ZenonT(30) DEF SendingInv
<1>11. ASSUME NEW i \in Message, NEW n \in 1 .. MaxFragments, <<i, n>> \in sentOK'
       PROVE  /\ i <= msgCounter' /\ \E t \in SendTiers, st \in Streams : Prefix(i, n, n, t, st)'
              /\ \A r \in Senders : \A q \in sending'[r] : q.id # i
  <2>1. CASE <<i, n>> \in sentOK
    <3>1. PICK t \in SendTiers, st \in Streams : Prefix(i, n, n, t, st)
      BY <2>1, ZenonT(30) DEF MessagesInv, SentInv
    <3>2. Prefix(i, n, n, t, st)'
      BY <1>7, <3>1, PrefixKept, ZenonT(30)
    <3>3. i <= msgCounter /\ \A r \in Senders : \A q \in sending[r] : q.id # i
      BY <2>1, ZenonT(30) DEF MessagesInv, SentInv
    <3> QED BY <1>3, <1>6, <3>2, <3>3, ZenonT(30)
  <2>2. CASE i = m.id /\ n = m.total
    <3>1. Prefix(i, n, n, m.tier, m.stream)'
      BY <1>7, <1>8, <2>2, PrefixKept, ZenonT(30)
    <3>2. \A r \in Senders \ {s} : \A q \in sending[r] : q.id # m.id
      BY ZenonT(30) DEF MessagesInv, SendingInv
    <3> QED BY <1>3, <1>6, <1>8, <1>9, <2>2, <3>1, <3>2, ZenonT(30)
  <2> QED BY <1>4, <1>11, <2>1, <2>2
<1>12. SentInv'
  BY <1>11, ZenonT(30) DEF SentInv
<1> QED BY <1>3, <1>10, <1>12, ZenonT(30) DEF MessagesInv

(* A datagram joins its own message only. *)
LEMMA WrittenOther ==
    ASSUME NEW d \in DataPackets, OnWire' = OnWire \cup {d}, NEW i
    PROVE  Written3(i)' = IF d.payload.msg = i THEN Written3(i) \cup {d} ELSE Written3(i)
BY ZenonT(30) DEF Written3

(* The next fragment continues its message. *)
LEMMA SendFragmentInd ==
    ASSUME IndInvV3, MessagesInv, NEW s \in Senders, SendFragment(s) PROVE MessagesInv'
<1>1. PICK m \in sending[s] :
         /\ Transmit(s, m.tier, m.stream, Fragment(m.id, m.next, m.total))
         /\ sending' = [sending EXCEPT ![s] = {[m EXCEPT !.next = @ + 1]}]
  BY ZenonT(30) DEF SendFragment, SetSending
<1>2. /\ sending \in [Senders -> SUBSET Messages] /\ sending[s] = {m} /\ m \in Messages
      /\ s \in Bulk /\ (pc[s] = "ready" => m.next < m.total)
  BY ZenonT(30) DEF IndInvV3, SendingOK
<1>3. m.next < m.total
  BY <1>1, <1>2, ZenonT(30) DEF Transmit, MayTransmit
<1>4. /\ m.id \in Message /\ m.next \in Nat /\ m.total \in 1 .. MaxFragments
      /\ m.next \in 0 .. m.total - 1 /\ m.tier \in SendTiers /\ m.stream \in Streams
  BY <1>2, <1>3, TransportV3Assumption DEF Messages
<1> DEFINE f == Fragment(m.id, m.next, m.total)
<1>5. f \in Payloads /\ f.msg = m.id /\ f.frag = m.next /\ f.total = m.total /\ f \in Fragments
  <2>1. f.msg = m.id /\ f.frag = m.next /\ f.total = m.total
    BY ZenonT(30) DEF Fragment
  <2>2. m.next \in 0 .. MaxFragments - 1
    BY <1>4, TransportV3Assumption
  <2>3. f \in Fragments
    BY <1>4, <2>2, ZenonT(30) DEF Fragment, Fragments
  <2> QED BY <2>1, <2>3, TransportV3Assumption, ZenonT(30)
<1> HIDE DEF f
<1>6. Transmit(s, m.tier, m.stream, f)
  BY <1>1 DEF f
<1>7. TrackedInv
  BY DEF MessagesInv
<1>8. PICK d \in DataPackets : /\ d.payload = f /\ d.tier = m.tier /\ d.stream = m.stream
                               /\ OnWire' = OnWire \cup {d}
  <2> DEFINE Carries(x) == /\ x.payload = f /\ x.tier = m.tier /\ x.stream = m.stream
                           /\ OnWire' = OnWire \cup {x}
  <2>1. m.tier \in SendTiers /\ m.stream \in Streams /\ f \in Payloads
    BY <1>4, <1>5, ZenonT(30)
  <2>2. \E d \in DataPackets : Carries(d)
    BY <1>6, <1>7, <2>1, Transmitted
  <2> QED BY <2>2
<1>9. TrackedInv' /\ UNCHANGED <<msgCounter, sentOK>>
  BY <1>4, <1>5, <1>6, <1>7, Transmitted, ZenonT(30) DEF SendFragment
<1>10. PICK m1 : m1 = [m EXCEPT !.next = @ + 1]
  BY ZenonT(30)
<1>11. /\ m1.id = m.id /\ m1.tier = m.tier /\ m1.stream = m.stream /\ m1.total = m.total
       /\ m1.next = m.next + 1
  BY <1>2, <1>10 DEF Messages
<1>12. sending'[s] = {m1} /\ \A r \in Senders \ {s} : sending'[r] = sending[r]
  BY <1>1, <1>2, <1>10, ZenonT(30)
<1>13. /\ Written3(m.id)' = Written3(m.id) \cup {d}
       /\ \A i : i # m.id => Written3(i)' = Written3(i)
  BY <1>5, <1>8, WrittenOther, ZenonT(30)
<1>14. m.id <= msgCounter /\ Prefix(m.id, m.next, m.total, m.tier, m.stream)
       /\ \A r \in Senders \ {s} : \A q \in sending[r] : q.id # m.id
  BY ZenonT(30) DEF MessagesInv, SendingInv
<1>15. Prefix(m1.id, m1.next, m1.total, m1.tier, m1.stream)'
  <2> DEFINE W == Written3(m.id)
  <2>0. /\ {x.payload.frag : x \in W} = 0 .. m.next - 1
        /\ \A x, y \in W : x.payload.frag = y.payload.frag => x = y
        /\ \A x \in W : x.payload.total = m.total /\ x.tier = m.tier /\ x.stream = m.stream
    BY <1>14, ZenonT(30) DEF Prefix
  <2>1. W' = W \cup {d}
    BY <1>13
  <2> HIDE DEF W
  <2>2. d.payload.frag = m.next /\ d.payload.total = m.total
    BY <1>5, <1>8
  <2>3. 0 .. (m.next + 1) - 1 = (0 .. m.next - 1) \cup {m.next} /\ m.next \notin 0 .. m.next - 1
    BY <1>4
  <2>4. {x.payload.frag : x \in W'} = {x.payload.frag : x \in W} \cup {d.payload.frag}
    BY <2>1, ZenonT(30)
  <2>5. {x.payload.frag : x \in W'} = 0 .. (m.next + 1) - 1
    BY <2>0, <2>2, <2>3, <2>4, ZenonT(30)
  <2>6. \A x \in W : x.payload.frag # d.payload.frag
    BY <2>0, <2>2, <2>3, ZenonT(30)
  <2>7. \A x, y \in W' : x.payload.frag = y.payload.frag => x = y
    BY <2>0, <2>1, <2>6, ZenonT(30)
  <2>8. \A x \in W' : x.payload.total = m.total /\ x.tier = m.tier /\ x.stream = m.stream
    BY <1>8, <2>0, <2>1, <2>2, ZenonT(30)
  <2> QED BY <1>11, <2>5, <2>7, <2>8, ZenonT(30) DEF Prefix, W
<1>16. SendingInv'
  <2>1. ASSUME NEW r \in Senders \ {s}, NEW q \in sending[r]
        PROVE  /\ q.id <= msgCounter' /\ Prefix(q.id, q.next, q.total, q.tier, q.stream)'
               /\ \A x \in Senders \ {r} : \A y \in sending'[x] : y.id # q.id
    <3>1. q.id # m.id /\ q.id <= msgCounter /\ Prefix(q.id, q.next, q.total, q.tier, q.stream)
          /\ \A x \in Senders \ {r} : \A y \in sending[x] : y.id # q.id
      BY <1>14, ZenonT(30) DEF MessagesInv, SendingInv
    <3>2. Prefix(q.id, q.next, q.total, q.tier, q.stream)'
      BY <1>13, <3>1, PrefixKept, ZenonT(30)
    <3> QED BY <1>9, <1>11, <1>12, <3>1, <3>2, ZenonT(30)
  <2>2. m1.id <= msgCounter' /\ \A r \in Senders \ {s} : \A q \in sending'[r] : q.id # m1.id
    BY <1>9, <1>11, <1>12, <1>14, ZenonT(30)
  <2> QED BY <1>12, <1>15, <2>1, <2>2, ZenonT(30) DEF SendingInv
<1>17. ASSUME NEW i \in Message, NEW n \in 1 .. MaxFragments, <<i, n>> \in sentOK
       PROVE  /\ i <= msgCounter' /\ \E t \in SendTiers, st \in Streams : Prefix(i, n, n, t, st)'
              /\ \A r \in Senders : \A q \in sending'[r] : q.id # i
  <2>1. PICK t \in SendTiers, st \in Streams : Prefix(i, n, n, t, st)
    BY <1>17, ZenonT(30) DEF MessagesInv, SentInv
  <2>2. i <= msgCounter /\ \A r \in Senders : \A q \in sending[r] : q.id # i
    BY <1>17, ZenonT(30) DEF MessagesInv, SentInv
  <2>3. i # m.id
    BY <2>2, ZenonT(30)
  <2>4. Prefix(i, n, n, t, st)'
    BY <1>13, <2>1, <2>3, PrefixKept, ZenonT(30)
  <2> QED BY <1>9, <1>11, <1>12, <2>2, <2>3, <2>4, ZenonT(30)
<1>18. SentInv'
  BY <1>9, <1>17, ZenonT(30) DEF SentInv
<1>19. \A x \in OnWire' : x.payload \in Fragments /\ x.payload.msg <= msgCounter'
  BY <1>5, <1>8, <1>9, <1>14, ZenonT(30) DEF MessagesInv
<1> QED BY <1>9, <1>16, <1>18, <1>19, ZenonT(30) DEF MessagesInv

(* A single datagram is a message of its own, under a new number. *)
LEMMA SingleInd ==
    ASSUME IndInvV3, MessagesInv, NEW s \in Senders, TransmitSingleV3(s) PROVE MessagesInv'
<1>0. PICK c : c = msgCounter + 1
  OBVIOUS
<1> DEFINE f == Fragment(c, 0, 1)
<1>1. PICK t \in SendTiers, st \in Streams : Transmit(s, t, st, f)
  BY <1>0, ZenonT(30) DEF TransmitSingleV3
<1>2. UNCHANGED <<sending, sentOK>> /\ msgCounter' = c
  BY <1>0, ZenonT(30) DEF TransmitSingleV3
<1>3. msgCounter \in Nat /\ c \in Message /\ msgCounter <= c /\ c > msgCounter
  BY <1>0, TransportV3Assumption DEF TransmitSingleV3, IndInvV3, SendingOK, Message
<1>4. f \in Payloads /\ f.msg = c /\ f \in Fragments
  <2>1. f.msg = c
    BY ZenonT(30) DEF Fragment
  <2>2. 0 \in 0 .. MaxFragments - 1 /\ 1 \in 1 .. MaxFragments
    BY TransportV3Assumption
  <2>3. f \in Fragments
    BY <1>3, <2>2, ZenonT(30) DEF Fragment, Fragments
  <2> QED BY <2>1, <2>3, TransportV3Assumption, ZenonT(30)
<1> HIDE DEF f
<1>5. TrackedInv
  BY DEF MessagesInv
<1>6. PICK d \in DataPackets : d.payload = f /\ OnWire' = OnWire \cup {d}
  BY <1>1, <1>4, <1>5, Transmitted
<1>7. TrackedInv'
  BY <1>1, <1>4, <1>5, Transmitted
<1>8. \A i : i # c => Written3(i)' = Written3(i)
  BY <1>4, <1>6, WrittenOther, ZenonT(30)
<1>9. \A i \in Message : i <= msgCounter => i # c /\ i <= c
  BY <1>3, TransportV3Assumption DEF Message
<1>10. SendingInv'
  <2>1. ASSUME NEW r \in Senders, NEW q \in sending[r]
        PROVE  /\ q.id <= c /\ Prefix(q.id, q.next, q.total, q.tier, q.stream)'
               /\ \A x \in Senders \ {r} : \A y \in sending[x] : y.id # q.id
    <3>1. q.id <= msgCounter /\ Prefix(q.id, q.next, q.total, q.tier, q.stream)
          /\ \A x \in Senders \ {r} : \A y \in sending[x] : y.id # q.id
      BY ZenonT(30) DEF MessagesInv, SendingInv
    <3>2. q \in Messages
      BY ZenonT(30) DEF IndInvV3, SendingOK
    <3>3. q.id \in Message
      BY <3>2 DEF Messages
    <3>4. Prefix(q.id, q.next, q.total, q.tier, q.stream)'
      BY <1>8, <1>9, <3>1, <3>3, PrefixKept, ZenonT(30)
    <3> QED BY <1>9, <3>1, <3>3, <3>4, ZenonT(30)
  <2> QED BY <1>2, <2>1, ZenonT(30) DEF SendingInv
<1>11. ASSUME NEW i \in Message, NEW n \in 1 .. MaxFragments, <<i, n>> \in sentOK
       PROVE  /\ i <= c /\ \E u \in SendTiers, x \in Streams : Prefix(i, n, n, u, x)'
              /\ \A r \in Senders : \A q \in sending[r] : q.id # i
  <2>1. PICK u \in SendTiers, x \in Streams : Prefix(i, n, n, u, x)
    BY <1>11, ZenonT(30) DEF MessagesInv, SentInv
  <2>2. i <= msgCounter /\ \A r \in Senders : \A q \in sending[r] : q.id # i
    BY <1>11, ZenonT(30) DEF MessagesInv, SentInv
  <2>3. Prefix(i, n, n, u, x)'
    BY <1>8, <1>9, <2>1, <2>2, PrefixKept, ZenonT(30)
  <2> QED BY <1>9, <2>2, <2>3, ZenonT(30)
<1>12. SentInv'
  BY <1>2, <1>11, ZenonT(30) DEF SentInv
<1>13. \A x \in OnWire' : x.payload \in Fragments /\ x.payload.msg <= msgCounter'
  <2>1. \A x \in OnWire : x.payload \in Fragments /\ x.payload.msg <= msgCounter
    BY ZenonT(30) DEF MessagesInv
  <2>2. \A x \in Fragments : x.msg \in Message
    BY DEF Fragments
  <2>3. c <= c
    BY <1>3 DEF Message
  <2> QED BY <1>2, <1>4, <1>6, <1>9, <2>1, <2>2, <2>3, ZenonT(30)
<1> QED BY <1>7, <1>10, <1>12, <1>13, ZenonT(30) DEF MessagesInv

(* The invariant behind MessagesWhole holds in every reachable state. *)
LEMMA MessagesInvariant == SpecV3 => []MessagesInv
<1>1. InitV3 => MessagesInv
  <2> SUFFICES ASSUME InitV3 PROVE MessagesInv
    OBVIOUS
  <2>1. /\ seqCounter = 0 /\ toServer = {} /\ Keys = {} /\ sentOK = {}
        /\ current = [s \in Senders |-> {}] /\ sending = [s \in Senders |-> {}]
    BY DEF InitV3, Init, NewClient, Keys
  <2>2. TrackedInv
    BY <2>1, TransportAssumption DEF TrackedInv
  <2>3. SendingInv /\ SentInv /\ OnWire = {}
    BY <2>1, ZenonT(30) DEF SendingInv, SentInv, OnWire
  <2> QED BY <2>2, <2>3, ZenonT(30) DEF MessagesInv
<1>2. ASSUME IndInvV3, MessagesInv, [NextV3]_varsV3 PROVE MessagesInv'
  <2>1. ASSUME UNCHANGED <<OnWire, sendV3>>, TrackedInv' PROVE MessagesInv'
    BY <1>2, <2>1, MessagesKept, ZenonT(30) DEF sendV3
  <2>2. CASE SessionV3
    BY <1>2, <2>1, <2>2, QuietSession, ZenonT(30) DEF MessagesInv, SessionV3
  <2>3. CASE AckLoopV3
    BY <1>2, <2>1, <2>3, QuietAckLoop, ZenonT(30) DEF MessagesInv
  <2>4. CASE ServerV3 \/ UNCHANGED varsV3 \/ \E l \in loops : LoopExitV3(l)
    BY <1>2, <2>1, <2>4, QuietOthers, ZenonT(30) DEF MessagesInv
  <2>5. ASSUME NEW s \in Senders, SenderV3(s) PROVE MessagesInv'
    <3>1. CASE BeginMessage(s) \/ MessageSent(s) \/ SendFragment(s) \/ TransmitSingleV3(s)
      BY <1>2, <3>1, BeginMessageInd, MessageSentInd, SendFragmentInd, SingleInd, ZenonT(30)
    <3>2. CASE BeginFragment(s) \/ FragmentAdmitted(s) \/ TrackFragment(s) \/ SingleFails(s)
               \/ DeferV3(s)
      <4>1. UNCHANGED sendV3
        BY <3>2, ZenonT(30) DEF BeginFragment, FragmentAdmitted, TrackFragment, SingleFails, DeferV3
      <4> QED BY <1>2, <2>1, <3>2, <4>1, QuietSender, ZenonT(30) DEF MessagesInv
    <3>3. CASE FragmentStalled(s) \/ FragmentFails(s)
      <4>1. sending' = [sending EXCEPT ![s] = {}] /\ UNCHANGED <<msgCounter, sentOK>>
        BY <3>3, ZenonT(30) DEF FragmentStalled, FragmentFails, SetSending
      <4>2. sending \in [Senders -> SUBSET Messages]
        BY <1>2, ZenonT(30) DEF IndInvV3, SendingOK
      <4>3. \A r \in Senders : sending'[r] \subseteq sending[r]
        BY <4>1, <4>2, ZenonT(30)
      <4>4. UNCHANGED OnWire /\ TrackedInv'
        BY <1>2, <3>3, QuietSender, ZenonT(30) DEF MessagesInv
      <4> QED BY <1>2, <4>1, <4>3, <4>4, MessagesKept, ZenonT(30)
    <3> QED BY <2>5, <3>1, <3>2, <3>3, ZenonT(30) DEF SenderV3
  <2> QED BY <1>2, <2>2, <2>3, <2>4, <2>5, ZenonT(30) DEF NextV3
<1> QED BY <1>1, <1>2, InvarianceV3, PTL DEF SpecV3

(* When the send of a message returns nil every fragment of it was written *)
(* once, whatever the other senders, retransmissions and SACKs interleave. *)
THEOREM MessagesWritten == SpecV3 => []MessagesWhole
<1>1. ASSUME MessagesInv, NEW m \in Message, NEW n \in 1 .. MaxFragments, <<m, n>> \in sentOK
      PROVE  \E t \in SendTiers, st \in Streams : Prefix(m, n, n, t, st)
  BY <1>1, ZenonT(30) DEF MessagesInv, SentInv
<1>2. \A n \in 1 .. MaxFragments : n \in Nat \ {0}
  BY TransportV3Assumption
<1>3. MessagesInv => MessagesWhole
  BY <1>1, <1>2, PrefixWhole, ZenonT(30) DEF MessagesWhole
<1> QED BY <1>3, MessagesInvariant, PTL
=============================================================================
