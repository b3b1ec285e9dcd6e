---------------------------- MODULE EndToEndProofs ----------------------------
(***************************************************************************)
(* Proofs about an agent and the server over raw UDP, for any senders,     *)
(* payloads, timeouts and times to live.                                   *)
(***************************************************************************)
EXTENDS EndToEnd, FiniteSetTheorems, WellFoundedInduction, TLAPS

(* What each step does to the variables the invariants mention. *)
OnWire == toServer \cap T!DataPackets
serverState == <<accepted, dedup, lastAccepted, replies, restarts>>
agentState == <<OnWire, written, seqCounter, loops, pc, current, inflight>>

Idles ==
    /\ UNCHANGED <<OnWire, written, current, inflight, serverState>>
    /\ loops' \subseteq loops /\ seqCounter' \in seqCounter .. MaxSends
    /\ pc' \in [Senders -> T!Pcs]
    /\ \A s \in Senders : pc[s] = "insert" => pc'[s] = "insert"

Sends(s, d) ==
    /\ d \in T!DataPackets /\ d.tier \in SendTiers
    /\ d.key = seqCounter + 1 /\ d.seq = T!WireSeq(d.key)
    /\ seqCounter < MaxSends /\ seqCounter' = seqCounter + 1
    /\ OnWire' = OnWire \cup {d} /\ written' = written \cup {d}
    /\ \/ UNCHANGED <<pc, current>>
       \/ pc' = [pc EXCEPT ![s] = "insert"] /\ current' = [current EXCEPT ![s] = {d}]
    /\ UNCHANGED <<loops, inflight, serverState>>

Tracks(s, d) ==
    /\ pc[s] = "insert" /\ d \in current[s]
    /\ inflight' = [k \in T!Keys \cup {d.key} |-> IF k = d.key THEN T!Entry(d) ELSE inflight[k]]
    /\ pc' = [pc EXCEPT ![s] = "idle"] /\ current' = [current EXCEPT ![s] = {}]
    /\ UNCHANGED <<OnWire, written, seqCounter, loops, serverState>>

Acks(k, q) ==
    /\ k \in T!Keys /\ q \in replies[Agent] /\ T!Matches(k, q)
    /\ inflight' = T!Without(inflight, {k}) /\ acked' = acked + 1
    /\ UNCHANGED <<OnWire, written, seqCounter, loops, pc, current, serverState>>

Retries(C) ==
    /\ C \subseteq T!Eligible /\ "retransmit" \in loops
    /\ OnWire' \subseteq OnWire \cup {inflight[k].data : k \in C}
    /\ inflight' = [k \in T!Keys \ T!Spent |->
                      IF k \in C THEN T!Retried(inflight[k]) ELSE inflight[k]]
    /\ UNCHANGED <<written, seqCounter, loops, pc, current, serverState>>

Receives(d) ==
    /\ d \in OnWire /\ Accepted(d.payload)
    /\ replies' \in {replies, [replies EXCEPT ![Agent] = @ \cup {R!Ack(d)}]}
    /\ IF d.payload \in DOMAIN dedup
          THEN UNCHANGED <<dedup, lastAccepted>>
          ELSE /\ dedup' = R!Put(dedup, d.payload, 0)
               /\ lastAccepted' = R!Put(lastAccepted, d.payload, 0)
    /\ UNCHANGED <<agentState, restarts>>

Forgets ==
    /\ dedup' = R!Drop(dedup, {x \in DOMAIN dedup : dedup[x] > TTL})
    /\ UNCHANGED <<agentState, accepted, lastAccepted, replies, restarts>>

Restarts ==
    /\ restarts' = restarts + 1 /\ dedup' = R!Empty /\ lastAccepted' = R!Empty
    /\ UNCHANGED <<agentState, accepted, replies>>

Passes ==
    /\ T!Inserting = {} /\ ("retransmit" \in loops => T!Ripe = {})
    /\ inflight' = [k \in T!Keys |-> T!Aged(inflight[k])]
    /\ dedup' = [x \in DOMAIN dedup |-> R!Older(dedup[x])]
    /\ lastAccepted' = [x \in DOMAIN lastAccepted |-> R!Older(lastAccepted[x])]
    /\ OnWire' = {} /\ replies' = [replies EXCEPT ![Agent] = {}]
    /\ UNCHANGED <<written, seqCounter, loops, pc, current, accepted, restarts>>

Effect ==
    \/ Idles
    \/ \E s \in Senders, d \in T!DataPackets : Sends(s, d) \/ Tracks(s, d)
    \/ \E k \in T!Keys : \E q \in replies[Agent] : Acks(k, q)
    \/ \E C \in SUBSET T!Eligible : Retries(C)
    \/ \E d \in OnWire : Receives(d)
    \/ Forgets \/ Restarts \/ Passes

InvE == WireInv /\ DedupInv /\ SenderInv /\ EntryInv

(* The goroutines that send. *)
LEMMA SenderEffect ==
    ASSUME InvE, NEW s \in Senders, T!Sender(s), UNCHANGED serverVars,
           written' = written \cup (toServer' \cap T!DataPackets)
    PROVE  Effect
<1> USE DEF InvE
<1>0. UNCHANGED serverState
  BY DEF serverVars, serverState
<1>1. ASSUME UNCHANGED <<loops, toServer, current, inflight>>,
             seqCounter' \in seqCounter .. MaxSends, pc[s] # "insert",
             \E place \in {"idle", "ready"} : pc' = [pc EXCEPT ![s] = place]
      PROVE  Effect
  <2>1. UNCHANGED <<OnWire, written>>
    BY <1>1 DEF OnWire, WireInv
  <2>2. pc' \in [Senders -> T!Pcs] /\ \A u \in Senders : pc[u] = "insert" => pc'[u] = "insert"
    BY <1>1 DEF SenderInv, T!Pcs
  <2>3. Idles
    BY <1>0, <1>1, <2>1, <2>2 DEF Idles
  <2> QED BY <2>3 DEF Effect
<1>2. seqCounter \in 0 .. MaxSends /\ seqCounter \in seqCounter .. MaxSends
  BY EndToEndAssumption DEF WireInv
<1>3. CASE T!WindowOpen(s) \/ T!WindowStalled(s)
  BY <1>1, <1>2, <1>3 DEF T!WindowOpen, T!WindowStalled, T!net
<1>4. CASE T!DeferBestEffort(s)
  BY <1>1, <1>2, <1>4 DEF T!DeferBestEffort, T!MayTransmit, T!net
<1>5. CASE T!TransmitFails(s)
  <2>1. seqCounter' \in seqCounter .. MaxSends
    BY <1>2, <1>5, EndToEndAssumption DEF T!TransmitFails
  <2> QED
    BY <1>1, <1>5, <2>1 DEF T!TransmitFails, T!MayTransmit, T!net
<1>6. CASE T!Track(s)
  <2>1. PICK d \in current[s] :
          inflight' = [k \in T!Keys \cup {d.key} |->
                         IF k = d.key THEN T!Entry(d) ELSE inflight[k]]
    BY <1>6 DEF T!Track, T!InflightKey
  <2>2. /\ pc[s] = "insert" /\ pc' = [pc EXCEPT ![s] = "idle"]
        /\ current' = [current EXCEPT ![s] = {}]
        /\ UNCHANGED <<loops, seqCounter, toServer>>
    BY <1>6 DEF T!Track, T!net
  <2>3. UNCHANGED <<OnWire, written>>
    BY <2>2 DEF OnWire, WireInv
  <2>4. d \in T!DataPackets
    BY DEF WireInv
  <2>5. Tracks(s, d)
    BY <1>0, <2>1, <2>2, <2>3 DEF Tracks
  <2> QED BY <2>4, <2>5 DEF Effect
<1>7. ASSUME NEW t \in SendTiers, NEW p \in Payloads, T!Transmit(s, t, 0, p)
      PROVE  Effect
  <2> DEFINE d == T!DataPacket(seqCounter + 1, t, 0, p)
  <2>1. /\ seqCounter < MaxSends /\ seqCounter' = seqCounter + 1
        /\ toServer' = toServer \cup {d} /\ UNCHANGED <<loops, inflight>> /\ pc[s] = "idle"
        /\ \/ pc' = [pc EXCEPT ![s] = "idle"] /\ UNCHANGED current
           \/ pc' = [pc EXCEPT ![s] = "insert"] /\ current' = [current EXCEPT ![s] = {d}]
    BY <1>7 DEF T!Transmit, T!MayTransmit
  <2>2. seqCounter + 1 \in 1 .. MaxSends
    BY <1>2, <2>1, EndToEndAssumption
  <2>3. T!WireSeq(seqCounter + 1) \in 0 .. SeqSpace - 1
    BY <2>2, EndToEndAssumption DEF T!WireSeq
  <2>4. t \in T!Tiers
    BY EndToEndAssumption DEF T!Tiers
  <2>5. d \in T!DataPackets
    BY <2>2, <2>3, <2>4 DEF T!DataPacket, T!DataPackets, T!Key
  <2>6. d.tier = t /\ d.key = seqCounter + 1 /\ d.seq = T!WireSeq(d.key)
    BY ZenonT(30) DEF T!DataPacket
  <2> HIDE DEF d
  <2>7. OnWire' = OnWire \cup {d} /\ written' = written \cup {d}
    BY <2>1, <2>5 DEF OnWire, WireInv
  <2>8. pc' = [pc EXCEPT ![s] = "idle"] => pc' = pc
    BY <2>1 DEF SenderInv
  <2>9. Sends(s, d)
    BY <1>0, <2>1, <2>5, <2>6, <2>7, <2>8, ZenonT(30) DEF Sends
  <2> QED BY <2>5, <2>9, ZenonT(30) DEF Effect
<1> QED
  BY <1>3, <1>4, <1>5, <1>6, <1>7 DEF T!Sender, T!BeginChunk, T!Oversize

(* The client's own loops, and Close. *)
LEMMA LoopEffect ==
    ASSUME InvE, UNCHANGED serverVars,
           written' = written \cup (toServer' \cap T!DataPackets),
           T!AckLoop \/ T!RunRetransmitTick \/ T!Close \/ \E l \in loops : T!LoopExit(l)
    PROVE  Effect
<1> USE DEF InvE
<1>0. UNCHANGED serverState
  BY DEF serverVars, serverState
<1>1. seqCounter \in seqCounter .. MaxSends
  BY EndToEndAssumption DEF WireInv
<1>2. CASE T!AckLoop
  <2>1. PICK q \in replies[Agent] : T!ProcessACK(q) \/ T!ProcessNACK(q) \/ T!RecvConfig(q)
    BY <1>2 DEF T!AckLoop
  <2>2. T!ProcessACK(q)
    BY <2>1, ZenonT(30) DEF T!ProcessNACK, T!RecvConfig, WireInv
  <2>3. PICK k \in T!Keys : T!Matches(k, q) /\ inflight' = T!Without(inflight, {k})
    BY <2>2, ZenonT(30) DEF T!ProcessACK
  <2>4. UNCHANGED <<toServer, seqCounter, loops, pc, current>> /\ acked' = acked + 1
    BY <2>2 DEF T!ProcessACK, T!local, T!net
  <2>5. UNCHANGED <<OnWire, written>>
    BY <2>4 DEF OnWire, WireInv
  <2>6. Acks(k, q)
    BY <1>0, <2>3, <2>4, <2>5 DEF Acks
  <2> QED BY <2>6 DEF Effect
<1>3. CASE T!RunRetransmitTick
  <2>1. PICK C \in SUBSET T!Eligible :
          /\ T!Written({inflight[k].data : k \in C})
          /\ inflight' = [k \in T!Keys \ T!Spent |->
                             IF k \in C THEN T!Retried(inflight[k]) ELSE inflight[k]]
    BY <1>3, ZenonT(30) DEF T!RunRetransmitTick
  <2>2. "retransmit" \in loops /\ UNCHANGED <<seqCounter, loops, pc, current>>
    BY <1>3 DEF T!RunRetransmitTick, T!local
  <2>3. toServer' \subseteq toServer \cup {inflight[k].data : k \in C}
    BY <2>1 DEF T!Written
  <2>4. OnWire' \subseteq OnWire \cup {inflight[k].data : k \in C}
    BY <2>3 DEF OnWire
  <2>5. {inflight[k].data : k \in C} \subseteq written
    BY DEF WireInv, T!Eligible, T!Ripe
  <2>6. UNCHANGED written
    BY <2>3, <2>5 DEF WireInv
  <2>7. Retries(C)
    BY <1>0, <2>1, <2>2, <2>4, <2>6, ZenonT(30) DEF Retries
  <2> QED BY <2>7, ZenonT(30) DEF Effect
<1>4. CASE T!Close \/ \E l \in loops : T!LoopExit(l)
  <2>1. /\ UNCHANGED <<seqCounter, pc, current, inflight>> /\ loops' \subseteq loops
        /\ toServer' = toServer \/ toServer' = toServer \cup {T!Control("fin")}
    BY <1>4, ZenonT(30) DEF T!Close, T!LoopExit, T!local, T!net
  <2>2. T!Control("fin") \notin T!DataPackets
    <3>1. T!Control("fin").type = "fin" /\ \A d \in T!DataPackets : d.type = "data"
      BY DEF T!Control, T!DataPackets
    <3> QED BY <3>1
  <2>3. UNCHANGED OnWire
    BY <2>1, <2>2 DEF OnWire
  <2>4. UNCHANGED written
    BY <2>3 DEF OnWire, WireInv
  <2>5. Idles
    BY <1>0, <1>1, <2>1, <2>3, <2>4 DEF Idles, SenderInv
  <2> QED BY <2>5, ZenonT(30) DEF Effect
<1> QED
  BY <1>2, <1>3, <1>4, ZenonT(30)

(* The server, and time. *)
LEMMA ServerEffect ==
    ASSUME InvE, ServerStep \/ Elapse PROVE Effect
<1> USE DEF InvE
<1>1. ASSUME NEW d \in OnWire, R!HandleData(Agent, d), Accepted(d.payload),
             UNCHANGED <<agentVars, toServer, written>>
      PROVE  Effect
  <2>0. d.payload \in Payloads
    BY DEF OnWire, T!DataPackets
  <2>1. UNCHANGED <<agentState, restarts>>
    BY <1>1 DEF agentState, agentVars, OnWire, R!HandleData
  <2>2. replies' \in {replies, [replies EXCEPT ![Agent] = @ \cup {R!Ack(d)}]}
    BY <1>1 DEF R!HandleData, R!Send, R!Reachable
  <2>3. R!Accept(Agent, d, R!Touched(Agent))
    BY <1>1, <2>0 DEF R!HandleData, R!IsFragment
  <2>4. IF d.payload \in DOMAIN dedup
          THEN UNCHANGED <<dedup, lastAccepted>>
          ELSE /\ dedup' = R!Put(dedup, d.payload, 0)
               /\ lastAccepted' = R!Put(lastAccepted, d.payload, 0)
    BY <2>0, <2>3, ZenonT(30) DEF R!Accept
  <2>5. Receives(d)
    BY <1>1, <2>1, <2>2, <2>4, ZenonT(30) DEF Receives
  <2> QED BY <2>5, ZenonT(30) DEF Effect
<1>2. ASSUME R!DedupGC \/ R!SessionGC \/ R!Restart, UNCHANGED accepted,
             UNCHANGED <<agentVars, toServer, written>>
      PROVE  Effect
  <2>1. UNCHANGED agentState
    BY <1>2, ZenonT(30) DEF agentState, agentVars, OnWire
  <2>2. CASE R!DedupGC
    <3>1. Forgets
      BY <1>2, <2>1, <2>2 DEF R!DedupGC, Forgets, R!history, R!accounts
    <3> QED BY <3>1 DEF Effect
  <2>3. CASE R!SessionGC
    <3>1. seqCounter \in seqCounter .. MaxSends
      BY EndToEndAssumption DEF WireInv
    <3>2. UNCHANGED serverState
      BY <1>2, <2>3 DEF R!SessionGC, serverState, R!history, R!accounts
    <3>3. Idles
      BY <2>1, <3>1, <3>2, ZenonT(30) DEF agentState, SenderInv, Idles
    <3> QED BY <3>3, ZenonT(30) DEF Effect
  <2>4. CASE R!Restart
    <3>1. Restarts
      BY <1>2, <2>1, <2>4 DEF R!Restart, Restarts
    <3> QED BY <3>1, ZenonT(30) DEF Effect
  <2> QED BY <1>2, <2>2, <2>3, <2>4, ZenonT(30)
<1>3. CASE Elapse
  <2>1. OnWire' = {}
    BY <1>3 DEF Elapse, OnWire
  <2>2. /\ inflight' = [k \in T!Keys |-> T!Aged(inflight[k])]
        /\ UNCHANGED <<seqCounter, loops, pc, current>>
    BY <1>3 DEF Elapse, T!Elapse, T!local
  <2>3. /\ dedup' = [x \in DOMAIN dedup |-> R!Older(dedup[x])]
        /\ lastAccepted' = [x \in DOMAIN lastAccepted |-> R!Older(lastAccepted[x])]
        /\ UNCHANGED restarts
    BY <1>3, ZenonT(30) DEF Elapse, R!Elapse
  <2>4. Passes
    BY <1>3, <2>1, <2>2, <2>3, ZenonT(30) DEF Elapse, Passes
  <2> QED BY <2>4, ZenonT(30) DEF Effect
<1> QED
  BY <1>1, <1>2, <1>3, ZenonT(30) DEF ServerStep, OnWire

(* Every step has one of these effects. *)
LEMMA NextEffect ==
    ASSUME InvE, [Next]_vars PROVE Effect
<1>1. CASE ClientStep
  BY <1>1, SenderEffect, LoopEffect, ZenonT(30) DEF ClientStep
<1>2. CASE ServerStep \/ Elapse
  BY <1>2, ServerEffect
<1>3. CASE UNCHANGED vars
  <2>1. seqCounter \in seqCounter .. MaxSends
    BY EndToEndAssumption DEF InvE, WireInv
  <2>2. UNCHANGED <<OnWire, written, loops, pc, current, inflight, seqCounter, serverState>>
    BY <1>3 DEF vars, agentVars, serverVars, serverState, OnWire
  <2>3. Idles
    BY <2>1, <2>2, ZenonT(30) DEF Idles, InvE, SenderInv
  <2> QED BY <2>3 DEF Effect
<1> QED BY <1>1, <1>2, <1>3, ZenonT(30) DEF Next

-----------------------------------------------------------------------------
(* A timeout is a number of ticks, below the cap of an entry's age.        *)
LEMMA RTOType ==
    ASSUME NEW r \in Nat
    PROVE  /\ T!ComputeRTO(BaseRTO, MaxRTO, r) \in Nat
           /\ T!ComputeRTO(BaseRTO, MaxRTO, r) <= MaxRTO + BaseRTO
<1>1. 2^r \in Nat
  <2>1. IsFiniteSet(1 .. r) /\ Cardinality(1 .. r) = r
    BY FS_Interval
  <2>2. IsFiniteSet(SUBSET (1 .. r)) /\ Cardinality(SUBSET (1 .. r)) = 2^r
    BY <2>1, FS_SUBSET, ZenonT(30)
  <2> QED BY <2>2, FS_CardinalityType
<1> DEFINE x == 2^r
<1>2. x \in Nat
  BY <1>1
<1> HIDE DEF x
<1>3. BaseRTO * x \in Nat
  BY <1>2, EndToEndAssumption
<1> QED
  BY <1>3, EndToEndAssumption DEF T!ComputeRTO, x

(* Steps keep what is known of the wire. *)
LEMMA WireInd ==
    ASSUME InvE, Effect PROVE WireInv'
<1> USE DEF InvE
<1>1. CASE Idles
  <2>1. seqCounter' \in 0 .. MaxSends /\ seqCounter <= seqCounter'
    BY <1>1, EndToEndAssumption DEF Idles, WireInv
  <2>2. \A d \in written : d.key <= seqCounter'
    BY <2>1, EndToEndAssumption DEF WireInv, T!DataPackets, T!Key
  <2> QED BY <1>1, <2>1, <2>2, ZenonT(30) DEF Idles, WireInv, OnWire, serverState, T!Keys
<1>2. ASSUME NEW s \in Senders, NEW d \in T!DataPackets, Sends(s, d) PROVE WireInv'
  <2>1. seqCounter' \in 0 .. MaxSends /\ seqCounter' = seqCounter + 1
    BY <1>2, EndToEndAssumption DEF Sends, WireInv
  <2>2. \A e \in written : e.key \in Nat /\ e.key <= seqCounter
    BY EndToEndAssumption DEF WireInv, T!DataPackets, T!Key
  <2>3. /\ d.key = seqCounter + 1 /\ d.seq = T!WireSeq(d.key)
        /\ written' = written \cup {d} /\ OnWire' = OnWire \cup {d}
        /\ UNCHANGED <<inflight, serverState>>
    BY <1>2 DEF Sends
  <2>4. \A e \in written' : e.key <= seqCounter' /\ e.seq = T!WireSeq(e.key)
    BY <2>1, <2>2, <2>3 DEF WireInv
  <2>5. \A e, f \in written' : e.key = f.key => e = f
    BY <2>1, <2>2, <2>3 DEF WireInv
  <2>6. current' \in [Senders -> SUBSET written']
    BY <1>2, <2>3, ZenonT(30) DEF Sends, WireInv
  <2>7. written' \subseteq T!DataPackets /\ OnWire' \subseteq written'
    BY <2>3, ZenonT(30) DEF WireInv, OnWire
  <2>8. \A q \in replies'[Agent] : q.type = "ack" /\ \E e \in written' :
           q.seq = e.seq /\ q.stream = e.stream /\ accepted'[e.payload] > 0
    BY <2>3 DEF WireInv, serverState
  <2>9. \A k \in DOMAIN inflight' : inflight'[k].data \in written' /\ inflight'[k].data.key = k
    BY <2>3 DEF WireInv, T!Keys
  <2>10. replies' = [a \in {Agent} |-> replies'[Agent]]
    BY <2>3 DEF WireInv, serverState
  <2> QED
    BY <2>1, <2>4, <2>5, <2>6, <2>7, <2>8, <2>9, <2>10, ZenonT(30) DEF WireInv, OnWire, T!Keys
<1>3. ASSUME NEW s \in Senders, NEW d \in T!DataPackets, Tracks(s, d) PROVE WireInv'
  <2>1. d \in written /\ UNCHANGED <<OnWire, written, seqCounter, serverState>>
    BY <1>3, ZenonT(30) DEF Tracks, WireInv
  <2>2. DOMAIN inflight' = DOMAIN inflight \cup {d.key}
        /\ \A k \in DOMAIN inflight' : inflight'[k] = IF k = d.key THEN T!Entry(d) ELSE inflight[k]
    BY <1>3, ZenonT(30) DEF Tracks, T!Keys
  <2>3. T!Entry(d).data = d
    BY DEF T!Entry
  <2>4. \A k \in DOMAIN inflight' : inflight'[k].data \in written' /\ inflight'[k].data.key = k
    BY <2>1, <2>2, <2>3 DEF WireInv, T!Keys
  <2>5. current' \in [Senders -> SUBSET written']
    BY <1>3, <2>1, ZenonT(30) DEF Tracks, WireInv
  <2> QED BY <2>1, <2>4, <2>5, ZenonT(30) DEF WireInv, OnWire, serverState, T!Keys
<1>4. ASSUME NEW k \in T!Keys, NEW q \in replies[Agent], Acks(k, q) PROVE WireInv'
  <2>1. UNCHANGED <<OnWire, written, seqCounter, current, serverState>>
    BY <1>4, ZenonT(30) DEF Acks
  <2>2. DOMAIN inflight' \subseteq DOMAIN inflight /\ \A j \in DOMAIN inflight' : inflight'[j] = inflight[j]
    BY <1>4 DEF Acks, T!Without
  <2> QED BY <2>1, <2>2, ZenonT(30) DEF WireInv, OnWire, serverState, T!Keys
<1>5. ASSUME NEW C \in SUBSET T!Eligible, Retries(C) PROVE WireInv'
  <2>1. UNCHANGED <<written, seqCounter, current, serverState>>
    BY <1>5, ZenonT(30) DEF Retries
  <2>2. DOMAIN inflight' \subseteq DOMAIN inflight
        /\ \A j \in DOMAIN inflight' : inflight'[j].data = inflight[j].data
    BY <1>5, ZenonT(30) DEF Retries, T!Keys, T!Retried
  <2>3. \A k \in C : inflight[k].data \in written
    BY DEF WireInv, T!Eligible, T!Ripe
  <2>4. OnWire' \subseteq written
    BY <1>5, <2>3 DEF Retries, WireInv, OnWire
  <2> QED BY <2>1, <2>2, <2>4, ZenonT(30) DEF WireInv, OnWire, serverState, T!Keys
<1>6. ASSUME NEW d \in OnWire, Receives(d) PROVE WireInv'
  <2>1. UNCHANGED <<OnWire, written, seqCounter, current, inflight>>
    BY <1>6, ZenonT(30) DEF Receives, agentState
  <2>2. d \in written /\ d.payload \in Payloads
    BY ZenonT(30) DEF OnWire, WireInv, T!DataPackets
  <2>3. accepted' = [accepted EXCEPT ![d.payload] = @ + IF d.payload \in DOMAIN dedup THEN 0 ELSE 1]
    BY <1>6, ZenonT(30) DEF Receives, Accepted
  <2>4. accepted'[d.payload] > 0 /\ \A p \in Payloads : accepted[p] > 0 => accepted'[p] > 0
    BY <2>2, <2>3 DEF DedupInv
  <2>5. R!Ack(d).type = "ack" /\ R!Ack(d).seq = d.seq /\ R!Ack(d).stream = d.stream
    BY ZenonT(30) DEF R!Ack
  <2>6. replies' = [a \in {Agent} |-> replies'[Agent]]
        /\ replies'[Agent] \subseteq replies[Agent] \cup {R!Ack(d)}
    BY <1>6 DEF Receives, WireInv
  <2>7. \A e \in written : e.payload \in Payloads
    BY ZenonT(30) DEF WireInv, T!DataPackets
  <2>8. \A q \in replies'[Agent] : q.type = "ack" /\ \E e \in written' :
           q.seq = e.seq /\ q.stream = e.stream /\ accepted'[e.payload] > 0
    BY <2>1, <2>2, <2>4, <2>5, <2>6, <2>7, ZenonT(30) DEF WireInv
  <2> QED BY <2>1, <2>6, <2>8, ZenonT(30) DEF WireInv, OnWire, T!Keys
<1>7. CASE Forgets \/ Restarts
  BY <1>7, ZenonT(30) DEF Forgets, Restarts, agentState, WireInv, OnWire, T!Keys
<1>8. CASE Passes
  <2>1. UNCHANGED <<written, seqCounter, current, accepted>> /\ OnWire' = {}
    BY <1>8, ZenonT(30) DEF Passes
  <2>2. DOMAIN inflight' = DOMAIN inflight
        /\ \A j \in DOMAIN inflight' : inflight'[j].data = inflight[j].data
    BY <1>8, ZenonT(30) DEF Passes, T!Keys, T!Aged
  <2>3. replies' = [a \in {Agent} |-> replies'[Agent]] /\ replies'[Agent] = {}
    BY <1>8, ZenonT(30) DEF Passes, WireInv
  <2> QED BY <2>1, <2>2, <2>3, ZenonT(30) DEF WireInv, OnWire, T!Keys
<1> QED
  BY <1>1, <1>2, <1>3, <1>4, <1>5, <1>6, <1>7, <1>8, ZenonT(30) DEF Effect

(* Steps keep what the server remembers. *)
LEMMA DedupInd ==
    ASSUME InvE, Effect PROVE DedupInv'
<1> USE DEF InvE
<1>1. CASE UNCHANGED serverState
  BY <1>1, ZenonT(30) DEF DedupInv, serverState
<1>2. ASSUME NEW d \in OnWire, Receives(d) PROVE DedupInv'
  <2> DEFINE p == d.payload
  <2>1. p \in Payloads
    BY DEF OnWire, T!DataPackets
  <2>2. accepted' = [accepted EXCEPT ![p] = @ + IF p \in DOMAIN dedup THEN 0 ELSE 1]
        /\ UNCHANGED restarts
    BY <1>2, ZenonT(30) DEF Receives, Accepted
  <2>3. accepted' \in [Payloads -> Nat] /\ \A x \in Payloads : accepted[x] > 0 => accepted'[x] > 0
    BY <2>1, <2>2 DEF DedupInv
  <2>4. CASE p \in DOMAIN dedup
    <3>1. UNCHANGED <<dedup, lastAccepted>>
      BY <1>2, <2>4, ZenonT(30) DEF Receives
    <3> QED BY <2>2, <2>3, <3>1, ZenonT(30) DEF DedupInv
  <2>5. CASE p \notin DOMAIN dedup
    <3>1. /\ dedup' = R!Put(dedup, p, 0)
          /\ lastAccepted' = R!Put(lastAccepted, p, 0)
      BY <1>2, <2>5, ZenonT(30) DEF Receives
    <3>2. accepted'[p] > 0
      BY <2>1, <2>2, <2>5 DEF DedupInv
    <3> HIDE DEF p
    <3>3. DOMAIN dedup' = DOMAIN dedup \cup {p} /\ DOMAIN lastAccepted' = DOMAIN lastAccepted \cup {p}
      BY <3>1, ZenonT(30) DEF R!Put
    <3>4. /\ \A x \in DOMAIN dedup' : dedup'[x] = IF x = p THEN 0 ELSE dedup[x]
          /\ \A x \in DOMAIN lastAccepted' : lastAccepted'[x] = IF x = p THEN 0 ELSE lastAccepted[x]
      BY <3>1, ZenonT(30) DEF R!Put
    <3> QED BY <2>1, <2>2, <2>3, <3>2, <3>3, <3>4 DEF DedupInv
  <2> QED BY <2>4, <2>5
<1>3. CASE Forgets
  <2>1. /\ DOMAIN dedup' = DOMAIN dedup \ {x \in DOMAIN dedup : dedup[x] > TTL}
        /\ \A x \in DOMAIN dedup' : dedup'[x] = dedup[x]
    BY <1>3, ZenonT(30) DEF Forgets, R!Drop
  <2>2. UNCHANGED <<accepted, lastAccepted, restarts>>
    BY <1>3 DEF Forgets
  <2> QED BY <2>1, <2>2, EndToEndAssumption DEF DedupInv
<1>4. CASE Restarts
  <2>1. DOMAIN dedup' = {} /\ DOMAIN lastAccepted' = {} /\ restarts' = restarts + 1
        /\ UNCHANGED accepted
    BY <1>4 DEF Restarts, R!Empty
  <2> QED BY <2>1 DEF DedupInv
<1>5. CASE Passes
  <2>1. /\ DOMAIN dedup' = DOMAIN dedup /\ DOMAIN lastAccepted' = DOMAIN lastAccepted
        /\ \A x \in DOMAIN dedup : dedup'[x] = R!Older(dedup[x])
        /\ \A x \in DOMAIN lastAccepted : lastAccepted'[x] = R!Older(lastAccepted[x])
        /\ UNCHANGED <<accepted, restarts>>
    BY <1>5, ZenonT(30) DEF Passes
  <2>2. \A n \in Nat : R!Older(n) \in Nat /\ n <= R!Older(n)
    BY EndToEndAssumption DEF R!Older
  <2> QED BY <2>1, <2>2, EndToEndAssumption DEF DedupInv
<1> QED
  BY <1>1, <1>2, <1>3, <1>4, <1>5, ZenonT(30) DEF Effect, Idles, Sends, Tracks, Acks, Retries

(* A sender holds a packet only where it inserts one, and writes the tiers *)
(* it was asked for.                                                       *)
LEMMA SenderInd ==
    ASSUME InvE, Effect PROVE SenderInv'
<1> USE DEF InvE
<1>1. CASE Idles
  BY <1>1, ZenonT(30) DEF Idles, WireInv, SenderInv
<1>2. ASSUME NEW s \in Senders, NEW d \in T!DataPackets, Sends(s, d) PROVE SenderInv'
  <2>1. pc' \in [Senders -> T!Pcs]
    BY <1>2 DEF Sends, SenderInv, T!Pcs
  <2>2. \A r \in Senders : current'[r] # {} => pc'[r] = "insert"
    <3>1. CASE UNCHANGED <<pc, current>>
      BY <3>1, ZenonT(30) DEF SenderInv
    <3>2. CASE pc' = [pc EXCEPT ![s] = "insert"] /\ current' = [current EXCEPT ![s] = {d}]
      BY <3>2, ZenonT(30) DEF WireInv, SenderInv
    <3> QED BY <1>2, <3>1, <3>2, ZenonT(30) DEF Sends
  <2>3. \A e \in written' : e.tier \in SendTiers
    BY <1>2, ZenonT(30) DEF Sends, SenderInv
  <2> QED BY <2>1, <2>2, <2>3, ZenonT(30) DEF SenderInv
<1>3. ASSUME NEW s \in Senders, NEW d \in T!DataPackets, Tracks(s, d) PROVE SenderInv'
  BY <1>3, ZenonT(30) DEF Tracks, WireInv, SenderInv, T!Pcs
<1>4. CASE UNCHANGED <<written, pc, current>>
  BY <1>4, ZenonT(30) DEF SenderInv
<1> QED
  BY <1>1, <1>2, <1>3, <1>4, ZenonT(30)
  DEF Effect, Acks, Retries, Receives, Forgets, Restarts, Passes, agentState

(* Steps keep the retries and the ages of the entries. *)
LEMMA EntryInd ==
    ASSUME InvE, Effect PROVE EntryInv'
<1> USE DEF InvE
<1> DEFINE run == "retransmit" \in loops
<1>a. \A k \in DOMAIN inflight : EntryOK(inflight[k], run)
  BY ZenonT(30) DEF EntryInv, T!Keys
<1>b. (\A k \in DOMAIN inflight' : EntryOK(inflight'[k], run')) => EntryInv'
  BY ZenonT(30) DEF EntryInv, T!Keys
<1>c. \A t : T!MaxRetries(t) \in Nat
  BY EndToEndAssumption DEF T!MaxRetries
<1>1. CASE Idles
  <2>1. \A e : EntryOK(e, run) => EntryOK(e, run')
    BY <1>1, ZenonT(30) DEF Idles, EntryOK
  <2> QED BY <1>1, <1>a, <1>b, <2>1, ZenonT(30) DEF Idles
<1>2. ASSUME NEW s \in Senders, NEW d \in T!DataPackets, Sends(s, d) PROVE EntryInv'
  BY <1>2, <1>a, <1>b, ZenonT(30) DEF Sends
<1>3. ASSUME NEW s \in Senders, NEW d \in T!DataPackets, Tracks(s, d) PROVE EntryInv'
  <2>2. DOMAIN inflight' = DOMAIN inflight \cup {d.key}
        /\ \A k \in DOMAIN inflight' : inflight'[k] = IF k = d.key THEN T!Entry(d) ELSE inflight[k]
    BY <1>3, ZenonT(30) DEF Tracks, T!Keys
  <2>3. T!ComputeRTO(BaseRTO, MaxRTO, 0) \in Nat
    BY RTOType
  <2>4. T!Entry(d).data = d /\ T!Entry(d).retries = 0 /\ T!Entry(d).age = 0
    BY DEF T!Entry
  <2>5. EntryOK(T!Entry(d), run)
    BY <1>c, <2>3, <2>4 DEF EntryOK
  <2>6. loops' = loops
    BY <1>3, ZenonT(30) DEF Tracks
  <2> QED BY <1>a, <1>b, <2>2, <2>5, <2>6, ZenonT(30)
<1>4. ASSUME NEW k \in T!Keys, NEW q \in replies[Agent], Acks(k, q) PROVE EntryInv'
  <2>1. DOMAIN inflight' \subseteq DOMAIN inflight /\ \A j \in DOMAIN inflight' : inflight'[j] = inflight[j]
    BY <1>4 DEF Acks, T!Without
  <2> QED BY <1>4, <1>a, <1>b, <2>1, ZenonT(30) DEF Acks
<1>5. ASSUME NEW C \in SUBSET T!Eligible, Retries(C) PROVE EntryInv'
  <2>1. DOMAIN inflight' \subseteq DOMAIN inflight /\ \A j \in DOMAIN inflight' :
           inflight'[j] = IF j \in C THEN T!Retried(inflight[j]) ELSE inflight[j]
    BY <1>5, ZenonT(30) DEF Retries, T!Keys
  <2>2. ASSUME NEW j \in C, j \in DOMAIN inflight PROVE EntryOK(T!Retried(inflight[j]), run)
    <3> DEFINE e == inflight[j]
    <3>1. e.retries < T!MaxRetries(e.data.tier)
      BY <1>c, <1>a, <2>2 DEF EntryOK, T!Eligible, T!Spent
    <3>2. T!Retried(e).data = e.data /\ T!Retried(e).retries = e.retries + 1 /\ T!Retried(e).age = 0
      BY ZenonT(30) DEF T!Retried
    <3>3. e.retries \in Nat
      BY <1>c, <1>a, <2>2 DEF EntryOK
    <3>4. e.retries + 1 \in 0 .. T!MaxRetries(e.data.tier)
      BY <1>c, <3>1, <3>3
    <3>5. T!ComputeRTO(BaseRTO, MaxRTO, e.retries + 1) \in Nat
      BY <3>3, RTOType
    <3> HIDE DEF e
    <3>6. EntryOK(T!Retried(e), run)
      BY <3>2, <3>4, <3>5 DEF EntryOK
    <3> QED BY <3>6 DEF e
  <2>3. UNCHANGED loops
    BY <1>5, ZenonT(30) DEF Retries
  <2> QED BY <1>a, <1>b, <2>1, <2>2, <2>3, ZenonT(30)
<1>6. CASE UNCHANGED agentState
  BY <1>6, <1>a, <1>b, ZenonT(30) DEF agentState
<1>7. CASE Passes
  <2>1. UNCHANGED loops
    BY <1>7, ZenonT(30) DEF Passes
  <2>2. DOMAIN inflight' = DOMAIN inflight /\ \A k \in DOMAIN inflight : inflight'[k] = T!Aged(inflight[k])
    BY <1>7, ZenonT(30) DEF Passes, T!Keys
  <2>3. ASSUME NEW k \in DOMAIN inflight PROVE EntryOK(T!Aged(inflight[k]), run)
    <3> DEFINE e == inflight[k]
    <3>1. EntryOK(e, run)
      BY <1>a
    <3>2. e.retries \in Nat
      BY <1>c, <3>1 DEF EntryOK
    <3>3. T!ComputeRTO(BaseRTO, MaxRTO, e.retries) \in Nat
      BY <3>2, RTOType, ZenonT(30)
    <3>4. run => ~(e.age > T!ComputeRTO(BaseRTO, MaxRTO, e.retries))
      BY <1>7, ZenonT(30) DEF Passes, T!Ripe, T!Keys
    <3>5. /\ T!Aged(e).data = e.data /\ T!Aged(e).retries = e.retries
          /\ T!Aged(e).age \in {e.age, e.age + 1}
      BY ZenonT(30) DEF T!Aged, T!Older
    <3> HIDE DEF e
    <3>6. EntryOK(T!Aged(e), run)
      BY <3>1, <3>3, <3>4, <3>5 DEF EntryOK
    <3> QED BY <3>6 DEF e
  <2> QED BY <1>a, <1>b, <2>1, <2>2, <2>3, ZenonT(30)
<1> QED
  BY <1>1, <1>2, <1>3, <1>4, <1>5, <1>6, <1>7, ZenonT(30) DEF Effect, Receives, Forgets, Restarts

(* The invariants hold in every reachable state. *)
LEMMA InvEInvariant == Spec => []InvE
<1>1. Init => InvE
  <2> SUFFICES ASSUME Init PROVE InvE
    BY ZenonT(30)
  <2>1. /\ seqCounter = 0 /\ written = {} /\ toServer = {} /\ DOMAIN inflight = {}
        /\ current = [s \in Senders |-> {}] /\ pc = [s \in Senders |-> "idle"]
        /\ accepted = [p \in Payloads |-> 0]
    BY DEF Init
  <2>2. DOMAIN dedup = {} /\ DOMAIN lastAccepted = {} /\ restarts = 0
        /\ replies = [p \in {Agent} |-> {}]
    BY DEF Init, R!Init, R!Empty
  <2>3. WireInv
    BY <2>1, <2>2, EndToEndAssumption DEF WireInv, T!Keys
  <2>4. DedupInv
    BY <2>1, <2>2, ZenonT(30) DEF DedupInv
  <2>5. SenderInv /\ EntryInv
    BY <2>1, ZenonT(30) DEF SenderInv, EntryInv, T!Keys, T!Pcs
  <2> QED BY <2>3, <2>4, <2>5, ZenonT(30) DEF InvE
<1>2. InvE /\ [Next]_vars => InvE'
  BY NextEffect, WireInd, DedupInd, SenderInd, EntryInd DEF InvE
<1> QED
  BY <1>1, <1>2, PTL DEF Spec

-----------------------------------------------------------------------------
(* Only processACK moves the counter. *)
LEMMA AckedByReply ==
    ASSUME InvE, Next, acked' # acked
    PROVE  \E k \in T!Keys : \E q \in replies[Agent] :
              T!Matches(k, q) /\ inflight' = T!Without(inflight, {k}) /\ acked' = acked + 1
<1>1. ClientStep
  BY ZenonT(30) DEF Next, ServerStep, Elapse, T!Elapse, T!counters, agentVars
<1>2. \A s \in Senders : ~T!Sender(s)
  BY ZenonT(30) DEF T!Sender, T!BeginChunk, T!WindowOpen, T!WindowStalled, T!DeferBestEffort,
         T!TransmitFails, T!Oversize, T!Track, T!Transmit, T!counters
<1>3. ~T!RunRetransmitTick
  BY ZenonT(30) DEF T!RunRetransmitTick
<1>4. ~T!Close /\ \A l \in loops : ~T!LoopExit(l)
  BY ZenonT(30) DEF T!Close, T!LoopExit, T!counters
<1>5. T!AckLoop
  BY <1>1, <1>2, <1>3, <1>4 DEF ClientStep
<1>6. PICK q \in replies[Agent] : T!ProcessACK(q) \/ T!ProcessNACK(q) \/ T!RecvConfig(q)
  BY <1>5, ZenonT(30) DEF T!AckLoop
<1>7. T!ProcessACK(q)
  BY <1>6, ZenonT(30) DEF T!ProcessNACK, T!RecvConfig, T!counters
<1> QED
  BY <1>7, ZenonT(30) DEF T!ProcessACK

(* What the client counts as acknowledged the server has accepted, in any  *)
(* session whose numbers do not wrap.                                      *)
THEOREM AckedIsAccepted ==
    ASSUME MaxSends < SeqSpace
    PROVE  Spec => AckedWasAccepted
<1> DEFINE Step ==
      acked' # acked =>
         \A k \in DOMAIN inflight \ DOMAIN inflight' :
            accepted[inflight[k].data.payload] > 0
<1>1. ASSUME InvE, [Next]_vars PROVE [Step]_vars
  <2> SUFFICES ASSUME acked' # acked, NEW k \in DOMAIN inflight \ DOMAIN inflight'
               PROVE  accepted[inflight[k].data.payload] > 0
    BY ZenonT(30)
  <2>1. Next
    BY <1>1 DEF vars, agentVars
  <2>2. PICK j \in T!Keys : \E q \in replies[Agent] :
          T!Matches(j, q) /\ inflight' = T!Without(inflight, {j})
    BY <1>1, <2>1, AckedByReply, ZenonT(30)
  <2>3. PICK q \in replies[Agent] : T!Matches(j, q)
    BY <2>2, ZenonT(30)
  <2>4. k = j
    BY <2>2, ZenonT(30) DEF T!Without
  <2> DEFINE e == inflight[k].data
  <2>5. e \in written /\ e.seq = q.seq
    BY <1>1, <2>3, <2>4, ZenonT(30) DEF InvE, WireInv, T!Keys, T!Matches
  <2>6. PICK d \in written : q.seq = d.seq /\ accepted[d.payload] > 0
    BY <1>1, ZenonT(30) DEF InvE, WireInv
  <2>7. \A x \in written : x.key \in 1 .. MaxSends /\ x.seq = x.key % SeqSpace
    BY <1>1, ZenonT(30) DEF InvE, WireInv, T!DataPackets, T!Key, T!WireSeq
  <2>8. \A n \in 1 .. MaxSends : n % SeqSpace = n
    BY EndToEndAssumption
  <2> HIDE DEF e
  <2>9. d.key = e.key
    BY <2>5, <2>6, <2>7, <2>8, ZenonT(30)
  <2>10. d = e
    BY <1>1, <2>5, <2>6, <2>9, ZenonT(30) DEF InvE, WireInv
  <2> QED BY <2>6, <2>10, ZenonT(30) DEF e
<1> QED
  BY <1>1, InvEInvariant, PTL DEF Spec, AckedWasAccepted

-----------------------------------------------------------------------------
(* The sum of the timeouts.                                                *)

(* A set that contains 0 and with every number the next contains all: no   *)
(* number outside it can be the least.                                     *)
LEMMA Induction ==
    ASSUME NEW S, 0 \in S, \A n \in Nat : n \in S => n + 1 \in S
    PROVE  Nat \subseteq S
<1> DEFINE L == Nat \ S
           Less == {ss \in Nat \X Nat : ss[1] < ss[2]}
<1> SUFFICES ASSUME L # {} PROVE FALSE
  OBVIOUS
<1>1. IsWellFoundedOn(Less, Nat)
  BY NatLessThanWellFounded, ZenonT(30) DEF OpToRel
<1>2. \A x, y \in Nat : y < x => <<y, x>> \in Less
  OBVIOUS
<1>3. L \subseteq Nat
  OBVIOUS
<1> HIDE DEF Less
<1>4. PICK m \in L : \A y \in L : <<y, m>> \notin Less
  BY <1>1, <1>3, WFMin, ZenonT(30)
<1>5. \A y \in L : ~(y < m)
  BY <1>2, <1>3, <1>4, ZenonT(30)
<1>6. m \in Nat \ {0} /\ m - 1 \in Nat /\ m - 1 \notin L
  BY <1>3, <1>4, <1>5
<1> QED BY <1>4, <1>6

Timeout(r) == T!ComputeRTO(BaseRTO, MaxRTO, r)
Sums(f, r) == f = [n \in 0 .. r |-> Timeout(n) + 1 + (IF n = 0 THEN 0 ELSE f[n - 1])]
Summed(f, r) ==
    f[0] = Timeout(0) + 1 /\ \A n \in Nat : n < r => f[n + 1] = Timeout(n + 1) + 1 + f[n]

(* The equation of the recursive function, point by point. *)
LEMMA SumsPointwise ==
    ASSUME NEW r \in Nat, NEW f
    PROVE  /\ Sums(f, r) => Summed(f, r)
           /\ f \in [0 .. r -> Nat] /\ Summed(f, r) => Sums(f, r)
<1> DEFINE g == [n \in 0 .. r |-> Timeout(n) + 1 + (IF n = 0 THEN 0 ELSE f[n - 1])]
<1>0. \A n \in Nat : Timeout(n) \in Nat
  BY RTOType, ZenonT(30) DEF Timeout
<1>1. ASSUME f = g PROVE Summed(f, r)
  <2>1. f[0] = Timeout(0) + 1
    BY <1>0, <1>1
  <2>2. ASSUME NEW n \in Nat, n < r PROVE f[n + 1] = Timeout(n + 1) + 1 + f[n]
    BY <1>0, <1>1, <2>2
  <2> QED BY <2>1, <2>2, ZenonT(30) DEF Summed
<1>2. ASSUME f \in [0 .. r -> Nat], Summed(f, r) PROVE f = g
  <2>1. \A n \in 0 .. r : f[n] = g[n]
    <3> SUFFICES ASSUME NEW n \in 0 .. r PROVE f[n] = g[n]
      BY ZenonT(30)
    <3>1. CASE n = 0
      BY <1>0, <1>2, <3>1 DEF Summed
    <3>2. CASE n # 0
      <4>1. n - 1 \in Nat /\ n - 1 < r /\ (n - 1) + 1 = n
        BY <3>2
      <4>2. f[(n - 1) + 1] = Timeout((n - 1) + 1) + 1 + f[n - 1]
        BY <1>2, <4>1, ZenonT(30) DEF Summed
      <4> QED BY <3>2, <4>1, <4>2
    <3> QED BY <3>1, <3>2
  <2> QED BY <1>2, <2>1
<1> QED BY <1>1, <1>2, ZenonT(30) DEF Sums

(* There is such a function. *)
LEMMA SumExists ==
    ASSUME NEW r \in Nat PROVE \E f \in [0 .. r -> Nat] : Summed(f, r)
<1> DEFINE S == {n \in Nat : \E f \in [0 .. n -> Nat] : Summed(f, n)}
<1>0. \A n \in Nat : Timeout(n) \in Nat
  BY RTOType, ZenonT(30) DEF Timeout
<1>1. 0 \in S
  <2> DEFINE f == [n \in 0 .. 0 |-> Timeout(0) + 1]
  <2>1. f \in [0 .. 0 -> Nat] /\ Summed(f, 0)
    BY <1>0 DEF Summed
  <2> QED BY <2>1
<1>2. ASSUME NEW n \in Nat, n \in S PROVE n + 1 \in S
  <2>1. PICK f \in [0 .. n -> Nat] : Summed(f, n)
    BY <1>2
  <2> DEFINE g == [k \in 0 .. n + 1 |-> IF k = n + 1 THEN Timeout(n + 1) + 1 + f[n] ELSE f[k]]
  <2>2. f[n] \in Nat /\ Timeout(n + 1) \in Nat
    BY <1>0
  <2>3. g \in [0 .. n + 1 -> Nat]
    BY <2>2
  <2>4. g[n + 1] = Timeout(n + 1) + 1 + f[n] /\ \A k \in 0 .. n : g[k] = f[k]
    OBVIOUS
  <2> HIDE DEF g
  <2>5. Summed(g, n + 1)
    <3>1. g[0] = Timeout(0) + 1
      BY <2>1, <2>4 DEF Summed
    <3>2. ASSUME NEW k \in Nat, k < n + 1 PROVE g[k + 1] = Timeout(k + 1) + 1 + g[k]
      <4>1. CASE k = n
        BY <2>4, <4>1
      <4>2. CASE k # n
        <5>1. k < n /\ k \in 0 .. n /\ k + 1 \in 0 .. n
          BY <3>2, <4>2
        <5> QED BY <2>1, <2>4, <5>1, ZenonT(30) DEF Summed
      <4> QED BY <4>1, <4>2
    <3> QED BY <3>1, <3>2, ZenonT(30) DEF Summed
  <2> QED BY <2>3, <2>5
<1> HIDE DEF S
<1>3. r \in S
  BY <1>1, <1>2, Induction
<1> QED BY <1>3 DEF S

(* It does not depend on where it ends. *)
LEMMA SumUnique ==
    ASSUME NEW r \in Nat, NEW q \in Nat, r <= q, NEW f, NEW g, Summed(f, r), Summed(g, q)
    PROVE  f[r] = g[r]
<1> DEFINE S == {n \in Nat : n <= r => f[n] = g[n]}
<1>1. 0 \in S
  BY DEF Summed
<1>2. ASSUME NEW n \in Nat, n \in S PROVE n + 1 \in S
  <2> SUFFICES ASSUME n + 1 <= r PROVE f[n + 1] = g[n + 1]
    OBVIOUS
  <2>1. n < r /\ n < q /\ f[n] = g[n]
    BY <1>2
  <2> QED BY <2>1, ZenonT(30) DEF Summed
<1> HIDE DEF S
<1>3. r \in S
  BY <1>1, <1>2, Induction
<1> QED BY <1>3 DEF S

(* The recursion that RTOSum promises. *)
LEMMA SumStep ==
    ASSUME NEW r \in Nat
    PROVE  /\ T!RTOSum(r) \in Nat /\ T!RTOSum(0) = Timeout(0) + 1
           /\ T!RTOSum(r + 1) = T!RTOSum(r) + Timeout(r + 1) + 1
<1>1. ASSUME NEW n \in Nat
      PROVE  \E f \in [0 .. n -> Nat] : \E g :
                Summed(f, n) /\ Summed(g, n) /\ T!RTOSum(n) = g[n]
  <2> DEFINE g == CHOOSE f : Sums(f, n)
  <2>1. T!RTOSum(n) = g[n]
    BY ZenonT(30) DEF T!RTOSum, Sums, Timeout
  <2>2. PICK f \in [0 .. n -> Nat] : Summed(f, n)
    BY SumExists, ZenonT(30)
  <2>3. Sums(f, n)
    BY <2>2, SumsPointwise, ZenonT(30)
  <2>4. Sums(g, n)
    BY <2>3, ZenonT(30)
  <2>5. Summed(g, n)
    BY <2>4, SumsPointwise, ZenonT(30)
  <2> HIDE DEF g
  <2> QED BY <2>1, <2>2, <2>5, ZenonT(30)
<1>2. r + 1 \in Nat /\ r <= r /\ r <= r + 1 /\ 0 <= r /\ r < r + 1
  OBVIOUS
<1>0. PICK f \in [0 .. r -> Nat] :
        \E v : Summed(f, r) /\ Summed(v, r) /\ T!RTOSum(r) = v[r]
  BY <1>1, ZenonT(30)
<1>3. PICK g : Summed(f, r) /\ Summed(g, r) /\ T!RTOSum(r) = g[r]
  BY <1>0, ZenonT(30)
<1>4. PICK h : Summed(h, r + 1) /\ T!RTOSum(r + 1) = h[r + 1]
  BY <1>1, <1>2, ZenonT(30)
<1>5. g[r] = f[r] /\ g[r] = h[r]
  BY <1>2, <1>3, <1>4, SumUnique, ZenonT(30)
<1>6. h[r + 1] = Timeout(r + 1) + 1 + h[r]
  BY <1>2, <1>4, ZenonT(30) DEF Summed
<1>7. f[r] \in Nat /\ Timeout(r + 1) \in Nat
  <2>1. r \in 0 .. r
    BY <1>2
  <2> QED BY <1>2, <2>1, RTOType, ZenonT(30) DEF Timeout
<1>8. T!RTOSum(0) = Timeout(0) + 1
  <2>1. PICK u : Summed(u, 0) /\ T!RTOSum(0) = u[0]
    BY <1>1, ZenonT(30)
  <2> QED BY <2>1 DEF Summed
<1>9. \A x, y \in Nat : x + 1 + y = y + x + 1
  OBVIOUS
<1> QED BY <1>3, <1>4, <1>5, <1>6, <1>7, <1>8, <1>9, ZenonT(30)

(* How long an entry has waited at its retries. *)
LEMMA WaitedStep ==
    ASSUME NEW r \in Nat
    PROVE  /\ Waited(r) \in Nat /\ Waited(0) = 0
           /\ Waited(r + 1) = Waited(r) + Timeout(r) + 1
<1>1. CASE r = 0
  <2>1. Waited(0) = 0 /\ Waited(1) = T!RTOSum(0) /\ r + 1 = 1
    BY <1>1 DEF Waited
  <2>2. T!RTOSum(0) = Timeout(0) + 1 /\ Timeout(0) \in Nat
    BY SumStep, RTOType DEF Timeout
  <2>3. Waited(0) \in Nat /\ Waited(1) = Waited(0) + Timeout(0) + 1
    BY <2>1, <2>2
  <2> QED BY <1>1, <2>1, <2>3, ZenonT(30)
<1>2. CASE r # 0
  <2>1. PICK q \in Nat : r = q + 1
    BY <1>2
  <2>2. Waited(q + 1) = T!RTOSum(q) /\ Waited((q + 1) + 1) = T!RTOSum(q + 1) /\ Waited(0) = 0
    BY <2>1 DEF Waited
  <2>3. T!RTOSum(q) \in Nat /\ T!RTOSum(q + 1) = T!RTOSum(q) + Timeout(q + 1) + 1
    BY SumStep
  <2> QED BY <2>1, <2>2, <2>3, ZenonT(30)
<1> QED BY <1>1, <1>2

-----------------------------------------------------------------------------
(* GivenUpOnlyAfterBackoff.                                                *)

(* Inserting, retrying and aging keep LifeOK: a retry comes only when the  *)
(* whole timeout has passed.                                               *)
LEMMA LifeSteps ==
    /\ \A d : LifeOK(T!Entry(d))
    /\ \A e : LifeOK(e) /\ e.retries \in Nat /\ e.age \in Nat
                /\ e.age > Timeout(e.retries) => LifeOK(T!Retried(e))
    /\ \A e : LifeOK(e) /\ e.retries \in Nat /\ e.age \in Nat => LifeOK(T!Aged(e))
<1>1. ASSUME NEW d PROVE LifeOK(T!Entry(d))
  <2>1. T!Entry(d).retries = 0 /\ T!Entry(d).age = 0 /\ T!Entry(d).life = 0
    BY DEF T!Entry
  <2>2. Waited(0) = 0
    BY WaitedStep
  <2> QED BY <2>1, <2>2 DEF LifeOK
<1>2. ASSUME NEW e, LifeOK(e), e.retries \in Nat, e.age \in Nat, e.age > Timeout(e.retries)
      PROVE  LifeOK(T!Retried(e))
  <2>1. T!Retried(e).retries = e.retries + 1 /\ T!Retried(e).age = 0 /\ T!Retried(e).life = e.life
    BY ZenonT(30) DEF T!Retried
  <2>2. Waited(e.retries) \in Nat /\ Waited(e.retries + 1) = Waited(e.retries) + Timeout(e.retries) + 1
    BY <1>2, WaitedStep, ZenonT(30)
  <2>3. Timeout(e.retries) \in Nat
    BY <1>2, RTOType, ZenonT(30) DEF Timeout
  <2>4. \/ e.life >= Waited(e.retries + 1) + 0
        \/ e.life >= LifeCap
    BY <1>2, <2>2, <2>3 DEF LifeOK
  <2> QED BY <1>2, <2>1, <2>4, ZenonT(30) DEF LifeOK
<1>3. ASSUME NEW e, LifeOK(e), e.retries \in Nat, e.age \in Nat PROVE LifeOK(T!Aged(e))
  <2>1. /\ T!Aged(e).retries = e.retries /\ T!Aged(e).age \in {e.age, e.age + 1}
        /\ T!Aged(e).life = IF e.life < LifeCap THEN e.life + 1 ELSE e.life
    BY ZenonT(30) DEF T!Aged, T!Older
  <2>2. Waited(e.retries) \in Nat
    BY <1>3, WaitedStep, ZenonT(30)
  <2> QED BY <1>3, <2>1, <2>2, EndToEndAssumption DEF LifeOK
<1> QED BY <1>1, <1>2, <1>3, ZenonT(30)

(* Steps keep the lives of the entries. *)
LEMMA LifeInd ==
    ASSUME InvE, LifeInv, Effect PROVE LifeInv'
<1>a. \A k \in DOMAIN inflight :
        LifeOK(inflight[k]) /\ inflight[k].retries \in Nat /\ inflight[k].age \in Nat
  <2>1. \A t : T!MaxRetries(t) \in Nat
    BY EndToEndAssumption DEF T!MaxRetries
  <2>2. \A n \in Nat : \A x \in 0 .. n : x \in Nat
    OBVIOUS
  <2> QED BY <2>1, <2>2, ZenonT(30) DEF LifeInv, InvE, EntryInv, EntryOK, T!Keys
<1>b. (\A k \in DOMAIN inflight' : LifeOK(inflight'[k])) => LifeInv'
  BY ZenonT(30) DEF LifeInv, T!Keys
<1>1. CASE UNCHANGED inflight
  BY <1>1, <1>a, <1>b, ZenonT(30)
<1>2. ASSUME NEW s \in Senders, NEW d \in T!DataPackets, Tracks(s, d) PROVE LifeInv'
  <2>1. DOMAIN inflight' = DOMAIN inflight \cup {d.key}
        /\ \A k \in DOMAIN inflight' : inflight'[k] = IF k = d.key THEN T!Entry(d) ELSE inflight[k]
    BY <1>2, ZenonT(30) DEF Tracks, T!Keys
  <2> QED BY <1>a, <1>b, <2>1, LifeSteps, ZenonT(30)
<1>3. ASSUME NEW k \in T!Keys, NEW q \in replies[Agent], Acks(k, q) PROVE LifeInv'
  <2>1. DOMAIN inflight' \subseteq DOMAIN inflight /\ \A j \in DOMAIN inflight' : inflight'[j] = inflight[j]
    BY <1>3, ZenonT(30) DEF Acks, T!Without
  <2> QED BY <1>a, <1>b, <2>1, ZenonT(30)
<1>4. ASSUME NEW C \in SUBSET T!Eligible, Retries(C) PROVE LifeInv'
  <2>1. DOMAIN inflight' \subseteq DOMAIN inflight /\ \A j \in DOMAIN inflight' :
           inflight'[j] = IF j \in C THEN T!Retried(inflight[j]) ELSE inflight[j]
    BY <1>4, ZenonT(30) DEF Retries, T!Keys
  <2>2. \A j \in C : inflight[j].age > Timeout(inflight[j].retries)
    BY ZenonT(30) DEF T!Eligible, T!Ripe, Timeout
  <2> QED BY <1>a, <1>b, <2>1, <2>2, LifeSteps, ZenonT(30)
<1>5. CASE Passes
  <2>1. DOMAIN inflight' = DOMAIN inflight /\ \A k \in DOMAIN inflight : inflight'[k] = T!Aged(inflight[k])
    BY <1>5, ZenonT(30) DEF Passes, T!Keys
  <2> QED BY <1>a, <1>b, <2>1, LifeSteps, ZenonT(30)
<1> QED
  BY <1>1, <1>2, <1>3, <1>4, <1>5, ZenonT(30)
  DEF Effect, Idles, Sends, Receives, Forgets, Restarts, agentState

(* An entry that leaves the map without an acknowledgement was past the    *)
(* timeout of its last retry.                                              *)
LEMMA LeavesSpent ==
    ASSUME InvE, Effect, acked \in Nat, acked' = acked, NEW k \in T!Keys \ DOMAIN inflight'
    PROVE  k \in T!Spent
<1>0. k \in DOMAIN inflight
  BY ZenonT(30) DEF T!Keys
<1>1. ~UNCHANGED inflight
  BY <1>0, ZenonT(30)
<1>2. \A s \in Senders, d \in T!DataPackets : ~Tracks(s, d)
  BY <1>0 DEF Tracks, T!Keys
<1>3. \A j \in T!Keys : \A q \in replies[Agent] : ~Acks(j, q)
  BY DEF Acks
<1>4. ~Passes
  BY <1>0, ZenonT(30) DEF Passes, T!Keys
<1>5. PICK C \in SUBSET T!Eligible : Retries(C)
  BY <1>1, <1>2, <1>3, <1>4, ZenonT(30)
  DEF Effect, Idles, Sends, Receives, Forgets, Restarts, agentState
<1>6. DOMAIN inflight' = T!Keys \ T!Spent
  BY <1>5, ZenonT(30) DEF Retries
<1> QED BY <1>6, ZenonT(30)

(* A datagram is given up only after all its timeouts, for any timeouts    *)
(* and retry limits, as long as the bound on the history is not reached.   *)
THEOREM GivenUpCorrect ==
    ASSUME \A t \in SendTiers : T!RTOSum(T!MaxRetries(t)) <= LifeCap
    PROVE  Spec => GivenUpOnlyAfterBackoff
<1> DEFINE Step ==
      acked' = acked =>
         \A k \in T!Keys \ DOMAIN inflight' :
            inflight[k].life >= T!RTOSum(T!MaxRetries(inflight[k].data.tier))
    Lived == LifeInv /\ acked \in Nat
<1>1. Init => Lived
  <2> SUFFICES ASSUME Init PROVE Lived
    BY ZenonT(30)
  <2>1. DOMAIN inflight = {} /\ acked = 0
    BY DEF Init
  <2> QED BY <2>1 DEF LifeInv, T!Keys
<1>2. ASSUME InvE, Lived, [Next]_vars PROVE Lived'
  <2>1. LifeInv'
    BY <1>2, NextEffect, LifeInd, ZenonT(30)
  <2>2. acked' # acked => acked' = acked + 1
    <3>1. acked' # acked => Next
      BY <1>2, ZenonT(30) DEF vars, agentVars
    <3> QED BY <1>2, <3>1, AckedByReply, ZenonT(30)
  <2>3. acked' \in Nat
    BY <1>2, <2>2
  <2> QED BY <2>1, <2>3
<1>3. ASSUME InvE, Lived, [Next]_vars PROVE Step
  <2> SUFFICES ASSUME acked' = acked, NEW k \in T!Keys \ DOMAIN inflight'
               PROVE  inflight[k].life >= T!RTOSum(T!MaxRetries(inflight[k].data.tier))
    BY ZenonT(30)
  <2> DEFINE e == inflight[k]
             m == T!MaxRetries(e.data.tier)
  <2>1. k \in T!Spent /\ k \in DOMAIN inflight
    BY <1>2, <1>3, NextEffect, LeavesSpent, ZenonT(30) DEF T!Keys
  <2>2. LifeOK(e) /\ EntryOK(e, "retransmit" \in loops) /\ e.data \in written
    BY <1>3, <2>1, ZenonT(30) DEF LifeInv, InvE, EntryInv, WireInv, T!Keys
  <2>3. e.data.tier \in SendTiers
    BY <1>3, <2>2, ZenonT(30) DEF InvE, SenderInv
  <2>4. e.retries >= m /\ e.age > Timeout(e.retries)
    BY <2>1, ZenonT(30) DEF T!Spent, T!Ripe, Timeout
  <2>5. T!RTOSum(m) <= LifeCap
    BY <2>3, ZenonT(30)
  <2>6. m \in Nat
    BY EndToEndAssumption DEF T!MaxRetries
  <2>7. e.retries \in 0 .. m /\ e.age \in Nat
    BY <2>2, ZenonT(30) DEF EntryOK
  <2> HIDE DEF e, m
  <2>8. e.retries = m
    BY <2>4, <2>6, <2>7
  <2>9. /\ Waited(m) \in Nat /\ Waited(m + 1) = Waited(m) + Timeout(m) + 1
        /\ Waited(m + 1) = T!RTOSum(m)
    <3>1. Waited(m + 1) = T!RTOSum(m)
      BY <2>6 DEF Waited
    <3> QED BY <2>6, <3>1, WaitedStep, ZenonT(30)
  <2>10. Timeout(m) \in Nat
    BY <2>6, RTOType, ZenonT(30) DEF Timeout
  <2>11. e.life >= T!RTOSum(m)
    BY <2>2, <2>4, <2>5, <2>7, <2>8, <2>9, <2>10, EndToEndAssumption DEF LifeOK
  <2> QED BY <2>11 DEF e, m
<1> QED
  BY <1>1, <1>2, <1>3, InvEInvariant, PTL
  DEF Spec, GivenUpOnlyAfterBackoff, T!GivenUpOnlyAfterBackoff

-----------------------------------------------------------------------------
(* Transmission r of a datagram is at most D[r] ticks after the first, if  *)
(* every timeout is followed by a tick of retransmitLoop at once.          *)
Schedule(D) ==
    /\ D \in [Nat -> Nat]
    /\ \A t \in SendTiers : \A r \in 0 .. T!MaxRetries(t) - 1 :
         D[r] + T!ComputeRTO(BaseRTO, MaxRTO, r) + 1 <= D[r + 1]

(* All transmissions of a datagram fall into the time its content id is    *)
(* remembered.                                                             *)
Remembered(D) == \A t \in SendTiers : \A r \in 0 .. T!MaxRetries(t) : D[r] <= TTL

(* A retry comes soon enough after the acceptance n ticks ago. *)
LEMMA RetryInTime ==
    ASSUME NEW D, Schedule(D), Remembered(D), NEW t \in SendTiers, NEW r \in Nat,
           r < T!MaxRetries(t), NEW age \in Nat,
           age <= T!ComputeRTO(BaseRTO, MaxRTO, r) + 1,
           NEW n \in Nat, n <= D[r] + age
    PROVE  n <= D[r + 1] /\ n <= TTL
<1>1. T!MaxRetries(t) \in Nat
  BY EndToEndAssumption, ZenonT(30) DEF T!MaxRetries
<1>2. r \in 0 .. T!MaxRetries(t) - 1 /\ r + 1 \in 0 .. T!MaxRetries(t)
  BY <1>1
<1>3. D[r] + T!ComputeRTO(BaseRTO, MaxRTO, r) + 1 <= D[r + 1] /\ D[r + 1] <= TTL
  BY <1>2, ZenonT(30) DEF Schedule, Remembered
<1>4. D[r] \in Nat /\ D[r + 1] \in Nat /\ T!ComputeRTO(BaseRTO, MaxRTO, r) \in Nat
  BY RTOType DEF Schedule
<1>5. TTL \in Nat
  BY EndToEndAssumption, ZenonT(30)
<1>6. \A d, e, t0 \in Nat : (n <= d + age /\ age <= t0 + 1 /\ d + t0 + 1 <= e) => n <= e
  OBVIOUS
<1>7. \A d, e \in Nat : (n <= d /\ d <= e) => n <= e
  OBVIOUS
<1> QED
  BY <1>3, <1>4, <1>5, <1>6, <1>7, ZenonT(30)

(* What the invariants say of an entry. *)
LEMMA EntryFacts ==
    ASSUME InvE, NEW k \in DOMAIN inflight, NEW D, Schedule(D)
    PROVE  /\ inflight[k].retries \in Nat /\ inflight[k].age \in Nat
           /\ inflight[k].data \in written /\ inflight[k].data.tier \in SendTiers
           /\ D[inflight[k].retries] \in Nat
           /\ "retransmit" \in loops => inflight[k].age
                <= T!ComputeRTO(BaseRTO, MaxRTO, inflight[k].retries) + 1
<1>1. T!MaxRetries(inflight[k].data.tier) \in Nat
  BY EndToEndAssumption, ZenonT(30) DEF T!MaxRetries
<1>2. /\ inflight[k].retries \in 0 .. T!MaxRetries(inflight[k].data.tier)
      /\ inflight[k].age \in Nat
      /\ "retransmit" \in loops => inflight[k].age
           <= T!ComputeRTO(BaseRTO, MaxRTO, inflight[k].retries) + 1
  BY ZenonT(30) DEF InvE, EntryInv, EntryOK, T!Keys
<1>3. inflight[k].retries \in Nat
  BY <1>1, <1>2
<1>4. inflight[k].data \in written /\ inflight[k].data.tier \in SendTiers
  BY ZenonT(30) DEF InvE, SenderInv, WireInv, T!Keys
<1> QED BY <1>2, <1>3, <1>4, ZenonT(30) DEF Schedule

(* A step that adds nothing to the wire, the senders or the map. *)
LEMMA TimeKept ==
    ASSUME NEW p, NEW D, PayloadInv(p, D),
           UNCHANGED <<written, accepted, lastAccepted, restarts>>,
           OnWire' \subseteq OnWire, loops' \subseteq loops,
           \A s \in Senders : current'[s] \subseteq current[s],
           DOMAIN inflight' \subseteq DOMAIN inflight,
           \A k \in DOMAIN inflight' : inflight'[k] = inflight[k]
    PROVE  PayloadInv(p, D)'
<1>1. Recent(p, D) => Recent(p, D)'
  BY ZenonT(30) DEF Recent, OnWire, T!Keys
<1>2. (Counted(p) => Counted(p)') /\ (SentOnce(p)' => SentOnce(p))
  BY ZenonT(30) DEF Counted, SentOnce
<1> QED BY <1>1, <1>2, ZenonT(30) DEF PayloadInv

(* A datagram is written: its payload was never sent, or is sent again. *)
LEMMA TimeSends ==
    ASSUME InvE, NEW D, NEW p \in Payloads, PayloadInv(p, D),
           NEW s \in Senders, NEW d \in T!DataPackets, Sends(s, d)
    PROVE  PayloadInv(p, D)'
<1>1. /\ written' = written \cup {d} /\ OnWire' = OnWire \cup {d}
      /\ UNCHANGED <<inflight, loops, accepted, lastAccepted, restarts>>
  BY ZenonT(30) DEF Sends, serverState
<1>2. \A u \in Senders : current'[u] \subseteq current[u] \cup {d}
  BY ZenonT(30) DEF Sends, InvE, WireInv
<1>3. SentOnce(p)' => SentOnce(p)
  BY <1>1, ZenonT(30) DEF SentOnce
<1>4. Counted(p) => Counted(p)'
  BY <1>1, ZenonT(30) DEF Counted
<1>5. CASE p # d.payload
  <2>1. Recent(p, D) => Recent(p, D)'
    BY <1>1, <1>2, <1>5, ZenonT(30) DEF Recent, OnWire, T!Keys
  <2> QED BY <1>1, <1>3, <1>4, <2>1, ZenonT(30) DEF PayloadInv
<1>6. CASE p = d.payload
  <2>1. \A x \in written : x.key \in Nat /\ x.key <= seqCounter
    <3>1. \A n \in 1 .. MaxSends : n \in Nat
      BY EndToEndAssumption
    <3> QED BY <3>1, ZenonT(30) DEF InvE, WireInv, T!DataPackets, T!Key
  <2>2. d.key = seqCounter + 1 /\ seqCounter \in Nat
    BY EndToEndAssumption DEF Sends, InvE, WireInv
  <2>3. d \notin written
    BY <2>1, <2>2
  <2>4. SentOnce(p)' => \A x \in written : x.payload # p
    BY <1>1, <1>6, <2>3, ZenonT(30) DEF SentOnce
  <2>5. SentOnce(p)' => accepted[p] = 0
    BY <2>4, ZenonT(30) DEF PayloadInv
  <2>6. p \in DOMAIN lastAccepted => accepted[p] > 0
    BY ZenonT(30) DEF InvE, DedupInv
  <2>7. SentOnce(p)' => p \notin DOMAIN lastAccepted
    BY <2>5, <2>6
  <2> QED BY <1>1, <1>3, <1>4, <1>6, <2>7, ZenonT(30) DEF PayloadInv
<1> QED BY <1>5, <1>6

(* An entry is made for a datagram written in this tick. *)
LEMMA TimeTracks ==
    ASSUME InvE, NEW D, Schedule(D), NEW p \in Payloads, PayloadInv(p, D),
           NEW s \in Senders, NEW d \in T!DataPackets, Tracks(s, d)
    PROVE  PayloadInv(p, D)'
<1>1. UNCHANGED <<OnWire, written, loops, accepted, lastAccepted, restarts>> /\ d \in current[s]
  BY ZenonT(30) DEF Tracks, serverState
<1>2. \A u \in Senders : current'[u] \subseteq current[u]
  BY ZenonT(30) DEF Tracks, InvE, WireInv
<1>3. DOMAIN inflight' = DOMAIN inflight \cup {d.key}
      /\ \A k \in DOMAIN inflight' : inflight'[k] = IF k = d.key THEN T!Entry(d) ELSE inflight[k]
  BY ZenonT(30) DEF Tracks, T!Keys
<1>4. T!Entry(d).data = d /\ T!Entry(d).retries = 0 /\ T!Entry(d).age = 0
  BY DEF T!Entry
<1>5. 0 <= D[0] + 0
  BY DEF Schedule
<1>6. Recent(p, D) => Recent(p, D)'
  BY <1>1, <1>2, <1>3, <1>4, <1>5, ZenonT(30) DEF Recent, OnWire, T!Keys
<1>7. (Counted(p) => Counted(p)') /\ (SentOnce(p)' => SentOnce(p))
  BY <1>1, ZenonT(30) DEF Counted, SentOnce
<1> QED BY <1>1, <1>6, <1>7, ZenonT(30) DEF PayloadInv

(* Entries are retried in time. *)
LEMMA TimeRetries ==
    ASSUME InvE, NEW D, Schedule(D), Remembered(D), NEW p \in Payloads, PayloadInv(p, D),
           NEW C \in SUBSET T!Eligible, Retries(C)
    PROVE  PayloadInv(p, D)'
<1>1. DOMAIN inflight' \subseteq DOMAIN inflight /\ \A j \in DOMAIN inflight' :
         inflight'[j] = IF j \in C THEN T!Retried(inflight[j]) ELSE inflight[j]
  BY ZenonT(30) DEF Retries, T!Keys
<1>2. /\ UNCHANGED <<written, loops, current, accepted, lastAccepted, restarts>>
      /\ "retransmit" \in loops /\ OnWire' \subseteq OnWire \cup {inflight[k].data : k \in C}
  BY ZenonT(30) DEF Retries, serverState
<1>3. ASSUME p \in DOMAIN lastAccepted, Recent(p, D), NEW j \in C, inflight[j].data.payload = p
      PROVE  /\ lastAccepted[p] <= TTL
             /\ lastAccepted[p] <= D[T!Retried(inflight[j]).retries] + T!Retried(inflight[j]).age
  <2>1. j \in DOMAIN inflight /\ ~(inflight[j].retries >= T!MaxRetries(inflight[j].data.tier))
    BY ZenonT(30) DEF T!Eligible, T!Spent, T!Ripe, T!Keys
  <2>2. lastAccepted[p] \in Nat
    BY <1>3, ZenonT(30) DEF InvE, DedupInv
  <2>3. lastAccepted[p] <= D[inflight[j].retries] + inflight[j].age
    BY <1>2, <1>3, <2>1, ZenonT(30) DEF Recent, T!Keys
  <2>4. T!MaxRetries(inflight[j].data.tier) \in Nat
    BY EndToEndAssumption, ZenonT(30) DEF T!MaxRetries
  <2>5. /\ inflight[j].retries \in Nat /\ inflight[j].age \in Nat
        /\ inflight[j].data.tier \in SendTiers
        /\ inflight[j].age <= T!ComputeRTO(BaseRTO, MaxRTO, inflight[j].retries) + 1
    BY <1>2, <2>1, EntryFacts, ZenonT(30)
  <2>6. inflight[j].retries < T!MaxRetries(inflight[j].data.tier)
    <3>1. \A x, y \in Nat : ~(x >= y) => x < y
      OBVIOUS
    <3> QED BY <2>1, <2>4, <2>5, <3>1, ZenonT(30)
  <2>7. lastAccepted[p] <= D[inflight[j].retries + 1] /\ lastAccepted[p] <= TTL
    BY <2>2, <2>3, <2>5, <2>6, RetryInTime, ZenonT(30)
  <2>8. T!Retried(inflight[j]).retries = inflight[j].retries + 1
        /\ T!Retried(inflight[j]).age = 0
    BY ZenonT(30) DEF T!Retried
  <2>9. D[inflight[j].retries + 1] \in Nat
    BY <2>5 DEF Schedule
  <2> QED BY <2>2, <2>7, <2>8, <2>9
<1>4. \A j \in C : T!Retried(inflight[j]).data = inflight[j].data
  BY ZenonT(30) DEF T!Retried
<1>5. p \in DOMAIN lastAccepted /\ Recent(p, D) => Recent(p, D)'
  <2> SUFFICES ASSUME p \in DOMAIN lastAccepted, Recent(p, D) PROVE Recent(p, D)'
    BY ZenonT(30)
  <2>1. \A d \in OnWire' : d.payload = p => lastAccepted'[p] <= TTL
    BY <1>2, <1>3, ZenonT(30) DEF Recent, OnWire
  <2>2. \A k \in DOMAIN inflight' : inflight'[k].data.payload = p
          => lastAccepted'[p] <= D[inflight'[k].retries] + inflight'[k].age
    BY <1>1, <1>2, <1>3, <1>4, ZenonT(30) DEF Recent, T!Keys
  <2>3. \A u \in Senders : \A d \in current'[u] : d.payload = p => lastAccepted'[p] = 0
    BY <1>2, ZenonT(30) DEF Recent
  <2> QED BY <2>1, <2>2, <2>3, ZenonT(30) DEF Recent, OnWire, T!Keys
<1>6. (Counted(p) => Counted(p)') /\ (SentOnce(p)' => SentOnce(p))
  BY <1>2, ZenonT(30) DEF Counted, SentOnce
<1> QED BY <1>2, <1>5, <1>6, ZenonT(30) DEF PayloadInv

(* A copy arrives: the payload is remembered, or was not accepted before   *)
(* in this life of the server.                                             *)
LEMMA TimeReceives ==
    ASSUME InvE, NEW D, Schedule(D), NEW p \in Payloads, PayloadInv(p, D),
           NEW d \in OnWire, Receives(d)
    PROVE  PayloadInv(p, D)'
<1>1. UNCHANGED <<OnWire, written, loops, current, inflight, restarts>>
  BY ZenonT(30) DEF Receives, agentState
<1>2. d \in written /\ d.payload \in Payloads
  BY ZenonT(30) DEF OnWire, InvE, WireInv, T!DataPackets
<1>3. restarts \in Nat /\ accepted \in [Payloads -> Nat]
  BY ZenonT(30) DEF InvE, DedupInv
<1>4. accepted' = [accepted EXCEPT ![d.payload] = @ + IF d.payload \in DOMAIN dedup THEN 0 ELSE 1]
  BY ZenonT(30) DEF Receives, Accepted
<1>5. SentOnce(p)' => SentOnce(p)
  BY <1>1, ZenonT(30) DEF SentOnce
<1>6. CASE d.payload \in DOMAIN dedup
  <2>1. UNCHANGED lastAccepted
    BY <1>6, ZenonT(30) DEF Receives
  <2>2. UNCHANGED accepted
    BY <1>3, <1>4, <1>6
  <2> QED BY <1>1, <2>1, <2>2, TimeKept, ZenonT(30)
<1>7. CASE d.payload \notin DOMAIN dedup
  <2>1. lastAccepted' = R!Put(lastAccepted, d.payload, 0)
    BY <1>7, ZenonT(30) DEF Receives
  <2>2. DOMAIN lastAccepted' = DOMAIN lastAccepted \cup {d.payload}
        /\ \A x \in DOMAIN lastAccepted' :
             lastAccepted'[x] = IF x = d.payload THEN 0 ELSE lastAccepted[x]
    BY <2>1, ZenonT(30) DEF R!Put
  <2>3. CASE p # d.payload
    <3>1. accepted'[p] = accepted[p] /\ (p \in DOMAIN lastAccepted' <=> p \in DOMAIN lastAccepted)
      BY <1>3, <1>4, <2>2, <2>3, ZenonT(30)
    <3>2. p \in DOMAIN lastAccepted => lastAccepted'[p] = lastAccepted[p]
      BY <2>2, <2>3, ZenonT(30)
    <3>3. p \in DOMAIN lastAccepted /\ Recent(p, D) => Recent(p, D)'
      BY <1>1, <3>2, ZenonT(30) DEF Recent, OnWire, T!Keys
    <3>4. Counted(p) => Counted(p)'
      BY <1>1, <3>1, ZenonT(30) DEF Counted
    <3> QED BY <1>1, <1>5, <3>1, <3>3, <3>4, ZenonT(30) DEF PayloadInv
  <2>4. CASE p = d.payload
    <3>1. accepted'[p] = accepted[p] + 1 /\ lastAccepted'[p] = 0 /\ p \in DOMAIN lastAccepted'
      BY <1>3, <1>4, <1>7, <2>2, <2>4, ZenonT(30)
    <3>2. SentOnce(p) /\ p \in DOMAIN lastAccepted => lastAccepted[p] <= TTL
      BY <2>4, ZenonT(30) DEF PayloadInv, Recent, OnWire
    <3>3. SentOnce(p) => p \notin DOMAIN lastAccepted
      BY <1>7, <2>4, <3>2, ZenonT(30) DEF InvE, DedupInv
    <3>4. SentOnce(p) => accepted[p] <= restarts
      BY <3>3, ZenonT(30) DEF PayloadInv, Counted
    <3>5. SentOnce(p) => Counted(p)'
      BY <1>1, <1>3, <3>1, <3>4 DEF Counted
    <3>6. \A k \in DOMAIN inflight : 0 <= D[inflight[k].retries] + inflight[k].age
      BY EntryFacts
    <3>7. 0 <= TTL
      BY EndToEndAssumption
    <3>8. Recent(p, D)'
      BY <1>1, <3>1, <3>6, <3>7, ZenonT(30) DEF Recent, OnWire, T!Keys
    <3> QED BY <1>1, <1>2, <1>5, <2>4, <3>5, <3>8, ZenonT(30) DEF PayloadInv
  <2> QED BY <2>3, <2>4, ZenonT(30)
<1> QED BY <1>6, <1>7, ZenonT(30)

(* The server loses its memory, but also begins another life. *)
LEMMA TimeRestarts ==
    ASSUME InvE, NEW D, NEW p \in Payloads, PayloadInv(p, D), Restarts
    PROVE  PayloadInv(p, D)'
<1>1. DOMAIN lastAccepted' = {} /\ restarts' = restarts + 1 /\ UNCHANGED <<written, accepted>>
  BY ZenonT(30) DEF Restarts, R!Empty, agentState
<1>2. restarts \in Nat /\ accepted[p] \in Nat
  BY ZenonT(30) DEF InvE, DedupInv
<1>3. Counted(p) => Counted(p)'
  BY <1>1, <1>2 DEF Counted
<1>4. SentOnce(p)' => SentOnce(p)
  BY <1>1, ZenonT(30) DEF SentOnce
<1> QED BY <1>1, <1>3, <1>4, ZenonT(30) DEF PayloadInv

(* Time passes for the entries as for the server. *)
LEMMA TimePasses ==
    ASSUME InvE, NEW D, Schedule(D), NEW p \in Payloads, PayloadInv(p, D), Passes
    PROVE  PayloadInv(p, D)'
<1>1. /\ OnWire' = {} /\ UNCHANGED <<written, loops, current, accepted, restarts>>
      /\ DOMAIN lastAccepted' = DOMAIN lastAccepted
      /\ \A x \in DOMAIN lastAccepted : lastAccepted'[x] = R!Older(lastAccepted[x])
  BY ZenonT(30) DEF Passes
<1>2. \A s \in Senders : current[s] = {}
  BY ZenonT(30) DEF Passes, T!Inserting, InvE, SenderInv
<1>3. ASSUME p \in DOMAIN lastAccepted, Recent(p, D), "retransmit" \in loops,
             NEW k \in DOMAIN inflight', inflight'[k].data.payload = p
      PROVE  lastAccepted'[p] <= D[inflight'[k].retries] + inflight'[k].age
  <2> DEFINE e == inflight[k]
             rto == T!ComputeRTO(BaseRTO, MaxRTO, e.retries)
  <2>1. k \in DOMAIN inflight /\ inflight'[k] = T!Aged(e)
    BY <1>3, ZenonT(30) DEF Passes, T!Keys
  <2>2. ~(e.age > rto)
    BY <1>3, <2>1, ZenonT(30) DEF Passes, T!Ripe, T!Keys
  <2>3. e.retries \in Nat /\ e.age \in Nat /\ D[e.retries] \in Nat
    BY <2>1, EntryFacts, ZenonT(30)
  <2>4. rto \in Nat /\ rto <= MaxRTO + BaseRTO
    BY <2>3, RTOType, ZenonT(30)
  <2> HIDE DEF e, rto
  <2>5. e.age < MaxRTO + BaseRTO + 1
    BY <2>2, <2>3, <2>4, EndToEndAssumption
  <2>6. T!Aged(e).data = e.data /\ T!Aged(e).retries = e.retries /\ T!Aged(e).age = e.age + 1
    BY <2>5, ZenonT(30) DEF T!Aged, T!Older
  <2>7. lastAccepted[p] <= D[e.retries] + e.age
    BY <1>3, <2>1, <2>6, ZenonT(30) DEF Recent, T!Keys, e
  <2>8. lastAccepted[p] \in Nat
    BY <1>3, ZenonT(30) DEF InvE, DedupInv
  <2>9. lastAccepted'[p] \in Nat /\ lastAccepted'[p] <= lastAccepted[p] + 1
    BY <1>1, <1>3, <2>8, EndToEndAssumption DEF R!Older
  <2> QED BY <2>1, <2>3, <2>6, <2>7, <2>8, <2>9
<1>4. p \in DOMAIN lastAccepted /\ Recent(p, D) => Recent(p, D)'
  BY <1>1, <1>2, <1>3, ZenonT(30) DEF Recent, OnWire, T!Keys
<1>5. (Counted(p) => Counted(p)') /\ (SentOnce(p)' => SentOnce(p))
  BY <1>1, ZenonT(30) DEF Counted, SentOnce
<1> QED BY <1>1, <1>4, <1>5, ZenonT(30) DEF PayloadInv

(* Steps keep the bound on the time since a payload was accepted. *)
LEMMA TimeInd ==
    ASSUME NEW D, Schedule(D), Remembered(D), InvE, TimeInv(D), Effect
    PROVE  TimeInv(D)'
<1> SUFFICES ASSUME NEW p \in Payloads PROVE PayloadInv(p, D)'
  BY ZenonT(30) DEF TimeInv
<1>0. PayloadInv(p, D)
  BY DEF TimeInv
<1>1. CASE Idles
  BY <1>0, <1>1, TimeKept, ZenonT(30) DEF Idles, serverState
<1>2. ASSUME NEW k \in T!Keys, NEW q \in replies[Agent], Acks(k, q) PROVE PayloadInv(p, D)'
  <2>1. DOMAIN inflight' \subseteq DOMAIN inflight /\ \A j \in DOMAIN inflight' : inflight'[j] = inflight[j]
    BY <1>2, ZenonT(30) DEF Acks, T!Without
  <2>2. UNCHANGED <<OnWire, written, loops, current, accepted, lastAccepted, restarts>>
    BY <1>2, ZenonT(30) DEF Acks, serverState
  <2> QED BY <1>0, <2>1, <2>2, TimeKept, ZenonT(30)
<1>3. CASE Forgets
  BY <1>0, <1>3, TimeKept, ZenonT(30) DEF Forgets, agentState
<1> QED
  BY <1>0, <1>1, <1>2, <1>3, TimeSends, TimeTracks, TimeRetries, TimeReceives,
     TimeRestarts, TimePasses, ZenonT(30) DEF Effect

(* A payload sent in one datagram is stored at most once in a life of the  *)
(* server, for any number of senders and datagrams, whatever is lost,      *)
(* repeated or reordered, if the timeouts of all retries together do not   *)
(* exceed the time dedup remembers a content id.                           *)
THEOREM StoredOnceCorrect ==
    ASSUME \A t \in SendTiers : \A r \in 0 .. T!MaxRetries(t) : Waited(r) <= TTL
    PROVE  Spec => []StoredOnce
<1>0. PICK D : Schedule(D) /\ Remembered(D)
  <2> DEFINE W == [r \in Nat |-> Waited(r)]
  <2>1. \A t \in SendTiers : T!MaxRetries(t) \in Nat
    BY EndToEndAssumption DEF T!MaxRetries
  <2>2. \A r \in Nat : Waited(r) \in Nat /\ Waited(r + 1) = Waited(r) + Timeout(r) + 1
    BY WaitedStep, ZenonT(30)
  <2>3. \A r \in Nat : Timeout(r) \in Nat
    BY RTOType, ZenonT(30) DEF Timeout
  <2>4. Schedule(W)
    BY <2>1, <2>2, <2>3 DEF Schedule, Timeout
  <2>5. Remembered(W)
    BY <2>1 DEF Remembered
  <2> QED BY <2>4, <2>5, ZenonT(30)
<1>1. ASSUME Init PROVE TimeInv(D)
  <2>1. accepted = [p \in Payloads |-> 0] /\ DOMAIN lastAccepted = {} /\ restarts = 0
    BY <1>1, ZenonT(30) DEF Init, R!Init, R!Empty
  <2> QED BY <2>1 DEF TimeInv, PayloadInv, Counted
<1>2. ASSUME InvE, TimeInv(D), [Next]_vars PROVE TimeInv(D)'
  BY <1>0, <1>2, NextEffect, TimeInd, ZenonT(30)
<1>3. ASSUME InvE, TimeInv(D) PROVE StoredOnce
  <2>1. \A x, y \in Nat : x <= y => x <= 1 + y
    OBVIOUS
  <2>2. \A q \in Payloads : accepted[q] \in Nat /\ restarts \in Nat
    BY <1>3, ZenonT(30) DEF InvE, DedupInv
  <2> QED BY <1>3, <2>1, <2>2, ZenonT(30) DEF TimeInv, PayloadInv, Counted, StoredOnce
<1> QED
  BY <1>1, <1>2, <1>3, InvEInvariant, PTL DEF Spec

(* The same for the reliable tier as the code configures it, with three    *)
(* retries (reliableMaxRetries): it is enough that the first three         *)
(* timeouts, and the ticks that end them, fit into the time to live.       *)
COROLLARY ReliableStoredOnce ==
    ASSUME "guaranteed" \notin SendTiers, ReliableRetries = 3,
           T!ComputeRTO(BaseRTO, MaxRTO, 0) + T!ComputeRTO(BaseRTO, MaxRTO, 1)
             + T!ComputeRTO(BaseRTO, MaxRTO, 2) + 3 <= TTL
    PROVE  Spec => []StoredOnce
<1>1. Timeout(0) \in Nat /\ Timeout(1) \in Nat /\ Timeout(2) \in Nat
  <2>1. 0 \in Nat /\ 1 \in Nat /\ 2 \in Nat
    OBVIOUS
  <2> QED BY <2>1, RTOType, ZenonT(30) DEF Timeout
<1>2. Timeout(0) + Timeout(1) + Timeout(2) + 3 <= TTL
  BY DEF Timeout
<1>3. Waited(0) = 0 /\ Waited(1) = Waited(0) + Timeout(0) + 1
  BY WaitedStep
<1>4. Waited(2) = Waited(1) + Timeout(1) + 1 /\ Waited(3) = Waited(2) + Timeout(2) + 1
  <2>1. Waited(1 + 1) = Waited(1) + Timeout(1) + 1 /\ Waited(2 + 1) = Waited(2) + Timeout(2) + 1
    BY WaitedStep, ZenonT(30)
  <2> QED BY <2>1
<1>5. \A r \in 0 .. 3 : Waited(r) <= TTL
  <2>1. TTL \in Nat
    BY EndToEndAssumption, ZenonT(30)
  <2>2. Waited(0) <= TTL /\ Waited(1) <= TTL /\ Waited(2) <= TTL /\ Waited(3) <= TTL
    BY <1>1, <1>2, <1>3, <1>4, <2>1
  <2>3. \A r \in 0 .. 3 : r = 0 \/ r = 1 \/ r = 2 \/ r = 3
    OBVIOUS
  <2> QED BY <2>2, <2>3, ZenonT(30)
<1>6. \A t \in SendTiers : T!MaxRetries(t) = 3
  BY ZenonT(30) DEF T!MaxRetries
<1> QED
  BY <1>5, <1>6, StoredOnceCorrect, ZenonT(30)
===============================================================================
