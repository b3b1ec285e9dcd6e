---------------------------- MODULE ReceiverProofs ----------------------------
(* What the receiver guarantees for every set of peers and payloads and    *)
(* every choice of its time limits.                                        *)
EXTENDS Receiver, TLAPS

(* The cases of a step, one per handler, collector and outside event. *)
Cases ==
    \/ \E from \in Peers : HandleHandshake(from) \/ HandleKeepalive(from)
                             \/ HandleMetrics(from) \/ HandleFIN(from)
    \/ \E from \in Peers, d \in Datagrams :
          HandleData(from, d) \/ HandleMTUProbe(from, d)
    \/ DedupGC \/ SessionGC \/ SetIngestAllowed \/ Restart
    \/ Elapse /\ UNCHANGED replies
    \/ UNCHANGED vars

(* Every step is one of the cases. *)
LEMMA StepCases == [Next]_vars => Cases
  BY DEF Next, Peer, Cases

(* The clocks stay within their periods. *)
LEMMA ClocksInductive == ClocksOK /\ [Next]_vars => ClocksOK'
  <1> SUFFICES ASSUME ClocksOK, Cases PROVE ClocksOK'
      BY StepCases
  <1> USE ReceiverAssumption DEF ClocksOK
  <1>1. ASSUME NEW from \in Peers,
               HandleHandshake(from) \/ HandleKeepalive(from)
                 \/ HandleMetrics(from) \/ HandleFIN(from)
        PROVE  ClocksOK'
      BY <1>1, ZenonT(30) DEF HandleHandshake, HandleKeepalive, HandleMetrics, HandleFIN, clocks,
                  history
  <1>2. ASSUME NEW from \in Peers, NEW d \in Datagrams,
               HandleData(from, d) \/ HandleMTUProbe(from, d)
        PROVE  ClocksOK'
      BY <1>2 DEF HandleData, HandleMTUProbe, clocks, history
  <1>3. CASE DedupGC \/ SessionGC
      BY <1>3 DEF DedupGC, SessionGC, history
  <1>4. CASE SetIngestAllowed \/ Restart \/ Elapse \/ UNCHANGED vars
      BY <1>4 DEF SetIngestAllowed, Restart, Elapse, vars, clocks, history
  <1> QED
      BY <1>1, <1>2, <1>3, <1>4 DEF Cases

(* What handleData may do to the dedup map and its history. *)
DedupStep ==
    \/ UNCHANGED <<dedup, lastAccepted, repeats>>
    \/ \E id \in Ids :
         /\ id \notin DOMAIN dedup
         /\ dedup' = Put(dedup, id, 0)
         /\ lastAccepted' = Put(lastAccepted, id, 0)
         /\ repeats' = IF id \in DOMAIN lastAccepted /\ lastAccepted[id] <= TTL
                         THEN repeats \cup {id} ELSE repeats

(* handleData touches the dedup map only through isDuplicate. *)
LEMMA DataDedup ==
    ASSUME NEW from \in Peers, NEW d \in Datagrams, HandleData(from, d)
    PROVE  DedupStep
  <1>1. d.payload \in Payloads
      BY DEF Datagrams
  <1>2. ContentId[d.payload] \in Ids
      BY <1>1 DEF Ids
  <1> QED
      BY <1>2, Zenon DEF HandleData, Accept, DedupStep

(* dedupGC forgets a content id only after TTL, and isDuplicate knows the *)
(* others: the history and the map agree after every step.                *)
LEMMA DedupInductive ==
    ClocksOK /\ DedupOK /\ [Next]_vars => DedupOK'
  <1> SUFFICES ASSUME ClocksOK, DedupOK, Cases PROVE DedupOK'
      BY StepCases
  <1> USE ReceiverAssumption DEF ClocksOK, DedupOK
  <1>1. CASE UNCHANGED <<dedup, lastAccepted, repeats, gcClock>>
      BY <1>1
  <1>2. ASSUME NEW from \in Peers,
               HandleHandshake(from) \/ HandleKeepalive(from)
                 \/ HandleMetrics(from) \/ HandleFIN(from)
        PROVE  DedupOK'
      BY <1>1, <1>2, ZenonT(30)
      DEF HandleHandshake, HandleKeepalive, HandleMetrics, HandleFIN, clocks,
          history, accounts
  <1>3. ASSUME NEW from \in Peers, NEW d \in Datagrams,
               HandleData(from, d) \/ HandleMTUProbe(from, d)
        PROVE  DedupOK'
    <2>1. CASE HandleMTUProbe(from, d)
        BY <1>1, <2>1 DEF HandleMTUProbe, clocks, history, accounts, memory
    <2>2. CASE HandleData(from, d)
      <3>1. DedupStep /\ gcClock' = gcClock
          BY <2>2, DataDedup, ZenonT(30) DEF HandleData, clocks
      <3>2. ASSUME NEW id \in Ids, id \notin DOMAIN dedup,
                   dedup' = Put(dedup, id, 0),
                   lastAccepted' = Put(lastAccepted, id, 0),
                   repeats' = IF id \in DOMAIN lastAccepted /\ lastAccepted[id] <= TTL
                                THEN repeats \cup {id} ELSE repeats
            PROVE  DedupOK'
          BY <3>1, <3>2 DEF Put
      <3> QED
          BY <1>1, <3>1, <3>2 DEF DedupStep
    <2> QED
        BY <1>3, <2>1, <2>2
  <1>4. CASE DedupGC
      BY <1>4 DEF DedupGC, Drop, history, accounts
  <1>5. CASE Restart
      BY <1>5 DEF Restart, Empty
  <1>6. CASE Elapse
      BY <1>6 DEF Elapse, Older
  <1>7. CASE SessionGC \/ SetIngestAllowed \/ UNCHANGED vars
      BY <1>1, <1>7 DEF SessionGC, SetIngestAllowed, vars, clocks, history,
                        accounts, memory
  <1> QED
      BY <1>2, <1>3, <1>4, <1>5, <1>6, <1>7 DEF Cases

(* The sessions handleData leaves: those touched, one perhaps tagged. *)
SessionStep(from) ==
    \/ sessions' = Touched(from)
    \/ \E h \in Hosts : sessions' = [Touched(from) EXCEPT ![from].host = h]

(* Touching keeps the other sessions and makes this one young. *)
LEMMA TouchedAges ==
    ASSUME SessionsOK, ClocksOK, NEW from \in Peers, SessionStep(from),
           sessionClock' = sessionClock
    PROVE  SessionsOK'
  <1>1. /\ DOMAIN Touched(from) = DOMAIN sessions \cup {from}
        /\ \A p \in DOMAIN sessions \ {from} : Touched(from)[p] = sessions[p]
      BY DEF Touched, Put
  <1>2. Touched(from)[from] \in Sessions /\ Touched(from)[from].age = 0
    <2>1. CASE from \in DOMAIN sessions
      <3>1. Touched(from)[from] = [sessions[from] EXCEPT !.age = 0]
          BY <2>1 DEF Touched, Put
      <3>2. sessions[from] \in Sessions
          BY <2>1 DEF SessionsOK
      <3> QED
          BY <3>1, <3>2 DEF Sessions
    <2>2. CASE from \notin DOMAIN sessions
        BY <2>2 DEF Touched, Put, Session, Sessions
    <2> QED
        BY <2>1, <2>2
  <1>3. \A p \in DOMAIN Touched(from) :
           /\ Touched(from)[p] \in Sessions
           /\ Touched(from)[p].age <= SessionTTL + sessionClock
      BY <1>1, <1>2, ReceiverAssumption DEF SessionsOK, ClocksOK
  <1>4. CASE sessions' = Touched(from)
      BY <1>3, <1>4 DEF SessionsOK
  <1>5. ASSUME NEW h \in Hosts, sessions' = [Touched(from) EXCEPT ![from].host = h]
        PROVE  SessionsOK'
    <2> DEFINE tagged == [Touched(from)[from] EXCEPT !.host = h]
    <2>1. tagged \in Sessions /\ tagged.age = 0
        BY <1>2 DEF Sessions
    <2>2. DOMAIN sessions' = DOMAIN Touched(from)
        BY <1>5
    <2>3. \A p \in DOMAIN Touched(from) :
             sessions'[p] = IF p = from THEN tagged ELSE Touched(from)[p]
        BY <1>5
    <2>4. SessionTTL \in Nat /\ sessionClock \in Nat
        BY ReceiverAssumption DEF ClocksOK
    <2> HIDE DEF tagged
    <2>5. \A p \in DOMAIN sessions' :
             sessions'[p] \in Sessions /\ sessions'[p].age <= SessionTTL + sessionClock
        BY <1>3, <2>1, <2>2, <2>3, <2>4
    <2> QED
        BY <2>5 DEF SessionsOK
  <1> QED
      BY <1>4, <1>5 DEF SessionStep

(* handleData changes sessions only by touchSession and the host tag. *)
LEMMA DataSessions ==
    ASSUME NEW from \in Peers, NEW d \in Datagrams, HandleData(from, d)
    PROVE  SessionStep(from)
  <1>1. sessions' = Touched(from) \/ RouteToQueue(from, d, Touched(from))
      BY DEF HandleData, Accept
  <1>2. ASSUME RouteToQueue(from, d, Touched(from)) PROVE SessionStep(from)
    <2>1. CASE sessions' = Touched(from)
        BY <2>1 DEF SessionStep
    <2>2. CASE /\ d.payload \in Fingerprints
               /\ sessions' = [Touched(from) EXCEPT ![from].host = HostOf[d.payload]]
        BY <2>2, ZenonT(30) DEF SessionStep, Hosts
    <2> QED
        BY <1>2, <2>1, <2>2 DEF RouteToQueue, HandleFingerprintData
  <1> QED
      BY <1>1, <1>2 DEF SessionStep

(* sessionGC bounds the age of every session. *)
LEMMA SessionsInductive ==
    ClocksOK /\ SessionsOK /\ [Next]_vars => SessionsOK'
  <1> SUFFICES ASSUME ClocksOK, SessionsOK, Cases PROVE SessionsOK'
      BY StepCases
  <1> USE ReceiverAssumption DEF ClocksOK, SessionsOK, Sessions
  <1>1. ASSUME NEW from \in Peers,
               HandleHandshake(from) \/ HandleKeepalive(from)
                 \/ HandleMetrics(from) \/ HandleFIN(from)
        PROVE  SessionsOK'
    <2>1. CASE HandleHandshake(from)
        BY <2>1 DEF HandleHandshake, Put, Session, clocks
    <2>2. CASE HandleKeepalive(from) \/ HandleMetrics(from)
      <3>1. SessionStep(from) /\ sessionClock' = sessionClock
          BY <2>2 DEF HandleKeepalive, HandleMetrics, SessionStep, clocks
      <3> QED
          BY <3>1, TouchedAges
    <2>3. CASE HandleFIN(from)
        BY <2>3 DEF HandleFIN, Drop, clocks
    <2> QED
        BY <1>1, <2>1, <2>2, <2>3
  <1>2. ASSUME NEW from \in Peers, NEW d \in Datagrams,
               HandleData(from, d) \/ HandleMTUProbe(from, d)
        PROVE  SessionsOK'
    <2>1. CASE HandleMTUProbe(from, d)
        BY <2>1 DEF HandleMTUProbe, clocks, memory
    <2>2. CASE HandleData(from, d)
      <3>1. SessionStep(from) /\ sessionClock' = sessionClock
          BY <2>2, DataSessions, ZenonT(30) DEF HandleData, clocks
      <3> QED
          BY <3>1, TouchedAges
    <2> QED
        BY <1>2, <2>1, <2>2
  <1>3. CASE SessionGC
      BY <1>3 DEF SessionGC, Drop, Stale
  <1>4. CASE Restart
      BY <1>4 DEF Restart, Empty
  <1>5. CASE Elapse
      BY <1>5 DEF Elapse, OlderAll, Older
  <1>6. CASE DedupGC \/ SetIngestAllowed \/ UNCHANGED vars
      BY <1>6 DEF DedupGC, SetIngestAllowed, vars, clocks, memory
  <1> QED
      BY <1>1, <1>2, <1>3, <1>4, <1>5, <1>6 DEF Cases

(* A fragment added to a good buffer gives a good buffer, no older. *)
LEMMA BufferGood ==
    ASSUME FragmentsOK, ClocksOK, NEW d \in Datagrams, IsFragment(d)
    PROVE  /\ BufferOK(Buffer(d), ContentId[d.payload])
           /\ Buffer(d).age \in Nat /\ Buffer(d).age <= FragmentTTL + gcClock
  <1> DEFINE id == ContentId[d.payload]
             old == IF id \in DOMAIN fragments
                      THEN fragments[id] ELSE [parts |-> Empty, last |-> -1, age |-> 0]
  <1>1. /\ d.payload \in Payloads /\ Split[d.payload] \in Nat
        /\ Split[d.payload] > 0 /\ d.seq \in 0 .. Split[d.payload] - 1
      BY ReceiverAssumption DEF Datagrams, Seqs, IsFragment
  <1>2. /\ BufferOK(old, id)
        /\ old.age \in Nat /\ old.age <= FragmentTTL + gcClock
      BY ReceiverAssumption DEF FragmentsOK, BufferOK, Empty, ClocksOK
  <1>3. /\ Buffer(d).parts = Put(old.parts, d.seq, d.payload)
        /\ Buffer(d).last = IF IsLast(d) THEN d.seq ELSE old.last
        /\ Buffer(d).age = old.age
      BY DEF Buffer
  <1>4. \A i \in DOMAIN Buffer(d).parts : Part(i, Buffer(d).parts[i], id)
    <2> HIDE DEF old, id
    <2>1. ContentId[d.payload] = id
        BY DEF id
    <2> QED
        BY <1>1, <1>2, <1>3, <2>1 DEF BufferOK, Put, Part
  <1>5. \/ Buffer(d).last = -1
        \/ \E p \in Payloads :
             ContentId[p] = id /\ Split[p] > 0 /\ Buffer(d).last = Split[p] - 1
      BY <1>1, <1>2, <1>3 DEF BufferOK, IsLast
  <1> QED
      BY <1>2, <1>3, <1>4, <1>5, SMTT(30) DEF BufferOK

(* What handleData may do to the fragment buffers. *)
FragmentStep(d) ==
    LET id == ContentId[d.payload]
    IN  \/ UNCHANGED <<fragments, assembled>>
        \/ IsFragment(d) /\ fragments' = Put(fragments, id, Buffer(d)) /\ UNCHANGED assembled
        \/ /\ IsFragment(d) /\ Whole(Buffer(d))
           /\ fragments' = Drop(fragments, {id})
           /\ assembled' = assembled \cup {Buffer(d).parts}

(* handleData changes the buffers only through addFragment. *)
LEMMA DataFragments ==
    ASSUME NEW from \in Peers, NEW d \in Datagrams, HandleData(from, d)
    PROVE  FragmentStep(d)
  BY Zenon DEF HandleData, FragmentStep

(* A complete buffer of injectively hashed payloads holds one payload. *)
LEMMA WholeIsOnePayload ==
    ASSUME Injective, NEW x, NEW b, BufferOK(b, x), Whole(b)
    PROVE  \E p \in Payloads :
              DOMAIN b.parts = 0 .. Split[p] - 1 /\ \A i \in DOMAIN b.parts : b.parts[i] = p
  <1>1. PICK p \in Payloads : ContentId[p] = x /\ Split[p] > 0 /\ b.last = Split[p] - 1
      BY DEF BufferOK, Whole
  <1>2. \A i \in DOMAIN b.parts : b.parts[i] = p /\ i \in 0 .. Split[p] - 1
      BY <1>1 DEF BufferOK, Part, Injective
  <1>3. 0 .. Split[p] - 1 \subseteq DOMAIN b.parts
      BY <1>1 DEF Whole
  <1> QED
      BY <1>1, <1>2, <1>3, ZenonT(30)

(* Buffers stay good, and only whole payloads leave them for storage. *)
LEMMA FragmentsInductive ==
    ClocksOK /\ FragmentsOK /\ ReassembledWhole /\ [Next]_vars
      => FragmentsOK' /\ ReassembledWhole'
  <1> SUFFICES ASSUME ClocksOK, FragmentsOK, ReassembledWhole, Cases
               PROVE  FragmentsOK' /\ ReassembledWhole'
      BY StepCases
  <1>1. CASE UNCHANGED <<fragments, gcClock, assembled>>
      BY <1>1 DEF FragmentsOK, ReassembledWhole, Injective
  <1>2. ASSUME NEW from \in Peers,
               HandleHandshake(from) \/ HandleKeepalive(from)
                 \/ HandleMetrics(from) \/ HandleFIN(from)
        PROVE  UNCHANGED <<fragments, gcClock, assembled>>
      BY <1>2, ZenonT(30)
      DEF HandleHandshake, HandleKeepalive, HandleMetrics, HandleFIN, clocks,
          history, accounts
  <1>3. ASSUME NEW from \in Peers, NEW d \in Datagrams, HandleData(from, d)
        PROVE  FragmentsOK' /\ ReassembledWhole'
    <2> DEFINE id == ContentId[d.payload]
    <2>1. FragmentStep(d) /\ gcClock' = gcClock
        BY <1>3, DataFragments, ZenonT(30) DEF HandleData, clocks
    <2>2. CASE IsFragment(d) /\ fragments' = Put(fragments, id, Buffer(d))
                 /\ UNCHANGED assembled
      <3>1. /\ BufferOK(Buffer(d), id)
            /\ Buffer(d).age \in Nat /\ Buffer(d).age <= FragmentTTL + gcClock
          BY <2>2, BufferGood
      <3>2. Buffer(d) = [parts |-> Buffer(d).parts, last |-> Buffer(d).last,
                         age |-> Buffer(d).age]
          BY DEF Buffer
      <3>3. /\ DOMAIN fragments' = DOMAIN fragments \cup {id}
            /\ fragments'[id] = Buffer(d)
            /\ \A x \in DOMAIN fragments \ {id} : fragments'[x] = fragments[x]
          BY <2>2 DEF Put
      <3>4. FragmentsOK'
          BY <2>1, <3>1, <3>2, <3>3 DEF FragmentsOK
      <3> QED
          BY <2>2, <3>4 DEF ReassembledWhole, Injective
    <2>3. CASE /\ IsFragment(d) /\ Whole(Buffer(d))
               /\ fragments' = Drop(fragments, {id})
               /\ assembled' = assembled \cup {Buffer(d).parts}
      <3>1. FragmentsOK'
          BY <2>1, <2>3 DEF FragmentsOK, Drop
      <3>2. ASSUME Injective
            PROVE  \E p \in Payloads : /\ DOMAIN Buffer(d).parts = 0 .. Split[p] - 1
                                       /\ \A i \in DOMAIN Buffer(d).parts :
                                            Buffer(d).parts[i] = p
          BY <2>3, <3>2, BufferGood, WholeIsOnePayload
      <3> QED
          BY <2>3, <3>1, <3>2 DEF ReassembledWhole, Injective
    <2> QED
        BY <1>1, <2>1, <2>2, <2>3 DEF FragmentStep
  <1>4. CASE DedupGC
      BY <1>4, ReceiverAssumption
      DEF DedupGC, FragmentsOK, Drop, Stale, ReassembledWhole, Injective, history,
          accounts
  <1>5. CASE Restart
      BY <1>5 DEF Restart, Empty, FragmentsOK, ReassembledWhole, Injective
  <1>6. CASE Elapse
    <2>1. /\ DOMAIN fragments' = DOMAIN fragments
          /\ \A x \in DOMAIN fragments :
               fragments'[x] = [parts |-> fragments[x].parts, last |-> fragments[x].last,
                                age |-> Older(fragments[x].age)]
        BY <1>6 DEF Elapse, OlderAll, FragmentsOK
    <2>2. \A n \in Nat : Older(n) \in Nat /\ Older(n) <= n + 1
        BY ReceiverAssumption DEF Older
    <2>3. FragmentsOK'
      <3>1. gcClock' = gcClock + 1
          BY <1>6 DEF Elapse
      <3>2. \A x \in DOMAIN fragments : BufferOK(fragments'[x], x)
          BY <2>1 DEF FragmentsOK, BufferOK
      <3> QED
          BY <2>1, <2>2, <3>1, <3>2, ReceiverAssumption DEF FragmentsOK, ClocksOK
    <2> QED
        BY <1>6, <2>3 DEF Elapse, ReassembledWhole, Injective
  <1>7. CASE (\E from \in Peers, d \in Datagrams : HandleMTUProbe(from, d))
               \/ SessionGC \/ SetIngestAllowed \/ UNCHANGED vars
      BY <1>1, <1>7, ZenonT(30) DEF HandleMTUProbe, SessionGC, SetIngestAllowed, vars, clocks,
                        history, accounts, memory
  <1> QED
      BY <1>1, <1>2, <1>3, <1>4, <1>5, <1>6, <1>7 DEF Cases

(* Sending adds to what the peer was sent; over raw UDP it never fails. *)
LEMMA SendGrows ==
    ASSUME NEW ss, NEW from \in Peers, NEW ps, Send(ss, from, ps), DOMAIN replies = Peers
    PROVE  /\ DOMAIN replies' = Peers
           /\ \A p \in Peers : replies[p] \subseteq replies'[p]
           /\ ~ Dtls => ps \subseteq replies'[from]
  BY DEF Send, Reachable

(* ACKs sent are never taken back, and handleData sends its own. *)
LEMMA AcksInductive == AcksOK /\ [Next]_vars => AcksOK'
  <1> SUFFICES ASSUME AcksOK, Cases PROVE AcksOK'
      BY StepCases
  <1>1. ASSUME DOMAIN replies' = Peers, handled' = handled,
               \A p \in Peers : replies[p] \subseteq replies'[p]
        PROVE  AcksOK'
      BY <1>1 DEF AcksOK, AckedWhenHandled
  <1>2. CASE UNCHANGED <<replies, handled>>
      BY <1>1, <1>2 DEF AcksOK
  <1>3. ASSUME NEW from \in Peers,
               HandleHandshake(from) \/ HandleKeepalive(from)
                 \/ HandleMetrics(from) \/ HandleFIN(from)
        PROVE  AcksOK'
    <2>1. CASE HandleHandshake(from)
      <3>1. Send(sessions', from, {Control("handshake")}) /\ handled' = handled
          BY <2>1, ZenonT(30) DEF HandleHandshake, accounts
      <3> QED
          BY <1>1, <3>1, SendGrows, ZenonT(30) DEF AcksOK
    <2>2. CASE HandleKeepalive(from)
      <3>1. (\E ps : Send(sessions', from, ps)) /\ handled' = handled
          BY <2>2 DEF HandleKeepalive, history, accounts
      <3> QED
          BY <1>1, <3>1, SendGrows, ZenonT(30) DEF AcksOK
    <2>3. CASE HandleMetrics(from) \/ HandleFIN(from)
        BY <1>2, <2>3 DEF HandleMetrics, HandleFIN, history, accounts
    <2> QED
        BY <1>3, <2>1, <2>2, <2>3
  <1>4. ASSUME NEW from \in Peers, NEW d \in Datagrams, HandleMTUProbe(from, d)
        PROVE  AcksOK'
    <2>1. Send(sessions, from, {Ack(d)}) /\ handled' = handled
        BY <1>4 DEF HandleMTUProbe, history, accounts
    <2> QED
        BY <1>1, <2>1, SendGrows, ZenonT(30) DEF AcksOK
  <1>5. ASSUME NEW from \in Peers, NEW d \in Datagrams, HandleData(from, d)
        PROVE  AcksOK'
    <2>1. CASE UNCHANGED <<replies, handled>>
        BY <1>2, <2>1
    <2>2. CASE Send(Touched(from), from, {Ack(d)}) /\ handled' = handled \cup {<<from, d>>}
      <3>1. /\ DOMAIN replies' = Peers
            /\ \A p \in Peers : replies[p] \subseteq replies'[p]
            /\ ~ Dtls => Ack(d) \in replies'[from]
          BY <2>2, SendGrows, ZenonT(30) DEF AcksOK
      <3>2. ASSUME ~ Dtls, NEW h \in handled' PROVE Ack(h[2]) \in replies'[h[1]]
        <4>1. CASE h = <<from, d>>
            BY <3>1, <3>2, <4>1
        <4>2. CASE h \in handled
            BY <3>1, <3>2, <4>2 DEF AcksOK, AckedWhenHandled
        <4> QED
            BY <2>2, <3>2, <4>1, <4>2
      <3> QED
          BY <2>2, <3>1, <3>2 DEF AcksOK, AckedWhenHandled
    <2> QED
        BY <1>5, <2>1, <2>2, ZenonT(30) DEF HandleData
  <1>6. CASE DedupGC \/ SessionGC \/ SetIngestAllowed \/ Restart
               \/ (Elapse /\ UNCHANGED replies) \/ UNCHANGED vars
      BY <1>2, <1>6 DEF DedupGC, SessionGC, SetIngestAllowed, Restart, Elapse, vars,
                        history, accounts
  <1> QED
      BY <1>3, <1>4, <1>5, <1>6 DEF Cases

(* The invariant holds in every reachable state of the receiver. *)
THEOREM Invariance == Spec => []IndInv
  <1>1. Init => IndInv
      BY ReceiverAssumption
      DEF Init, IndInv, ClocksOK, DedupOK, FragmentsOK, SessionsOK, ReassembledWhole,
          AcksOK, AckedWhenHandled, Empty
  <1>2. IndInv /\ [Next]_vars => IndInv'
      BY ClocksInductive, DedupInductive, FragmentsInductive, SessionsInductive,
         AcksInductive DEF IndInv
  <1> QED
      BY <1>1, <1>2, PTL DEF Spec

(* The keys of the maps are peers, content ids and hosts. *)
KeysOK ==
    /\ DOMAIN sessions \subseteq Peers /\ DOMAIN dedup \subseteq Ids
    /\ DOMAIN fragments \subseteq Ids /\ DOMAIN configs \subseteq Hosts
    /\ DOMAIN known \subseteq Hosts /\ allowed \in BOOLEAN

(* The keys handleData adds. *)
LEMMA DataKeys ==
    ASSUME KeysOK, NEW from \in Peers, NEW d \in Datagrams, HandleData(from, d)
    PROVE  KeysOK'
  <1>0. d.payload \in Payloads /\ ContentId[d.payload] \in Ids /\ allowed' = allowed
    <2>1. PICK p \in Payloads : d \in [type : {"data"}, seq : Seqs(p), stream : {0},
                                       tier : Tiers, payload : {p}, key : {0}]
        BY DEF Datagrams
    <2>2. d.payload = p
        BY <2>1
    <2>3. allowed' = allowed
        BY Zenon DEF HandleData
    <2> QED
        BY <2>2, <2>3 DEF Ids
  <1>1. DOMAIN sessions' \subseteq Peers
    <2>1. DOMAIN Touched(from) \subseteq Peers
        BY DEF KeysOK, Touched, Put
    <2>2. SessionStep(from)
        BY DataSessions
    <2>3. DOMAIN sessions' = DOMAIN Touched(from)
        BY <2>2 DEF SessionStep
    <2> QED
        BY <2>1, <2>3
  <1>2. DOMAIN dedup' \subseteq Ids
    <2>1. DedupStep
        BY DataDedup
    <2> QED
        BY <2>1, ZenonT(40) DEF DedupStep, KeysOK, Put
  <1>3. DOMAIN fragments' \subseteq Ids
    <2>1. \/ fragments' = fragments
          \/ fragments' = Put(fragments, ContentId[d.payload], Buffer(d))
          \/ fragments' = Drop(fragments, {ContentId[d.payload]})
        BY Zenon DEF HandleData
    <2> QED
        BY <1>0, <2>1 DEF KeysOK, Put, Drop
  <1>4. \/ UNCHANGED <<known, configs>>
        \/ /\ d.payload \in Fingerprints
           /\ known' = Put(known, HostOf[d.payload], d.payload)
           /\ UNCHANGED configs \/ \E c \in Configs : configs' = Put(configs, HostOf[d.payload], c)
    <2>1. UNCHANGED <<known, configs>> \/ Accept(from, d, Touched(from))
        BY Zenon DEF HandleData
    <2>2. UNCHANGED <<known, configs>> \/ RouteToQueue(from, d, Touched(from))
        BY <2>1 DEF Accept
    <2> QED
        BY <2>2 DEF RouteToQueue, HandleFingerprintData, RunAutoplan
  <1>5. DOMAIN known' \subseteq Hosts /\ DOMAIN configs' \subseteq Hosts
    <2>1. CASE UNCHANGED <<known, configs>>
        BY <2>1 DEF KeysOK
    <2>2. CASE d.payload \in Fingerprints
      <3>1. HostOf[d.payload] \in Hosts
          BY <2>2 DEF Hosts
      <3> QED
          BY <1>4, <3>1 DEF KeysOK, Put
    <2> QED
        BY <1>4, <2>1, <2>2
  <1> QED
      BY <1>0, <1>1, <1>2, <1>3, <1>5 DEF KeysOK

(* No step adds a key of another kind. *)
LEMMA KeysInductive == KeysOK /\ [Next]_vars => KeysOK'
  <1> SUFFICES ASSUME KeysOK, Cases PROVE KeysOK'
      BY StepCases
  <1>1. ASSUME NEW from \in Peers,
               HandleHandshake(from) \/ HandleKeepalive(from)
                 \/ HandleMetrics(from) \/ HandleFIN(from)
        PROVE  KeysOK'
      BY <1>1, ZenonT(30) DEF KeysOK, HandleHandshake, HandleKeepalive, HandleMetrics, HandleFIN,
                  Touched, Put, Drop
  <1>2. ASSUME NEW from \in Peers, NEW d \in Datagrams,
               HandleData(from, d) \/ HandleMTUProbe(from, d)
        PROVE  KeysOK'
      BY <1>2, DataKeys DEF KeysOK, HandleMTUProbe, memory
  <1>3. CASE DedupGC \/ SessionGC \/ Restart \/ Elapse
      BY <1>3 DEF KeysOK, DedupGC, SessionGC, Restart, Elapse, Drop, Empty, OlderAll
  <1>4. CASE SetIngestAllowed \/ UNCHANGED vars
      BY <1>4, ZenonT(30) DEF KeysOK, SetIngestAllowed, vars, memory
  <1> QED
      BY <1>1, <1>2, <1>3, <1>4 DEF Cases

(* For all time limits and hashes: keys, ages and buffers have their types. *)
THEOREM TypeCorrect == Spec => []TypeOK
  <1>1. Init => KeysOK
      BY DEF Init, KeysOK, Empty
  <1>2. IndInv /\ KeysOK => TypeOK
    <2> SUFFICES ASSUME IndInv, KeysOK PROVE TypeOK
        OBVIOUS
    <2> USE ReceiverAssumption
    <2>1. \A p \in DOMAIN sessions :
            sessions[p] \in [age : Ages, reply : BOOLEAN, host : Hosts \cup {NoHost}]
        BY DEF IndInv, SessionsOK, Sessions, ClocksOK, Ages
    <2>2. \A x \in DOMAIN dedup : dedup[x] \in Ages
        BY DEF IndInv, DedupOK, ClocksOK, Ages
    <2>3. \A x \in DOMAIN fragments :
            /\ fragments[x].age \in Ages /\ fragments[x].last \in Nat \cup {-1}
            /\ \A i \in DOMAIN fragments[x].parts :
                 /\ fragments[x].parts[i] \in Payloads
                 /\ ContentId[fragments[x].parts[i]] = x
      <3> SUFFICES ASSUME NEW x \in DOMAIN fragments
                   PROVE  /\ fragments[x].age \in Ages /\ fragments[x].last \in Nat \cup {-1}
                          /\ \A i \in DOMAIN fragments[x].parts :
                               /\ fragments[x].parts[i] \in Payloads
                               /\ ContentId[fragments[x].parts[i]] = x
          OBVIOUS
      <3>1. BufferOK(fragments[x], x) /\ fragments[x].age \in Ages
          BY DEF IndInv, FragmentsOK, ClocksOK, Ages
      <3>2. fragments[x].last \in Nat \cup {-1}
          BY <3>1 DEF BufferOK
      <3> QED
          BY <3>1, <3>2 DEF BufferOK, Part
    <2> QED
        BY <2>1, <2>2, <2>3 DEF IndInv, ClocksOK, KeysOK, TypeOK
  <1> QED
      BY <1>1, <1>2, KeysInductive, Invariance, PTL DEF Spec

(* For every TTL and period of dedupGC: isDuplicate lets a content id pass *)
(* at most once in any TTL of one life of the process.                     *)
THEOREM NoRepeatCorrect == Spec => []NoRepeatWithinTTL
  <1>1. IndInv => NoRepeatWithinTTL
      BY DEF IndInv, DedupOK, NoRepeatWithinTTL
  <1> QED
      BY <1>1, Invariance, PTL

(* For all time limits: the collectors bound the age of every dedup entry, *)
(* fragment buffer and session.                                            *)
THEOREM RetentionCorrect == Spec => []Retention
  <1>1. IndInv => Retention
      BY ReceiverAssumption
      DEF IndInv, ClocksOK, DedupOK, FragmentsOK, SessionsOK, Sessions, Retention
  <1> QED
      BY <1>1, Invariance, PTL

(* For every way payloads are split: addFragment hands on whole payloads.  *)
THEOREM ReassemblyCorrect == Spec => []ReassembledWhole
  <1>1. IndInv => ReassembledWhole
      BY DEF IndInv
  <1> QED
      BY <1>1, Invariance, PTL

(* Over raw UDP handleData's ACKs are all sent, whatever sessionGC, a FIN  *)
(* or a restart did to the session.                                        *)
THEOREM AckedCorrect == ASSUME ~ Dtls PROVE Spec => []AckedWhenHandled
  <1>1. IndInv => AckedWhenHandled
      BY DEF IndInv, AcksOK
  <1> QED
      BY <1>1, Invariance, PTL

(* Over raw UDP a configuration leaves the map only towards a peer tagged  *)
(* with its host, or with the process.                                     *)
THEOREM ConfigSentCorrect == ASSUME ~ Dtls PROVE Spec => ConfigSent
  <1> DEFINE Fine == \A h \in DOMAIN configs \ DOMAIN configs' :
                        \/ restarts' # restarts
                        \/ \E p \in Peers :
                             /\ p \in DOMAIN sessions /\ sessions[p].host = h
                             /\ ConfigPacket(configs[h]) \in replies'[p]
  <1>1. ASSUME IndInv, [Next]_vars PROVE [Fine]_vars
    <2> SUFFICES ASSUME NEW h \in DOMAIN configs, h \notin DOMAIN configs'
                 PROVE  \/ restarts' # restarts
                        \/ \E p \in Peers :
                             /\ p \in DOMAIN sessions /\ sessions[p].host = h
                             /\ ConfigPacket(configs[h]) \in replies'[p]
        OBVIOUS
    <2>1. ASSUME NEW from \in Peers, HandleKeepalive(from)
          PROVE  /\ from \in DOMAIN sessions /\ sessions[from].host = h
                 /\ ConfigPacket(configs[h]) \in replies'[from]
      <3> DEFINE due == (DOMAIN configs \cap {sessions'[from].host}) \ {NoHost}
                 ps == {Control("keepalive")} \cup {ConfigPacket(configs[x]) : x \in due}
      <3>1. /\ sessions' = Touched(from)
            /\ Send(sessions', from, ps)
            /\ configs' = Drop(configs, due)
          BY <2>1, ZenonT(30) DEF HandleKeepalive
      <3>2. h \in due
          BY <3>1, ZenonT(30) DEF Drop
      <3>3. h = Touched(from)[from].host /\ h # NoHost
          BY <3>1, <3>2
      <3>4. ConfigPacket(configs[h]) \in ps
          BY <3>2
      <3>5. ConfigPacket(configs[h]) \in replies'[from]
        <4> HIDE DEF ps
        <4> QED
            BY <1>1, <3>1, <3>4, SendGrows, ZenonT(30) DEF IndInv, AcksOK
      <3>6. from \in DOMAIN sessions
          BY <3>3 DEF Touched, Put, Session
      <3>7. Touched(from)[from] = [sessions[from] EXCEPT !.age = 0]
          BY <3>6 DEF Touched, Put
      <3>8. sessions[from] \in Sessions
          BY <1>1, <3>6 DEF IndInv, SessionsOK
      <3>9. sessions[from].host = h
          BY <3>3, <3>7, <3>8 DEF Sessions
      <3> QED
          BY <3>5, <3>6, <3>9
    <2>2. ASSUME NEW from \in Peers,
                 HandleHandshake(from) \/ HandleMetrics(from) \/ HandleFIN(from)
          PROVE  FALSE
        BY <2>2, ZenonT(30) DEF HandleHandshake, HandleMetrics, HandleFIN
    <2>3. ASSUME NEW from \in Peers, NEW d \in Datagrams,
                 HandleData(from, d) \/ HandleMTUProbe(from, d)
          PROVE  FALSE
      <3>1. DOMAIN configs \subseteq DOMAIN configs'
        <4>1. ASSUME NEW x, NEW c, configs' = Put(configs, x, c)
              PROVE  DOMAIN configs \subseteq DOMAIN configs'
            BY <4>1 DEF Put
        <4>2. UNCHANGED configs \/ \E x, c : configs' = Put(configs, x, c)
            BY <2>3 DEF HandleData, Accept, RouteToQueue, HandleFingerprintData,
                        RunAutoplan, HandleMTUProbe, memory
        <4> QED
            BY <4>1, <4>2
      <3> QED
          BY <3>1
    <2>4. CASE Restart
        BY <1>1, <2>4 DEF Restart, IndInv, ClocksOK
    <2>5. CASE DedupGC \/ SessionGC \/ SetIngestAllowed \/ Elapse \/ UNCHANGED vars
        BY <2>5 DEF DedupGC, SessionGC, SetIngestAllowed, Elapse, vars, memory
    <2> QED
        BY <1>1, StepCases, <2>1, <2>2, <2>3, <2>4, <2>5, ZenonT(30) DEF Cases
  <1> QED
      BY <1>1, Invariance, PTL DEF Spec, ConfigSent
===============================================================================
