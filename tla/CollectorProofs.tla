--------------------------- MODULE CollectorProofs ---------------------------
(***************************************************************************)
(* Proofs about the collector's receiver, for any payloads, hashes, lanes  *)
(* and numbers of datagrams.                                               *)
(***************************************************************************)
EXTENDS Collector, FiniteSetTheorems, TLAPS

(* The new entry holds parts of one payload only, when the old one did. *)
LEMMA EntryOf ==
    ASSUME IndInv, Injective, NEW p \in Payloads, NEW i \in 0 .. SeqSpace - 1, i < Split[p]
    PROVE  LET e == Entry(p, i)
           IN  /\ DOMAIN e.parts \subseteq 0 .. Split[p] - 1
               /\ \A j \in DOMAIN e.parts : e.parts[j] = p
               /\ e.complete => e.lastSeq = Split[p] - 1
<1> DEFINE id == ContentId[p]
           o == IF id \in DOMAIN frags THEN frags[id]
                ELSE [parts |-> Empty, lastSeq |-> 0, complete |-> FALSE]
           e == Entry(p, i)
<1>0. Split[p] \in Nat /\ i \in Nat /\ i \in 0 .. Split[p] - 1
  BY CollectorAssumption
<1>1. /\ DOMAIN o.parts \subseteq 0 .. Split[p] - 1
      /\ \A j \in DOMAIN o.parts : o.parts[j] = p
      /\ o.complete => o.lastSeq = Split[p] - 1
  <2>1. CASE id \in DOMAIN frags
    <3>1. PICK q \in Payloads :
            /\ ContentId[q] = id
            /\ DOMAIN frags[id].parts \subseteq 0 .. Split[q] - 1
            /\ \A j \in DOMAIN frags[id].parts : frags[id].parts[j] = q
            /\ frags[id].complete => frags[id].lastSeq = Split[q] - 1
      BY <2>1 DEF IndInv, BufferInv
    <3>2. q = p
      BY <3>1 DEF Injective
    <3> QED BY <2>1, <3>1, <3>2
  <2>2. CASE id \notin DOMAIN frags
    BY <2>2 DEF Empty
  <2> QED BY <2>1, <2>2
<1>2. /\ e.parts = Put(o.parts, i, p)
      /\ e.lastSeq = (IF i = Split[p] - 1 THEN i ELSE o.lastSeq)
      /\ e.complete = (o.complete \/ i = Split[p] - 1)
  BY DEF Entry
<1> HIDE DEF e, o
<1>3. DOMAIN e.parts = DOMAIN o.parts \cup {i}
      /\ \A j \in DOMAIN e.parts : e.parts[j] = IF j = i THEN p ELSE o.parts[j]
  BY <1>2 DEF Put
<1>4. /\ DOMAIN e.parts \subseteq 0 .. Split[p] - 1
      /\ \A j \in DOMAIN e.parts : e.parts[j] = p
      /\ e.complete => e.lastSeq = Split[p] - 1
  BY <1>0, <1>1, <1>2, <1>3, ZenonT(30)
<1> QED
  BY <1>4 DEF e

(* What Decode does to the counters and the lanes. *)
LEMMA Decoded ==
    ASSUME NEW p \in Payloads, Decode(p), CallerInv
    PROVE  /\ \/ envelopes' = envelopes + 1 /\ dropped' = dropped
              \/ envelopes' = envelopes /\ dropped' = dropped + 1
           /\ LanesInv'
<1>1. CASE Format[p] = "json"
  <2>1. served' \cup lanes' = LanesOf[p] \cap Wired /\ current' = {p}
    BY <1>1 DEF Decode
  <2> QED BY <1>1, <2>1 DEF Decode, LanesInv
<1>2. CASE Format[p] # "json"
  BY <1>2 DEF Decode, LanesInv
<1> QED BY <1>1, <1>2

(* Nothing is read, sent or decided yet. *)
LEMMA InitInd == Init => IndInv
<1> SUFFICES ASSUME Init PROVE IndInv
  OBVIOUS
<1>1. CallerInv /\ Accounting
  <2>1. envelopes = 0 /\ dropped = 0 /\ reads = 0 /\ ignored = 0 /\ gathered = 0
        /\ errors = 0 /\ failed = 0
    BY DEF Init
  <2>2. cancelled \in BOOLEAN /\ (caller \in {"cancelled", "closed", "stopped"} => cancelled)
    BY ZenonT(30) DEF Init
  <2> QED BY <2>1, <2>2 DEF CallerInv, Accounting
<1>2. DOMAIN frags = {} /\ assembled = {} /\ loop = "off"
  BY DEF Init, Empty
<1> QED
  BY <1>1, <1>2 DEF IndInv, BufferInv, ReassembledWhole, LanesInv

(* Start, Stop, the check of the context and the end of Stop. *)
LEMMA CallerInd ==
    ASSUME IndInv, Start \/ CancelContext \/ Stop \/ Check PROVE IndInv'
<1>1. UNCHANGED <<frags, fanoutVars, stats, history>> /\ (loop' = "fanout" => loop = "fanout")
  BY DEF Start, CancelContext, Stop, StopCancel, StopClose, StopWait, Check
<1>2. BufferInv' /\ ReassembledWhole' /\ LanesInv'
  BY <1>1 DEF IndInv, BufferInv, ReassembledWhole, LanesInv, fanoutVars, history
<1>3. CallerInv'
  BY <1>1, ZenonT(30) DEF IndInv, CallerInv, Start, CancelContext, Stop, StopCancel, StopClose, StopWait,
              Check, stats, history
<1>4. Accounting'
  BY <1>1 DEF IndInv, Accounting, stats, history
<1> QED
  BY <1>2, <1>3, <1>4 DEF IndInv

(* A read that fails, a malformed and a control packet. *)
LEMMA CountedInd ==
    ASSUME IndInv, ReadError \/ HandleMalformed \/ HandleControl PROVE IndInv'
<1>1. BufferInv' /\ ReassembledWhole' /\ LanesInv'
  BY DEF IndInv, BufferInv, ReassembledWhole, LanesInv, ReadError, HandleMalformed,
         HandleControl, fanoutVars
<1>2. CallerInv' /\ Accounting'
  BY DEF IndInv, CallerInv, Accounting, ReadError, HandleMalformed, HandleControl, Read,
         fanoutVars, stats
<1> QED BY <1>1, <1>2 DEF IndInv

(* The envelope is offered lane by lane. *)
LEMMA FanoutInd ==
    ASSUME IndInv, Fanout PROVE IndInv'
<1>1. BufferInv' /\ ReassembledWhole' /\ LanesInv'
  BY DEF IndInv, BufferInv, ReassembledWhole, LanesInv, Fanout, FanoutDone, Consume, history,
         fanoutVars
<1>2. CallerInv' /\ Accounting'
  BY DEF IndInv, CallerInv, Accounting, Fanout, FanoutDone, Consume, stats, history, fanoutVars
<1> QED BY <1>1, <1>2 DEF IndInv

(* A payload in one datagram. *)
LEMMA WholeInd ==
    ASSUME IndInv, NEW p \in Payloads, HandleWhole(p) PROVE IndInv'
<1>1. /\ \/ envelopes' = envelopes + 1 /\ dropped' = dropped
         \/ envelopes' = envelopes /\ dropped' = dropped + 1
      /\ LanesInv'
  BY Decoded DEF HandleWhole, IndInv
<1>2. BufferInv' /\ ReassembledWhole'
  BY DEF IndInv, BufferInv, ReassembledWhole, HandleWhole
<1>3. CallerInv' /\ Accounting'
  BY <1>1 DEF IndInv, CallerInv, Accounting, HandleWhole, Read
<1> QED BY <1>1, <1>2, <1>3 DEF IndInv

(* A fragment: kept, or the last one missing. *)
LEMMA FragmentInd ==
    ASSUME IndInv, NEW p \in Payloads, NEW i \in 0 .. SeqSpace - 1, HandleFragment(p, i)
    PROVE  IndInv'
<1> DEFINE e == Entry(p, i)
           id == ContentId[p]
<1>0. Split[p] \in Nat /\ i < Split[p] /\ Split[p] > 0
  BY CollectorAssumption DEF HandleFragment
<1>1. Injective => /\ DOMAIN e.parts \subseteq 0 .. Split[p] - 1
                   /\ \A j \in DOMAIN e.parts : e.parts[j] = p
                   /\ e.complete => e.lastSeq = Split[p] - 1
  BY <1>0, EntryOf
<1>2. UNCHANGED <<caller, cancelled, ignored, errors, failed>> /\ reads' = reads + 1
  BY DEF HandleFragment, Read
<1>3. CASE Whole(e)
  <2> DEFINE a == Restrict(e.parts, DOMAIN e.parts \cap 0 .. e.lastSeq)
  <2>1. /\ frags' = Restrict(frags, DOMAIN frags \ {id})
        /\ assembled' = assembled \cup {a} /\ Decode(p) /\ UNCHANGED gathered
    BY <1>3, ZenonT(30) DEF HandleFragment
  <2>2. /\ \/ envelopes' = envelopes + 1 /\ dropped' = dropped
           \/ envelopes' = envelopes /\ dropped' = dropped + 1
        /\ LanesInv'
    BY <2>1, Decoded DEF IndInv
  <2>3. CallerInv' /\ Accounting'
    BY <1>2, <2>1, <2>2 DEF IndInv, CallerInv, Accounting
  <2>4. DOMAIN frags' \subseteq DOMAIN frags /\ \A x \in DOMAIN frags' : frags'[x] = frags[x]
    BY <2>1 DEF Restrict
  <2>5. BufferInv'
    BY <2>4 DEF IndInv, BufferInv
  <2>6. ASSUME Injective
        PROVE  DOMAIN a = 0 .. Split[p] - 1 /\ \A j \in DOMAIN a : a[j] = p
    <3>1. e.complete /\ 0 .. e.lastSeq \subseteq DOMAIN e.parts /\ e.lastSeq = Split[p] - 1
      BY <1>1, <1>3, <2>6 DEF Whole
    <3> HIDE DEF e
    <3>2. DOMAIN a = DOMAIN e.parts \cap 0 .. e.lastSeq
          /\ \A j \in DOMAIN a : a[j] = e.parts[j]
      BY DEF Restrict
    <3> QED BY <1>1, <2>6, <3>1, <3>2, ZenonT(30)
  <2> HIDE DEF a
  <2>7. ReassembledWhole'
    BY <2>1, <2>6, ZenonT(30) DEF IndInv, ReassembledWhole
  <2> QED BY <2>2, <2>3, <2>5, <2>7 DEF IndInv
<1>4. CASE ~Whole(e)
  <2>1. /\ frags' = Put(frags, id, e)
        /\ gathered' = gathered + 1 /\ loop' = "check"
        /\ UNCHANGED <<stats, fanoutVars, assembled>>
    BY <1>4 DEF HandleFragment
  <2>2. CallerInv' /\ Accounting'
    BY <1>2, <2>1 DEF IndInv, CallerInv, Accounting, stats
  <2>3. LanesInv' /\ ReassembledWhole'
    BY <2>1 DEF IndInv, LanesInv, ReassembledWhole
  <2> HIDE DEF e
  <2>4. DOMAIN frags' = DOMAIN frags \cup {id} /\ frags'[id] = e
        /\ \A x \in DOMAIN frags' : x # id => frags'[x] = frags[x]
    BY <2>1 DEF Put
  <2>5. BufferInv'
    BY <1>0, <1>1, <2>4 DEF IndInv, BufferInv
  <2> QED BY <2>2, <2>3, <2>5 DEF IndInv
<1> QED BY <1>3, <1>4

(* IndInv is an invariant of the receiver. *)
THEOREM Invariance == Spec => []IndInv
<1>1. IndInv /\ [Next]_vars => IndInv'
  <2> SUFFICES ASSUME IndInv, [Next]_vars PROVE IndInv'
    OBVIOUS
  <2>1. CASE Start \/ CancelContext \/ Stop \/ Check
    BY <2>1, CallerInd
  <2>2. CASE ReadError \/ HandleMalformed \/ HandleControl
    BY <2>2, CountedInd
  <2>3. CASE Fanout
    BY <2>3, FanoutInd
  <2>4. ASSUME NEW p \in Payloads, HandleWhole(p) PROVE IndInv'
    BY <2>4, WholeInd
  <2>5. ASSUME NEW p \in Payloads, NEW i \in 0 .. SeqSpace - 1, HandleFragment(p, i)
        PROVE  IndInv'
    BY <2>5, FragmentInd
  <2>6. CASE UNCHANGED vars
    BY <2>6 DEF IndInv, CallerInv, Accounting, BufferInv, ReassembledWhole, LanesInv, vars,
                fanoutVars, stats, history
  <2> QED
    BY <2>1, <2>2, <2>3, <2>4, <2>5, <2>6 DEF Next, Handle
<1> QED
  BY InitInd, <1>1, PTL DEF Spec

(* With all parts up to l present, a number of parts that does not exceed  *)
(* l modulo the number of sequence numbers is that number itself.          *)
LEMMA WrapOnly ==
    ASSUME NEW D \in SUBSET (0 .. SeqSpace - 1), NEW l \in 0 .. SeqSpace - 1,
           0 .. l \subseteq D, ~(Cardinality(D) % SeqSpace > l)
    PROVE  Cardinality(D) = SeqSpace
<1>1. SeqSpace \in Nat \ {0} /\ l \in Nat
  BY CollectorAssumption
<1>2. IsFiniteSet(0 .. SeqSpace - 1) /\ Cardinality(0 .. SeqSpace - 1) = SeqSpace
  <2> DEFINE b == SeqSpace - 1
  <2>1. b \in Int /\ ~(0 > b) /\ b - 0 + 1 = SeqSpace
    BY <1>1
  <2> HIDE DEF b
  <2>2. IsFiniteSet(0 .. b) /\ Cardinality(0 .. b) = SeqSpace
    BY <2>1, FS_Interval
  <2> QED BY <2>2 DEF b
<1>3. Cardinality(0 .. l) = l + 1
  BY <1>1, FS_Interval
<1>4. IsFiniteSet(D) /\ Cardinality(D) <= SeqSpace
  BY <1>2, FS_Subset, ZenonT(30)
<1>5. l + 1 <= Cardinality(D) /\ Cardinality(D) \in Nat
  BY <1>3, <1>4, FS_Subset, FS_CardinalityType
<1>6. Cardinality(D) < SeqSpace => Cardinality(D) % SeqSpace = Cardinality(D)
  BY <1>1, <1>5
<1> QED BY <1>1, <1>4, <1>5, <1>6

(* AddAndMaybeAssemble removes an entry as soon as it is whole.            *)
LEMMA KeptInvariant == Spec => []KeptInv
<1>1. Init => KeptInv
  BY DEF Init, Empty, KeptInv
<1>2. ASSUME KeptInv, NEW p \in Payloads, NEW i \in 0 .. SeqSpace - 1, HandleFragment(p, i)
      PROVE  KeptInv'
  <2> DEFINE id == ContentId[p]
             o == IF id \in DOMAIN frags THEN frags[id]
                  ELSE [parts |-> Empty, lastSeq |-> 0, complete |-> FALSE]
             e == Entry(p, i)
  <2>1. DOMAIN o.parts \subseteq 0 .. SeqSpace - 1 /\ o.lastSeq \in 0 .. SeqSpace - 1
    BY <1>2, CollectorAssumption DEF KeptInv, Empty
  <2>2. e.parts = Put(o.parts, i, p) /\ e.lastSeq \in {i, o.lastSeq}
    BY DEF Entry
  <2> HIDE DEF o, e
  <2>3. DOMAIN e.parts \subseteq 0 .. SeqSpace - 1 /\ e.lastSeq \in 0 .. SeqSpace - 1
    BY <2>1, <2>2 DEF Put
  <2>4. CASE frags' = Restrict(frags, DOMAIN frags \ {id})
    BY <1>2, <2>4, ZenonT(30) DEF KeptInv, Restrict
  <2>5. CASE ~Whole(e) /\ frags' = Put(frags, id, e)
    <3>1. DOMAIN frags' = DOMAIN frags \cup {id} /\ frags'[id] = e
          /\ \A x \in DOMAIN frags' : x # id => frags'[x] = frags[x]
      BY <2>5 DEF Put
    <3> QED BY <1>2, <2>3, <2>5, <3>1, ZenonT(30) DEF KeptInv
  <2>6. \/ frags' = Restrict(frags, DOMAIN frags \ {id})
        \/ ~Whole(e) /\ frags' = Put(frags, id, e)
    BY <1>2, ZenonT(30) DEF HandleFragment, e
  <2> QED BY <2>4, <2>5, <2>6
<1>3. ASSUME KeptInv, UNCHANGED frags PROVE KeptInv'
  BY <1>3, ZenonT(30) DEF KeptInv
<1>4. [Next]_vars => UNCHANGED frags
                     \/ \E p \in Payloads, i \in 0 .. SeqSpace - 1 : HandleFragment(p, i)
  BY ZenonT(60) DEF Next, Start, CancelContext, Stop, StopCancel, StopClose, StopWait, Check,
     ReadError, Handle, HandleMalformed, HandleControl, HandleWhole, Fanout, FanoutDone,
     Consume, vars
<1>5. KeptInv /\ [Next]_vars => KeptInv'
  BY <1>2, <1>3, <1>4, ZenonT(30)
<1> QED BY <1>1, <1>5, PTL DEF Spec

(* No message stays in the buffer once all its parts are there, unless it  *)
(* has as many parts as there are sequence numbers: the narrowed count     *)
(* loses no other message, whatever arrives and in whatever order.         *)
THEOREM CompleteNotStranded == Spec => []NothingStranded
<1>1. ASSUME KeptInv, NEW id \in DOMAIN frags, frags[id].complete,
             0 .. frags[id].lastSeq \subseteq DOMAIN frags[id].parts
      PROVE  Cardinality(DOMAIN frags[id].parts) = SeqSpace
  <2>1. ~(Cardinality(DOMAIN frags[id].parts) % SeqSpace > frags[id].lastSeq)
    BY <1>1, ZenonT(30) DEF KeptInv, Whole
  <2> QED BY <1>1, <2>1, WrapOnly, ZenonT(30) DEF KeptInv
<1>2. KeptInv => NothingStranded
  BY <1>1, ZenonT(30) DEF NothingStranded
<1> QED BY <1>2, KeptInvariant, PTL

(* Every datagram has one fate, and closing the socket is no error.        *)
THEOREM DatagramsAccounted == Spec => []Accounting
<1>1. IndInv => Accounting
  BY DEF IndInv
<1> QED
  BY <1>1, Invariance, PTL

(* Only whole payloads are put together, for any number of interleaved     *)
(* messages and any order of their fragments.                              *)
THEOREM PayloadsWhole == Spec => []ReassembledWhole
<1>1. IndInv => ReassembledWhole
  BY DEF IndInv
<1> QED
  BY <1>1, Invariance, PTL

(* A consumer's error keeps the envelope from no other lane.               *)
THEOREM EveryLaneServed == Spec => []LanesServed
<1>1. IndInv => LanesServed
  BY DEF IndInv, LanesInv, LanesServed
<1> QED
  BY <1>1, Invariance, PTL
=============================================================================
