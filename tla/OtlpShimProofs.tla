--------------------------- MODULE OtlpShimProofs ---------------------------
(***************************************************************************)
(* Proofs about the OTLP shim and the client's send path, for every number *)
(* of handlers, every setup and every value of the other constants.        *)
(***************************************************************************)
EXTENDS OtlpShim, FiniteSetTheorems, TLAPS

(* The larger of two numbers. *)
LEMMA MaxOfTwo ==
    ASSUME NEW a \in Int, NEW b \in Int
    PROVE  Max({a, b}) = IF a >= b THEN a ELSE b
<1> DEFINE m == IF a >= b THEN a ELSE b
<1>1. m \in {a, b} /\ \A y \in {a, b} : m >= y
  OBVIOUS
<1>2. \A x \in {a, b} : (\A y \in {a, b} : x >= y) => x = m
  OBVIOUS
<1> HIDE DEF m
<1>3. Max({a, b}) = m
  BY <1>1, <1>2 DEF Max
<1> QED
  BY <1>3 DEF m

(* The smaller of two numbers. *)
LEMMA MinOfTwo ==
    ASSUME NEW a \in Int, NEW b \in Int
    PROVE  Min({a, b}) = IF a <= b THEN a ELSE b
<1> DEFINE m == IF a <= b THEN a ELSE b
<1>1. m \in {a, b} /\ \A y \in {a, b} : m <= y
  OBVIOUS
<1>2. \A x \in {a, b} : (\A y \in {a, b} : x <= y) => x = m
  OBVIOUS
<1> HIDE DEF m
<1>3. Min({a, b}) = m
  BY <1>1, <1>2 DEF Min
<1> QED
  BY <1>3 DEF m

(* A window of the tuner is a number, and at most the ceiling if that is   *)
(* at least the floor.                                                     *)
LEMMA TargetBound ==
    ASSUME NEW c \in Nat, NEW a \in Actions
    PROVE  /\ Target(c, a) \in Nat
           /\ c >= MinWindow => Target(c, a) <= c
<1>1. Scaled(c, a) \in Nat /\ Scaled(c, a) <= c
  BY DEF Scaled, Actions
<1>2. Target(c, a) = IF 4 >= Scaled(c, a) THEN 4 ELSE Scaled(c, a)
  BY <1>1, MaxOfTwo DEF Target, MinWindow
<1> QED
  BY <1>1, <1>2 DEF MinWindow

(* Whatever number an LLM answers with, a classification is a tier. *)
LEMMA FreshTiersType ==
    ASSUME NEW k \in Keys PROVE FreshTiers(k) \subseteq Tiers
<1>1. \A n \in RawTiers : Narrow(n) \in Tiers
  BY SendPathAssumption DEF Narrow, Tiers, Besteff
<1>2. FallbackTiers(k) \subseteq Tiers
  BY SendPathAssumption DEF FallbackTiers, RuleTier, Tiers, Besteff
<1> QED
  BY <1>1, <1>2 DEF FreshTiers

(* A fresh signal is well formed. *)
LEMMA SignalType ==
    ASSUME NEW t \in Types
    PROVE  Signal(t) \in Signals /\ Signal(t).entry = 0
<1>1. \E k : k \in Keys
  <2>1. PICK l : l \in Levels
    BY SendPathAssumption
  <2>2. [type |-> t, level |-> l, rarity |-> "routine"] \in Keys
    BY <2>1 DEF Keys, Rarities
  <2> QED BY <2>2
<1>2. NoKey \in Keys
  BY <1>1 DEF NoKey
<1> QED
  BY <1>2 DEF Signal, Signals, Tiers, Besteff

(* Entries keep their form when they are made, claimed or expire. *)
LEMMA EntryForms ==
    /\ \A k \in Keys, t \in Tiers :
         Entry(k, t) \in EntryRecords /\ Entry(k, t).key = k
         /\ Entry(k, t).refreshes = 0 /\ Entry(k, t).refreshing = FALSE
    /\ \A e \in EntryRecords :
         /\ Claimed(e) \in EntryRecords /\ Claimed(e).key = e.key
         /\ Claimed(e).refreshes = e.refreshes + 1 /\ Claimed(e).refreshing = TRUE
         /\ [e EXCEPT !.expired = TRUE] \in EntryRecords
         /\ [e EXCEPT !.expired = TRUE].key = e.key
         /\ [e EXCEPT !.expired = TRUE].refreshes = e.refreshes
         /\ [e EXCEPT !.expired = TRUE].refreshing = e.refreshing
<1>1. \A k \in Keys, t \in Tiers :
         Entry(k, t) \in EntryRecords /\ Entry(k, t).key = k
         /\ Entry(k, t).refreshes = 0 /\ Entry(k, t).refreshing = FALSE
  BY DEF Entry, EntryRecords
<1>2. \A e \in EntryRecords :
         /\ Claimed(e) \in EntryRecords /\ Claimed(e).key = e.key
         /\ Claimed(e).refreshes = e.refreshes + 1 /\ Claimed(e).refreshing = TRUE
  BY DEF Claimed, EntryRecords
<1>3. \A e \in EntryRecords :
         /\ [e EXCEPT !.expired = TRUE] \in EntryRecords
         /\ [e EXCEPT !.expired = TRUE].key = e.key
         /\ [e EXCEPT !.expired = TRUE].refreshes = e.refreshes
         /\ [e EXCEPT !.expired = TRUE].refreshing = e.refreshing
  BY ZenonT(30) DEF EntryRecords
<1> QED
  BY <1>1, <1>2, <1>3

(* A signal in hand keeps its form as sendSignal fills it in. *)
LEMMA SignalForms ==
    ASSUME NEW g \in Signals
    PROVE  /\ \A k \in Keys : /\ [g EXCEPT !.key = k] \in Signals
                              /\ [g EXCEPT !.key = k].entry = g.entry
                              /\ [g EXCEPT !.key = k].key = k
           /\ \A i \in Nat : /\ [g EXCEPT !.entry = i] \in Signals
                             /\ [g EXCEPT !.entry = i].entry = i
                             /\ [g EXCEPT !.entry = i].key = g.key
           /\ \A t \in Tiers : /\ [g EXCEPT !.tier = t] \in Signals
                               /\ [g EXCEPT !.tier = t].entry = g.entry
                               /\ [g EXCEPT !.tier = t].key = g.key
  BY DEF Signals

(* Storing an entry keeps the entries there were, their types, and a       *)
(* cache whose references point to entries of their key.                   *)
LEMMA StoreForms ==
    ASSUME TypeOK, NEW k \in Keys, NEW t \in Tiers, Store(k, t)
    PROVE  /\ entries' \in Seq(EntryRecords) /\ Len(entries') = Len(entries) + 1
           /\ DOMAIN entries' = DOMAIN entries \cup {Len(entries) + 1}
           /\ DOMAIN entries \subseteq DOMAIN entries'
           /\ \A i \in DOMAIN entries : entries'[i] = entries[i]
           /\ entries'[Len(entries) + 1] = Entry(k, t)
           /\ DOMAIN cache' = DOMAIN cache \cup {k}
           /\ \A x \in DOMAIN cache' :
                cache'[x] \in DOMAIN entries' /\ entries'[cache'[x]].key = x
<1> USE DEF TypeOK, SendTypeOK
<1>1. Entry(k, t) \in EntryRecords /\ Entry(k, t).key = k
  BY EntryForms
<1>2. entries \in Seq(EntryRecords) /\ entries' = Append(entries, Entry(k, t))
  BY DEF Store
<1>3. /\ entries' \in Seq(EntryRecords) /\ Len(entries') = Len(entries) + 1
      /\ DOMAIN entries' = DOMAIN entries \cup {Len(entries) + 1}
      /\ \A i \in DOMAIN entries : entries'[i] = entries[i]
      /\ entries'[Len(entries) + 1] = Entry(k, t)
  BY <1>1, <1>2
<1>4. DOMAIN cache' = DOMAIN cache \cup {k}
  BY DEF Store
<1>5. ASSUME NEW x \in DOMAIN cache'
      PROVE  cache'[x] \in DOMAIN entries' /\ entries'[cache'[x]].key = x
  <2>1. CASE x = k
    <3>1. cache'[x] = Len(entries) + 1
      BY <1>4, <2>1 DEF Store
    <3> QED
      BY <3>1, <2>1, <1>3, <1>1
  <2>2. CASE x # k
    <3>1. x \in DOMAIN cache /\ cache'[x] = cache[x]
      BY <1>4, <2>2 DEF Store
    <3> QED
      BY <3>1, <1>3
  <2> QED
    BY <2>1, <2>2
<1> QED
  BY <1>3, <1>4, <1>5

(* Claiming or expiring an entry keeps its key. *)
LEMMA UpdateForms ==
    ASSUME TypeOK, NEW i \in DOMAIN entries, NEW e \in EntryRecords,
           e.key = entries[i].key, entries' = [entries EXCEPT ![i] = e], cache' = cache
    PROVE  /\ entries' \in Seq(EntryRecords) /\ Len(entries') = Len(entries)
           /\ DOMAIN entries' = DOMAIN entries
           /\ entries'[i] = e
           /\ \A j \in DOMAIN entries : j # i => entries'[j] = entries[j]
           /\ \A x \in DOMAIN cache' :
                cache'[x] \in DOMAIN entries' /\ entries'[cache'[x]].key = x
<1> USE DEF TypeOK, SendTypeOK
<1> HIDE DEF EntryRecords
<1>1. entries \in Seq(EntryRecords)
  OBVIOUS
<1>2. /\ entries' \in Seq(EntryRecords) /\ Len(entries') = Len(entries)
      /\ DOMAIN entries' = DOMAIN entries
      /\ entries'[i] = e
      /\ \A j \in DOMAIN entries : j # i => entries'[j] = entries[j]
  BY <1>1
<1>3. ASSUME NEW x \in DOMAIN cache'
      PROVE  cache'[x] \in DOMAIN entries' /\ entries'[cache'[x]].key = x
  <2>1. CASE cache[x] = i
    BY <2>1, <1>2
  <2>2. CASE cache[x] # i
    BY <2>2, <1>2
  <2> QED BY <2>1, <2>2
<1> QED
  BY <1>2, <1>3

-----------------------------------------------------------------------------
(* The classifier's cache: each step keeps the references and CacheInv.    *)

(* The lookup of Classify, found or not. *)
LEMMA LoadCache ==
    ASSUME IndInv, NEW s \in Senders, Load(s) PROVE SendTypeOK' /\ CacheInv'
<1> DEFINE k == sig[s].key
<1>0. /\ TypeOK /\ SendTypeOK /\ CacheInv /\ k \in Keys /\ sig[s] \in Signals
      /\ pc[s] = "load"
  BY ZenonT(30) DEF IndInv, TypeOK, SendTypeOK, Load, Signals
<1>1. pc' \in [Senders -> InSend \cup {"idle", "decode", "export", "proto"}]
      /\ \A u \in Senders : u # s => pc'[u] = pc[u]
  BY <1>0 DEF Load, Goto, TypeOK, InSend
<1>2. CASE k \in DOMAIN cache
  <2>1. /\ sig' = [sig EXCEPT ![s] = [sig[s] EXCEPT !.entry = cache[k]]]
        /\ pc'[s] = "loaded"
        /\ UNCHANGED <<seen, entries, cache, refreshers, samples, tunerVars, dropped,
                       blocked, reblocked>>
    BY <1>0, <1>2 DEF Load, Goto, TypeOK, SendTypeOK
  <2>2. cache[k] \in DOMAIN entries /\ cache[k] \in Nat /\ cache[k] <= Len(entries)
    BY <1>0, <1>2 DEF SendTypeOK
  <2>3. /\ [sig[s] EXCEPT !.entry = cache[k]] \in Signals
        /\ [sig[s] EXCEPT !.entry = cache[k]].entry = cache[k]
    BY <1>0, <2>2, SignalForms
  <2> DEFINE g == [sig[s] EXCEPT !.entry = cache[k]]
  <2> HIDE DEF g, k
  <2>4. /\ sig' \in [Senders -> Signals] /\ sig'[s] = g
        /\ \A u \in Senders : u # s => sig'[u] = sig[u]
    BY <2>1, <2>3, <1>0 DEF SendTypeOK, g
  <2>5. SendTypeOK'
    BY <1>0, <2>1, <2>2, <2>3, <2>4 DEF SendTypeOK, tunerVars, g
  <2>6. CacheInv'
    BY <1>0, <1>1, <1>2, <2>1, <2>2, <2>3, <2>4 DEF CacheInv, g, k
  <2> QED BY <2>5, <2>6
<1>3. CASE k \notin DOMAIN cache
  <2>1. /\ pc'[s] = "fresh" /\ blocked' = blocked \cup {<<s, k>>}
        /\ reblocked' = (reblocked \/ <<s, k>> \in blocked)
        /\ UNCHANGED <<seen, entries, cache, refreshers, samples, tunerVars, dropped, sig>>
    BY <1>0, <1>3 DEF Load, Goto, TypeOK, SendTypeOK
  <2>2. SendTypeOK'
    BY <1>0, <2>1 DEF SendTypeOK, tunerVars
  <2>3. <<s, k>> \notin blocked
    BY <1>0, <1>3 DEF CacheInv
  <2>4. CacheInv'
    <3>1. reblocked' = FALSE
      BY <2>1, <2>3, <1>0, ZenonT(30) DEF CacheInv
    <3>2. \A u \in Senders, x \in Keys : <<u, x>> \in blocked' =>
             x \in DOMAIN cache' \/ (pc'[u] = "fresh" /\ sig'[u].key = x)
      BY <2>1, <1>0, <1>1 DEF CacheInv
    <3>3. \A u \in Senders : pc'[u] = "loaded" => sig'[u].entry \in DOMAIN entries'
      BY <2>1, <1>0, <1>1 DEF CacheInv
    <3> QED BY <3>1, <3>2, <3>3, <2>1, <1>0 DEF CacheInv
  <2> QED BY <2>2, <2>4
<1> QED BY <1>2, <1>3

(* A hit, with or without the refresh it starts. *)
LEMMA HitCache ==
    ASSUME IndInv, NEW s \in Senders, Hit(s) PROVE SendTypeOK' /\ CacheInv'
<1> DEFINE i == sig[s].entry
           e == entries[i]
<1>0. /\ TypeOK /\ SendTypeOK /\ CacheInv /\ sig[s] \in Signals
      /\ pc[s] = "loaded"
  BY DEF IndInv, TypeOK, SendTypeOK, Hit
<1>1. /\ pc'[s] = "shape" /\ \A u \in Senders : u # s => pc'[u] = pc[u]
  BY <1>0 DEF Hit, Goto, TypeOK, InSend
<1>2. i \in DOMAIN entries /\ e \in EntryRecords /\ e.tier \in Tiers
  <2>1. i \in DOMAIN entries
    BY <1>0 DEF CacheInv
  <2>2. e \in EntryRecords
    BY <2>1, <1>0 DEF SendTypeOK
  <2> QED BY <2>1, <2>2 DEF EntryRecords
<1> DEFINE g == [sig[s] EXCEPT !.tier = e.tier]
<1>3. /\ sig' = [sig EXCEPT ![s] = g]
      /\ UNCHANGED <<seen, cache, blocked, reblocked, samples, tunerVars, dropped>>
      /\ \/ e.expired /\ ~e.refreshing /\ entries' = [entries EXCEPT ![i] = Claimed(e)]
            /\ refreshers' = refreshers \cup {i}
         \/ UNCHANGED <<entries, refreshers>>
  BY <1>0 DEF Hit, SendTypeOK
<1>4. g \in Signals /\ g.entry = i /\ g.key = sig[s].key
  BY <1>0, <1>2, SignalForms
<1> HIDE DEF g
<1>5. /\ sig' \in [Senders -> Signals] /\ sig'[s] = g
      /\ \A u \in Senders : u # s => sig'[u] = sig[u]
  BY <1>3, <1>4, <1>0 DEF SendTypeOK
<1>6. \A u \in Senders : sig'[u].entry = sig[u].entry /\ sig'[u].key = sig[u].key
  BY <1>4, <1>5
<1> HIDE DEF i, e
<1>7. CASE e.expired /\ ~e.refreshing /\ entries' = [entries EXCEPT ![i] = Claimed(e)]
           /\ refreshers' = refreshers \cup {i}
  <2>1. Claimed(e) \in EntryRecords /\ Claimed(e).key = entries[i].key
        /\ Claimed(e).refreshes = e.refreshes + 1 /\ Claimed(e).refreshing = TRUE
    BY <1>2, EntryForms, ZenonT(30) DEF e
  <2> DEFINE c == Claimed(e)
  <2> HIDE DEF c
  <2>2. /\ entries' \in Seq(EntryRecords) /\ Len(entries') = Len(entries)
        /\ DOMAIN entries' = DOMAIN entries
        /\ entries'[i] = c
        /\ \A j \in DOMAIN entries : j # i => entries'[j] = entries[j]
        /\ \A x \in DOMAIN cache' :
             cache'[x] \in DOMAIN entries' /\ entries'[cache'[x]].key = x
    <3>1. c \in EntryRecords /\ c.key = entries[i].key /\ entries' = [entries EXCEPT ![i] = c]
          /\ cache' = cache
      BY <2>1, <1>7, <1>3 DEF c
    <3> QED BY <3>1, <1>0, <1>2, UpdateForms, ZenonT(30)
  <2>3. SendTypeOK'
    BY <1>0, <1>2, <1>3, <1>5, <1>6, <1>7, <2>2 DEF SendTypeOK, tunerVars
  <2>4. \A j \in DOMAIN entries' :
          entries'[j].refreshes = IF entries'[j].refreshing THEN 1 ELSE 0
    <3>1. e.refreshes = 0
      BY <1>0, <1>2, <1>7 DEF CacheInv, e
    <3> QED BY <3>1, <2>1, <2>2, <1>0 DEF CacheInv, c
  <2>5. CacheInv'
    BY <1>0, <1>1, <1>3, <1>6, <2>2, <2>4 DEF CacheInv
  <2> QED BY <2>3, <2>5
<1>8. CASE UNCHANGED <<entries, refreshers>>
  <2>1. SendTypeOK'
    BY <1>0, <1>3, <1>5, <1>6, <1>8 DEF SendTypeOK, tunerVars
  <2>2. CacheInv'
    BY <1>0, <1>1, <1>3, <1>6, <1>8 DEF CacheInv
  <2> QED BY <2>1, <2>2
<1> QED BY <1>3, <1>7, <1>8

(* A miss stores the fresh tier. *)
LEMMA MissCache ==
    ASSUME IndInv, NEW s \in Senders, Miss(s) PROVE SendTypeOK' /\ CacheInv'
<1> DEFINE k == sig[s].key
<1>0. /\ TypeOK /\ SendTypeOK /\ CacheInv /\ sig[s] \in Signals /\ k \in Keys
      /\ pc[s] = "fresh"
  BY ZenonT(30) DEF IndInv, TypeOK, SendTypeOK, Miss, Signals
<1>1. pc'[s] = "shape" /\ \A u \in Senders : u # s => pc'[u] = pc[u]
  BY <1>0 DEF Miss, Goto, TypeOK, InSend
<1>2. PICK t \in Tiers : Store(k, t) /\ sig' = [sig EXCEPT ![s] = [sig[s] EXCEPT !.tier = t]]
  BY <1>0, FreshTiersType, ZenonT(30) DEF Miss, SendTypeOK
<1> DEFINE g == [sig[s] EXCEPT !.tier = t]
<1>3. g \in Signals /\ g.entry = sig[s].entry /\ g.key = k
  BY <1>0, SignalForms
<1> HIDE DEF g
<1>4. /\ sig' \in [Senders -> Signals] /\ sig'[s] = g
      /\ \A u \in Senders : u # s => sig'[u] = sig[u]
  BY <1>2, <1>3, <1>0 DEF SendTypeOK, g
<1>5. \A u \in Senders : sig'[u].entry = sig[u].entry /\ sig'[u].key = sig[u].key
  BY <1>3, <1>4
<1> HIDE DEF k
<1>6. UNCHANGED <<seen, refreshers, blocked, reblocked, samples, tunerVars, dropped>>
  BY DEF Miss
<1>7. /\ entries' \in Seq(EntryRecords) /\ Len(entries') = Len(entries) + 1
      /\ DOMAIN entries' = DOMAIN entries \cup {Len(entries) + 1}
      /\ DOMAIN entries \subseteq DOMAIN entries'
      /\ \A i \in DOMAIN entries : entries'[i] = entries[i]
      /\ entries'[Len(entries) + 1] = Entry(k, t)
      /\ DOMAIN cache' = DOMAIN cache \cup {k}
      /\ \A x \in DOMAIN cache' :
           cache'[x] \in DOMAIN entries' /\ entries'[cache'[x]].key = x
  BY <1>0, <1>2, StoreForms, ZenonT(30)
<1>8. Len(entries) \in Nat /\ \A u \in Senders : sig[u].entry \in Nat
  BY <1>0 DEF SendTypeOK, Signals
<1>9. SendTypeOK'
  BY <1>0, <1>4, <1>5, <1>6, <1>7, <1>8 DEF SendTypeOK, tunerVars
<1>10. \A i \in DOMAIN entries' :
         entries'[i].refreshes = IF entries'[i].refreshing THEN 1 ELSE 0
  BY <1>0, <1>7, EntryForms DEF CacheInv
<1>11. CacheInv'
  BY <1>0, <1>1, <1>5, <1>6, <1>7, <1>10 DEF CacheInv, k
<1> QED BY <1>9, <1>11

(* A refresh stores the fresh tier over the entry. *)
LEMMA RefreshCache ==
    ASSUME IndInv, NEW j \in refreshers, Refresh(j) PROVE SendTypeOK' /\ CacheInv'
<1> DEFINE k == entries[j].key
<1>0. /\ TypeOK /\ SendTypeOK /\ CacheInv /\ entries[j] \in EntryRecords /\ k \in Keys
  <2>1. TypeOK /\ SendTypeOK /\ CacheInv /\ entries[j] \in EntryRecords
    BY DEF IndInv, TypeOK, SendTypeOK
  <2> QED BY <2>1 DEF EntryRecords
<1>1. PICK t \in Tiers : Store(k, t)
  BY <1>0, FreshTiersType DEF Refresh
<1>2. UNCHANGED <<seen, blocked, reblocked, samples, tunerVars, dropped, pc, sig>>
      /\ refreshers' \subseteq refreshers
  BY DEF Refresh
<1> HIDE DEF k
<1>3. /\ entries' \in Seq(EntryRecords) /\ Len(entries') = Len(entries) + 1
      /\ DOMAIN entries' = DOMAIN entries \cup {Len(entries) + 1}
      /\ DOMAIN entries \subseteq DOMAIN entries'
      /\ \A i \in DOMAIN entries : entries'[i] = entries[i]
      /\ entries'[Len(entries) + 1] = Entry(k, t)
      /\ DOMAIN cache' = DOMAIN cache \cup {k}
      /\ \A x \in DOMAIN cache' :
           cache'[x] \in DOMAIN entries' /\ entries'[cache'[x]].key = x
  BY <1>0, <1>1, StoreForms, ZenonT(30) DEF k
<1>4. Len(entries) \in Nat /\ \A u \in Senders : sig[u].entry \in Nat
  BY <1>0 DEF SendTypeOK, Signals
<1>5. SendTypeOK'
  <2>1. \A u \in Senders : sig'[u].entry <= Len(entries')
    <3>1. \A u \in Senders : sig[u].entry <= Len(entries)
      BY <1>0 DEF SendTypeOK
    <3>2. Len(entries') = Len(entries) + 1 /\ sig' = sig
      BY <1>2, <1>3
    <3> QED BY <1>4, <3>1, <3>2
  <2>2. DOMAIN cache' \subseteq Keys /\ refreshers' \subseteq DOMAIN entries'
    BY <1>0, <1>2, <1>3, ZenonT(30) DEF SendTypeOK
  <2>3. /\ seen' \subseteq Types /\ samples' \in 0 .. HistorySize
        /\ maxInflight' \in Nat /\ ceiling' \in Nat /\ dropped' \in Nat
        /\ sig' \in [Senders -> Signals]
    BY <1>0, <1>2, ZenonT(30) DEF SendTypeOK, tunerVars
  <2>4. entries' \in Seq(EntryRecords)
        /\ \A x \in DOMAIN cache' : cache'[x] \in DOMAIN entries' /\ entries'[cache'[x]].key = x
    BY <1>3
  <2> QED BY <2>1, <2>2, <2>3, <2>4 DEF SendTypeOK
<1>6. \A i \in DOMAIN entries' :
         entries'[i].refreshes = IF entries'[i].refreshing THEN 1 ELSE 0
  BY <1>0, <1>3, EntryForms DEF CacheInv, k
<1>7. CacheInv'
  BY <1>0, <1>2, <1>3, <1>6 DEF CacheInv
<1> QED BY <1>5, <1>7

(* cacheTTL passes for an entry. *)
LEMMA ExpireCache ==
    ASSUME IndInv, NEW i \in DOMAIN entries, Expire(i) PROVE SendTypeOK' /\ CacheInv'
<1> DEFINE e == [entries[i] EXCEPT !.expired = TRUE]
<1>0. TypeOK /\ SendTypeOK /\ CacheInv /\ entries[i] \in EntryRecords
  BY SMTT(30) DEF IndInv, TypeOK, SendTypeOK
<1>1. /\ e \in EntryRecords /\ e.key = entries[i].key
      /\ e.refreshes = entries[i].refreshes /\ e.refreshing = entries[i].refreshing
  BY <1>0, EntryForms
<1>2. /\ entries' = [entries EXCEPT ![i] = e]
      /\ UNCHANGED <<seen, cache, refreshers, blocked, reblocked, samples, tunerVars,
                     dropped, pc, sig>>
  BY DEF Expire
<1> HIDE DEF e
<1>3. /\ entries' \in Seq(EntryRecords) /\ Len(entries') = Len(entries)
      /\ DOMAIN entries' = DOMAIN entries
      /\ entries'[i] = e
      /\ \A j \in DOMAIN entries : j # i => entries'[j] = entries[j]
      /\ \A x \in DOMAIN cache' :
           cache'[x] \in DOMAIN entries' /\ entries'[cache'[x]].key = x
  BY <1>0, <1>1, <1>2, UpdateForms, ZenonT(30)
<1>4. SendTypeOK'
  BY <1>0, <1>2, <1>3 DEF SendTypeOK, tunerVars
<1>5. CacheInv'
  BY <1>0, <1>1, <1>2, <1>3 DEF CacheInv
<1> QED BY <1>4, <1>5

(* A step of a handler outside Classify leaves the cache alone. *)
LEMMA CacheFrame ==
    ASSUME IndInv, NEW s \in Senders, pc[s] # "fresh", pc'[s] # "loaded",
           \A u \in Senders : u # s => pc'[u] = pc[u] /\ sig'[u] = sig[u],
           UNCHANGED <<entries, cache, blocked, reblocked>>
    PROVE  CacheInv'
<1>1. \A u \in Senders : pc'[u] = "loaded" => u # s /\ pc[u] = "loaded" /\ sig'[u] = sig[u]
  OBVIOUS
<1>2. \A u \in Senders : pc[u] = "fresh" => pc'[u] = "fresh" /\ sig'[u] = sig[u]
  OBVIOUS
<1> QED
  BY <1>1, <1>2 DEF IndInv, CacheInv

-----------------------------------------------------------------------------
(* The handlers' places: each step moves one handler.                      *)

Places == InSend \cup {"idle", "decode", "export", "proto"}
Inside == InSend \cup {"export", "proto"}

(* Goto moves its handler and no other. *)
LEMMA Moved ==
    ASSUME TypeOK, NEW s \in Senders, NEW p \in Places, Goto(s, p)
    PROVE  /\ pc' \in [Senders -> Places] /\ pc'[s] = p
           /\ \A u \in Senders : u # s => pc'[u] = pc[u]
  BY DEF TypeOK, Goto, Places

(* The handlers that forward are finitely many; entering adds one, leaving *)
(* removes one.                                                            *)
LEMMA ForwardingCount ==
    ASSUME TypeOK, NEW s \in Senders, NEW p \in Places, Goto(s, p)
    PROVE  /\ Cardinality(Forwarding) \in Nat
           /\ (pc[s] \in Inside <=> p \in Inside)
                => Cardinality(Forwarding') = Cardinality(Forwarding)
           /\ pc[s] \notin Inside /\ p \in Inside
                => Cardinality(Forwarding') = Cardinality(Forwarding) + 1
           /\ pc[s] \in Inside /\ p \notin Inside
                => Cardinality(Forwarding) = Cardinality(Forwarding') + 1
<1>1. /\ pc'[s] = p /\ \A u \in Senders : u # s => pc'[u] = pc[u]
  BY Moved
<1>2. Forwarding = {u \in Senders : pc[u] \in Inside}
      /\ Forwarding' = {u \in Senders : pc'[u] \in Inside}
  BY DEF Forwarding, Inside
<1> HIDE DEF Inside, Forwarding
<1>3. IsFiniteSet(Forwarding) /\ IsFiniteSet(Forwarding')
  BY <1>2, FS_Subset, SendPathAssumption
<1>4. Cardinality(Forwarding) \in Nat /\ Cardinality(Forwarding') \in Nat
  BY <1>3, FS_CardinalityType
<1>5. (pc[s] \in Inside <=> p \in Inside) => Forwarding' = Forwarding
  BY <1>1, <1>2
<1>6. ASSUME pc[s] \notin Inside, p \in Inside
      PROVE  Cardinality(Forwarding') = Cardinality(Forwarding) + 1
  <2>1. s \notin Forwarding /\ Forwarding' = Forwarding \cup {s}
    BY <1>1, <1>2, <1>6
  <2> QED BY <2>1, <1>3, FS_AddElement
<1>7. ASSUME pc[s] \in Inside, p \notin Inside
      PROVE  Cardinality(Forwarding) = Cardinality(Forwarding') + 1
  <2>1. s \notin Forwarding' /\ Forwarding = Forwarding' \cup {s}
    BY <1>1, <1>2, <1>7
  <2> QED BY <2>1, <1>3, FS_AddElement
<1> QED
  BY <1>4, <1>5, <1>6, <1>7

(* A gRPC handler runs only while the shim holds the gRPC listener, and    *)
(* none once the forwarder is closed, as long as no handler starts.        *)
LEMMA HandlerLife ==
    ASSUME IndInv, NEW s \in Senders, pc[s] # "idle", UNCHANGED <<life, via>>,
           \A u \in Senders : u # s => pc'[u] = pc[u]
    PROVE  LifeInv' /\ GrpcDrainedFirst'
<1>1. Active("grpc")' \subseteq Active("grpc")
  BY DEF Active
<1> QED
  BY <1>1 DEF IndInv, LifeInv, GrpcDrainedFirst, life

(* A step that leaves the cache and the window alone. *)
LEMMA SendFrame ==
    ASSUME SendTypeOK, UNCHANGED <<cacheVars, tunerVars>>,
           samples' \in 0 .. HistorySize, dropped' \in Nat,
           sig' \in [Senders -> Signals], \A u \in Senders : sig'[u].entry <= Len(entries)
    PROVE  SendTypeOK'
  BY DEF SendTypeOK, cacheVars, tunerVars

(* A step that leaves the shim's own state alone. *)
LEMMA ShimTypes ==
    ASSUME TypeOK, UNCHANGED life, via' \in [Senders -> {"http", "grpc"}],
           pc' \in [Senders -> Places], accepted' \in Nat,
           received' \in Nat, fwdErrs' \in Nat, delivered' \in Nat, SendTypeOK'
    PROVE  TypeOK'
  BY DEF TypeOK, life, Places

(* What a step of a handler changes beside the client's state. *)
LEMMA ShimFrame ==
    ASSUME IndInv, UNCHANGED <<life, via, accepted>>, pc' \in [Senders -> Places],
           received' \in Nat, fwdErrs' \in Nat, delivered' \in Nat, SendTypeOK'
    PROVE  TypeOK'
  BY DEF IndInv, TypeOK, life, Places

(* A step that leaves the window alone. *)
LEMMA TunerFrame ==
    ASSUME IndInv, UNCHANGED <<setup, tunerVars>> PROVE TunerInv'
  BY DEF IndInv, TunerInv, CeilingKept, Ceiling, tunerVars

(* A step that neither samples nor drops. *)
LEMMA EvidenceFrame ==
    ASSUME IndInv, UNCHANGED <<samples, dropped>> PROVE NoDropWithoutEvidence'
  BY DEF IndInv, NoDropWithoutEvidence

-----------------------------------------------------------------------------
(* The inductive invariant, one lemma per group of steps.                  *)

(* A shim that is not started yet. *)
LEMMA InitInd == Init => IndInv
<1> SUFFICES ASSUME Init PROVE IndInv
  OBVIOUS
<1> DEFINE t0 == CHOOSE t \in Types : TRUE
<1>1. t0 \in Types
  BY SendPathAssumption
<1> HIDE DEF t0
<1>2. Signal(t0) \in Signals /\ Signal(t0).entry = 0
  BY <1>1, SignalType
<1>3. /\ setup \in Setups /\ setup.window \in Nat /\ setup.before \subseteq Types
  BY OtlpShimAssumption DEF Init
<1>4. Forwarding = {} /\ Active("grpc") = {}
  BY DEF Init, InitSend, Forwarding, Active, InSend
<1>5. Cardinality(Forwarding) = 0
  BY <1>4, FS_EmptySet
<1>6. SendTypeOK
  <2>1. sig = [s \in Senders |-> Signal(t0)] /\ entries = <<>> /\ Len(entries) = 0
        /\ DOMAIN cache = {}
    BY DEF Init, InitSend, t0
  <2> QED
    BY <2>1, <1>2, <1>3, SendPathAssumption DEF Init, InitSend, SendTypeOK, Ceiling
<1>7. TypeOK
  BY <1>6 DEF TypeOK, Init, InitSend
<1>8. CacheInv
  BY DEF CacheInv, Init, InitSend
<1>9. LifeInv /\ GrpcDrainedFirst
  BY <1>3, <1>4, ZenonT(30) DEF LifeInv, GrpcDrainedFirst, Init
<1>10. TunerInv
  BY <1>3 DEF TunerInv, CeilingKept, Init, InitSend
<1>11. Accounted
  BY <1>5 DEF Accounted, Init, InitSend
<1>12. NoDropWithoutEvidence
  BY DEF NoDropWithoutEvidence, Init, InitSend
<1> QED
  BY <1>7, <1>8, <1>9, <1>10, <1>11, <1>12 DEF IndInv

(* Start, Stop and the client's Connect and Close touch no payload. *)
LEMMA OwnerInd ==
    ASSUME IndInv, Owner PROVE IndInv'
<1>1. UNCHANGED <<sendVars, counts, setup, via, accepted>>
  BY ZenonT(30) DEF Owner, StartHTTP, StartGRPC, Stop, StopHTTP, StopGRPC, ConnectClient, CloseClient
<1>2. SendTypeOK' /\ CacheInv' /\ TunerInv' /\ NoDropWithoutEvidence'
  BY <1>1, ZenonT(30) DEF IndInv, TypeOK, SendTypeOK, CacheInv, TunerInv, CeilingKept, Ceiling,
              NoDropWithoutEvidence, sendVars, cacheVars, tunerVars
<1>3. Forwarding' = Forwarding /\ Active("grpc")' = Active("grpc")
  BY <1>1 DEF Forwarding, Active, sendVars
<1>4. Accounted'
  BY <1>1, <1>3 DEF IndInv, Accounted, counts, sendVars
<1>5. TypeOK' /\ LifeInv' /\ GrpcDrainedFirst'
  <2> USE <1>1, <1>2, <1>3 DEF IndInv, TypeOK, LifeInv, GrpcDrainedFirst, counts, sendVars
  <2>0. setup.ports \subseteq {"http", "grpc"}
    BY OtlpShimAssumption, ZenonT(30)
  <2>1. CASE StartHTTP
    BY <2>1, ZenonT(30) DEF StartHTTP, Bind
  <2>2. CASE StartGRPC
    BY <2>2, ZenonT(30) DEF StartGRPC, Bind
  <2>3. CASE Stop
    BY <2>3 DEF Stop
  <2>4. CASE StopHTTP
    BY <2>4, <2>0, ZenonT(30) DEF StopHTTP
  <2>5. CASE StopGRPC
    BY <2>5, ZenonT(30) DEF StopGRPC
  <2>6. CASE ConnectClient \/ CloseClient
    BY <2>6 DEF ConnectClient, CloseClient
  <2> QED
    BY <2>1, <2>2, <2>3, <2>4, <2>5, <2>6, ZenonT(30) DEF Owner
<1> QED
  BY <1>2, <1>4, <1>5 DEF IndInv

(* A new handler: its listener accepts, so the shim is not closed. *)
LEMMA AcceptInd ==
    ASSUME IndInv, NEW s \in Senders, NEW lis \in setup.ports, NEW t \in Types,
           Accept(s, lis, t)
    PROVE  IndInv'
<1>0. TypeOK /\ SendTypeOK /\ LifeInv /\ Goto(s, "decode") /\ "decode" \in Places
      /\ pc[s] = "idle" /\ lis \in listening /\ lis \in {"http", "grpc"}
      /\ accepted \in Nat /\ accepted' = accepted + 1
      /\ UNCHANGED <<cacheVars, tunerVars, samples, dropped, life, counts>>
  BY OtlpShimAssumption, ZenonT(30) DEF IndInv, TypeOK, LifeInv, Accept, Places
<1>1. /\ pc' \in [Senders -> Places] /\ pc'[s] = "decode"
      /\ \A u \in Senders : u # s => pc'[u] = pc[u]
  BY <1>0, Moved, ZenonT(30)
<1>2. Signal(t) \in Signals /\ Signal(t).entry = 0
  BY SignalType
<1> DEFINE g == Signal(t)
<1> HIDE DEF g
<1>3. sig' = [sig EXCEPT ![s] = g] /\ g \in Signals /\ g.entry = 0
  BY <1>2, ZenonT(30) DEF Accept, g
<1>4. sig' \in [Senders -> Signals] /\ sig'[s] = g
      /\ \A u \in Senders : u # s => sig'[u] = sig[u]
  BY <1>3, <1>0, ZenonT(30) DEF SendTypeOK
<1>5. SendTypeOK'
  <2>1. samples' \in 0 .. HistorySize /\ dropped' \in Nat
    BY <1>0, ZenonT(30) DEF SendTypeOK
  <2>2. \A u \in Senders : sig[u].entry <= Len(entries) /\ 0 <= Len(entries)
    BY <1>0 DEF SendTypeOK
  <2>3. \A u \in Senders : sig'[u].entry <= Len(entries)
    BY <1>3, <1>4, <2>2, ZenonT(30)
  <2> QED BY <1>0, <1>4, <2>1, <2>3, SendFrame, ZenonT(30)
<1>6. via' \in [Senders -> {"http", "grpc"}] /\ via'[s] = lis
      /\ \A u \in Senders : u # s => via'[u] = via[u]
  BY <1>0, ZenonT(30) DEF Accept, TypeOK
<1>7. TypeOK'
  <2>1. accepted' \in Nat
    BY <1>0, SMTT(30)
  <2>2. received' \in Nat /\ fwdErrs' \in Nat /\ delivered' \in Nat
    BY <1>0, ZenonT(30) DEF TypeOK, counts
  <2> QED BY <1>0, <1>1, <1>5, <1>6, <2>1, <2>2, ShimTypes, ZenonT(30)
<1>8. CacheInv'
  BY <1>0, <1>1, <1>4, CacheFrame, ZenonT(30) DEF cacheVars
<1>9. ~closed /\ listening \subseteq held
  <2>1. owner \in {"new", "grpc", "running", "http"}
    BY <1>0, ZenonT(30) DEF LifeInv, TypeOK
  <2> QED BY <1>0, <2>1, ZenonT(30) DEF LifeInv
<1>10. Active("grpc")' \subseteq Active("grpc") \cup {s}
       /\ (lis # "grpc" => Active("grpc")' \subseteq Active("grpc"))
  BY <1>1, <1>6 DEF Active
<1>11. LifeInv' /\ GrpcDrainedFirst'
  BY <1>0, <1>9, <1>10, ZenonT(30) DEF LifeInv, GrpcDrainedFirst, life
<1>12. Cardinality(Forwarding') = Cardinality(Forwarding)
  BY <1>0, ForwardingCount, ZenonT(30) DEF Inside, InSend
<1>13. Accounted'
  BY <1>0, <1>12, ZenonT(30) DEF IndInv, Accounted, counts
<1> QED
  BY <1>0, <1>5, <1>7, <1>8, <1>11, <1>13, TunerFrame, EvidenceFrame, ZenonT(30) DEF IndInv, life

(* Reject, and the last step of a payload that was forwarded or not. *)
LEMMA EndInd ==
    ASSUME IndInv, NEW s \in Senders,
           Reject(s) \/ CoreAnswers(s) \/ CallFails(s) \/ Transmit(s)
    PROVE  IndInv'
<1>0. /\ TypeOK /\ SendTypeOK /\ Goto(s, "idle") /\ "idle" \in Places
      /\ pc[s] \in {"decode", "export", "transmit", "proto"}
      /\ UNCHANGED <<cacheVars, tunerVars, samples, dropped, sig, received, life, via,
                     accepted>>
      /\ received \in Nat /\ fwdErrs \in Nat /\ delivered \in Nat /\ dropped \in Nat
  BY ZenonT(30) DEF IndInv, TypeOK, SendTypeOK, Reject, CoreAnswers, CallFails, Transmit, Done, Failed,
         Places, counts
<1>1. /\ pc' \in [Senders -> Places] /\ pc'[s] = "idle"
      /\ \A u \in Senders : u # s => pc'[u] = pc[u]
  BY <1>0, Moved
<1>2. SendTypeOK'
  BY <1>0, ZenonT(30) DEF SendTypeOK, cacheVars, tunerVars
<1>3. \/ pc[s] = "decode" /\ UNCHANGED <<fwdErrs, delivered>>
      \/ pc[s] # "decode" /\ fwdErrs' = fwdErrs + 1 /\ UNCHANGED delivered
      \/ pc[s] # "decode" /\ delivered' = delivered + 1 /\ UNCHANGED fwdErrs
  BY DEF Reject, CoreAnswers, CallFails, Transmit, Done, Failed, counts
<1>4. TypeOK'
  BY <1>0, <1>1, <1>2, <1>3, ShimFrame
<1>5. CacheInv'
  BY <1>0, <1>1, CacheFrame, ZenonT(30) DEF cacheVars
<1>6. LifeInv' /\ GrpcDrainedFirst'
  BY <1>0, <1>1, HandlerLife
<1>7. /\ Cardinality(Forwarding) \in Nat
      /\ pc[s] = "decode" => Cardinality(Forwarding') = Cardinality(Forwarding)
      /\ pc[s] # "decode" => /\ Cardinality(Forwarding') \in Nat
                             /\ Cardinality(Forwarding) = Cardinality(Forwarding') + 1
  <2>1. "idle" \notin Inside /\ "decode" \notin Inside
        /\ (pc[s] # "decode" => pc[s] \in Inside)
    BY <1>0 DEF Inside, InSend
  <2>2. Cardinality(Forwarding') \in Nat
    <3>1. Forwarding' \subseteq Senders
      BY DEF Forwarding
    <3> QED BY <3>1, FS_Subset, FS_CardinalityType, SendPathAssumption
  <2> QED BY <1>0, <2>1, <2>2, ForwardingCount
<1>8. Accounted'
  BY <1>0, <1>3, <1>7 DEF IndInv, Accounted
<1> QED
  BY <1>0, <1>4, <1>5, <1>6, <1>8, TunerFrame, EvidenceFrame DEF IndInv, life

(* recv* counts the payload and hands it to its path. *)
LEMMA ReceiveInd ==
    ASSUME IndInv, NEW s \in Senders, Receive(s) PROVE IndInv'
<1>0. /\ TypeOK /\ SendTypeOK /\ pc[s] = "decode" /\ received' = received + 1
      /\ UNCHANGED <<entries, cache, refreshers, blocked, reblocked, tunerVars, samples,
                     dropped, life, via, accepted>>
      /\ received \in Nat /\ fwdErrs \in Nat /\ delivered \in Nat /\ dropped \in Nat
      /\ sig[s] \in Signals /\ sig[s].type \in Types
  BY ZenonT(30) DEF IndInv, TypeOK, SendTypeOK, Receive, Signals
<1>1. PICK p \in {"export", "proto", "load", "idle"} :
        /\ Goto(s, p)
        /\ p = "idle" => fwdErrs' = fwdErrs + 1 /\ UNCHANGED <<seen, sig, delivered>>
        /\ p \in {"export", "proto"} => UNCHANGED <<seen, sig, fwdErrs, delivered>>
        /\ p = "load" => Extract(s) /\ UNCHANGED <<fwdErrs, delivered>>
  <2>1. CASE setup.path = "A"
    BY <2>1 DEF Receive
  <2>2. CASE setup.path = "C"
    BY <2>2 DEF Receive
  <2>3. CASE setup.path = "B" /\ Established
    BY <2>3 DEF Receive
  <2>4. CASE setup.path = "B" /\ ~Established
    BY <2>4 DEF Receive, Failed
  <2>5. setup.path \in {"A", "B", "C"}
    BY OtlpShimAssumption DEF IndInv, LifeInv
  <2> QED BY <2>1, <2>2, <2>3, <2>4, <2>5, ZenonT(30)
<1>2. p \in Places
  BY DEF Places, InSend
<1>3. /\ pc' \in [Senders -> Places] /\ pc'[s] = p
      /\ \A u \in Senders : u # s => pc'[u] = pc[u]
  BY <1>0, <1>1, <1>2, Moved, ZenonT(30)
<1>4. /\ sig' \in [Senders -> Signals] /\ sig'[s].entry = sig[s].entry /\ seen' \subseteq Types
      /\ \A u \in Senders : u # s => sig'[u] = sig[u]
  <2>1. CASE p # "load"
    BY <1>0, <1>1, <2>1, ZenonT(30) DEF SendTypeOK
  <2>2. CASE p = "load"
    <3>1. PICK r \in Rarities, l \in Levels :
            sig' = [sig EXCEPT ![s] = [sig[s] EXCEPT !.key = Extracted(sig[s].type, r, l)]]
      BY <1>0, <1>1, <2>2 DEF Extract, SendTypeOK
    <3>2. Extracted(sig[s].type, r, l) \in Keys
      BY <1>0, ZenonT(40) DEF Extracted, Keys
    <3> DEFINE g == [sig[s] EXCEPT !.key = Extracted(sig[s].type, r, l)]
    <3>3. g \in Signals /\ g.entry = sig[s].entry
      BY <1>0, <3>2, SignalForms
    <3> HIDE DEF g
    <3>4. sig' = [sig EXCEPT ![s] = g]
      BY <3>1 DEF g
    <3>5. seen' \subseteq Types
      BY <1>0, <1>1, <2>2 DEF Extract, SendTypeOK
    <3> QED BY <3>3, <3>4, <3>5, <1>0, ZenonT(30) DEF SendTypeOK
  <2> QED BY <2>1, <2>2
<1>5. SendTypeOK'
  <2>1. \A u \in Senders : sig'[u].entry = sig[u].entry
    BY <1>4
  <2> QED BY <1>0, <1>4, <2>1, ZenonT(30) DEF SendTypeOK, tunerVars
<1>6. TypeOK'
  <2>0. received' = received + 1 /\ received \in Nat
    BY <1>0, Zenon
  <2>1. received' \in Nat
    BY <2>0
  <2>2. (fwdErrs' = fwdErrs + 1 \/ fwdErrs' = fwdErrs) /\ delivered' = delivered
    BY <1>1, Zenon
  <2>3. received \in Nat /\ fwdErrs \in Nat /\ delivered \in Nat
    BY <1>0, ZenonT(30)
  <2>4. fwdErrs' \in Nat /\ delivered' \in Nat
    BY <2>2, <2>3
  <2> QED BY <1>0, <1>3, <1>5, <2>1, <2>4, ShimFrame, ZenonT(40)
<1>7. CacheInv'
  BY <1>0, <1>1, <1>3, <1>4, CacheFrame, ZenonT(30)
<1>8. LifeInv' /\ GrpcDrainedFirst'
  BY <1>0, <1>3, HandlerLife, ZenonT(40)
<1>9. /\ Cardinality(Forwarding) \in Nat
      /\ Cardinality(Forwarding') = Cardinality(Forwarding) + IF p = "idle" THEN 0 ELSE 1
  <2>1. pc[s] \notin Inside /\ (p \in Inside <=> p # "idle")
    BY <1>0 DEF Inside, InSend
  <2>2. TypeOK /\ Goto(s, p)
    BY <1>0, <1>1, ZenonT(30)
  <2>3. /\ Cardinality(Forwarding) \in Nat
        /\ p \notin Inside => Cardinality(Forwarding') = Cardinality(Forwarding)
        /\ p \in Inside => Cardinality(Forwarding') = Cardinality(Forwarding) + 1
    BY <1>2, <2>1, <2>2, ForwardingCount
  <2> QED BY <2>1, <2>3
<1>10. Accounted'
  <2>1. received = delivered + dropped + fwdErrs + Cardinality(Forwarding)
    BY DEF IndInv, Accounted
  <2>2. received' = received + 1 /\ UNCHANGED dropped
    BY <1>0, Zenon
  <2>3. /\ received \in Nat /\ fwdErrs \in Nat /\ delivered \in Nat /\ dropped \in Nat
        /\ Cardinality(Forwarding) \in Nat
    BY <1>0, <1>9, Zenon
  <2>4. CASE p = "idle"
    <3>1. fwdErrs' = fwdErrs + 1 /\ UNCHANGED delivered
          /\ Cardinality(Forwarding') = Cardinality(Forwarding)
      BY <1>1, <1>9, <2>3, <2>4
    <3> QED BY <2>1, <2>2, <2>3, <3>1 DEF Accounted
  <2>5. CASE p # "idle"
    <3>1. UNCHANGED <<fwdErrs, delivered>>
          /\ Cardinality(Forwarding') = Cardinality(Forwarding) + 1
      BY <1>1, <1>9, <2>5
    <3> QED BY <2>1, <2>2, <2>3, <3>1 DEF Accounted
  <2> QED BY <2>4, <2>5
<1> QED
  BY <1>0, <1>6, <1>7, <1>8, <1>10, TunerFrame, EvidenceFrame, ZenonT(30) DEF IndInv, life

(* A deferred payload leaves its handler for the dropped counter, and only *)
(* once there were RTT samples enough to predict congestion.               *)
LEMMA ShapeInd ==
    ASSUME IndInv, NEW s \in Senders, Shape(s), UNCHANGED <<life, counts, via, accepted>>
    PROVE  IndInv'
<1>0. /\ TypeOK /\ SendTypeOK /\ pc[s] = "shape"
      /\ UNCHANGED <<cacheVars, tunerVars, samples>>
      /\ received \in Nat /\ fwdErrs \in Nat /\ delivered \in Nat /\ dropped \in Nat
      /\ sig[s] \in Signals /\ sig[s].type \in Types
  BY ZenonT(30) DEF IndInv, TypeOK, SendTypeOK, Shape, Signals
<1> DEFINE g == Signal(sig[s].type)
<1>1. g \in Signals /\ g.entry = 0
  BY <1>0, SignalType, ZenonT(30)
<1> HIDE DEF g
<1>2. /\ sig' \in [Senders -> Signals] /\ sig'[s] = g
      /\ \A u \in Senders : u # s => sig'[u] = sig[u]
  BY <1>0, <1>1, ZenonT(30) DEF Shape, SendTypeOK, g
<1>3. PICK p \in {"idle", "transmit"} :
        /\ Goto(s, p)
        /\ p = "idle" => dropped' = dropped + 1 /\ samples >= MinSamples
        /\ p = "transmit" => dropped' = dropped
  <2>1. PICK a \in Predictions :
          IF a \in {"reduce", "defer"} /\ sig[s].tier = Besteff
          THEN Goto(s, "idle") /\ dropped' = dropped + 1
          ELSE Goto(s, "transmit") /\ UNCHANGED dropped
    BY DEF Shape
  <2>2. a \in {"reduce", "defer"} => samples >= MinSamples
    BY <1>0, <2>1, SendPathAssumption, SMTT(30) DEF Predictions, SendTypeOK
  <2> QED BY <2>1, <2>2
<1>4. p \in Places
  BY DEF Places, InSend
<1>5. /\ pc' \in [Senders -> Places] /\ pc'[s] = p
      /\ \A u \in Senders : u # s => pc'[u] = pc[u]
  BY <1>0, <1>3, <1>4, Moved, ZenonT(30)
<1>6. SendTypeOK'
  <2>1. dropped' \in Nat
    BY <1>0, <1>3
  <2>2. samples' \in 0 .. HistorySize
    BY <1>0, ZenonT(30) DEF SendTypeOK
  <2>3. \A u \in Senders : sig[u].entry <= Len(entries) /\ 0 <= Len(entries)
    BY <1>0 DEF SendTypeOK
  <2>4. \A u \in Senders : sig'[u].entry <= Len(entries)
    BY <1>1, <1>2, <2>3, ZenonT(30)
  <2> QED BY <1>0, <1>2, <2>1, <2>2, <2>4, SendFrame, ZenonT(30)
<1>7. TypeOK'
  BY <1>0, <1>5, <1>6, ShimFrame, ZenonT(30) DEF counts
<1>8. CacheInv'
  BY <1>0, <1>2, <1>5, CacheFrame, ZenonT(30) DEF cacheVars
<1>9. LifeInv' /\ GrpcDrainedFirst'
  BY <1>0, <1>5, HandlerLife, ZenonT(30)
<1>10. /\ Cardinality(Forwarding) \in Nat /\ Cardinality(Forwarding') \in Nat
       /\ Cardinality(Forwarding) = Cardinality(Forwarding') + IF p = "idle" THEN 1 ELSE 0
  <2>1. pc[s] \in Inside /\ (p \in Inside <=> p # "idle")
    BY <1>0, <1>3, ZenonT(30) DEF Inside, InSend
  <2>2. Cardinality(Forwarding') \in Nat
    <3>1. Forwarding' \subseteq Senders
      BY DEF Forwarding
    <3> QED BY <3>1, FS_Subset, FS_CardinalityType, SendPathAssumption
  <2>3. TypeOK /\ Goto(s, p)
    BY <1>0, <1>3, ZenonT(30)
  <2>4. /\ Cardinality(Forwarding) \in Nat
        /\ p \in Inside => Cardinality(Forwarding') = Cardinality(Forwarding)
        /\ p \notin Inside => Cardinality(Forwarding) = Cardinality(Forwarding') + 1
    BY <1>4, <2>1, <2>3, ForwardingCount
  <2> QED BY <2>1, <2>2, <2>4
<1>11. Accounted'
  <2>1. received = delivered + dropped + fwdErrs + Cardinality(Forwarding)
    BY DEF IndInv, Accounted
  <2>2. UNCHANGED <<received, delivered, fwdErrs>>
    BY DEF counts
  <2>3. received' = delivered' + dropped' + fwdErrs' + Cardinality(Forwarding')
    <3>1. CASE p = "idle"
      <4>1. dropped' = dropped + 1 /\ Cardinality(Forwarding) = Cardinality(Forwarding') + 1
        BY <1>3, <1>10, <3>1
      <4>2. /\ received \in Nat /\ fwdErrs \in Nat /\ delivered \in Nat /\ dropped \in Nat
            /\ Cardinality(Forwarding) \in Nat /\ Cardinality(Forwarding') \in Nat
        BY <1>0, <1>10
      <4> QED BY <2>1, <2>2, <4>1, <4>2
    <3>2. CASE p = "transmit"
      <4>1. dropped' = dropped /\ Cardinality(Forwarding') = Cardinality(Forwarding)
        BY <1>3, <1>10, <3>2
      <4> QED BY <2>1, <2>2, <4>1
    <3> QED BY <3>1, <3>2
  <2> QED BY <2>3 DEF Accounted
<1>12. NoDropWithoutEvidence'
  BY <1>0, <1>3 DEF IndInv, NoDropWithoutEvidence
<1> QED
  BY <1>0, <1>7, <1>8, <1>9, <1>11, <1>12, TunerFrame, ZenonT(30) DEF IndInv, life

(* The steps of sendSignal up to the transmission. *)
LEMMA ClassifyInd ==
    ASSUME IndInv, NEW s \in Senders, Classify(s) PROVE IndInv'
<1>0. UNCHANGED <<life, counts, via, accepted>> /\ TypeOK
  BY DEF Classify, IndInv
<1>1. ASSUME NEW p \in InSend, Goto(s, p), pc[s] \in InSend, SendTypeOK', CacheInv',
             UNCHANGED <<samples, tunerVars, dropped>>
      PROVE  IndInv'
  <2>1. p \in Places /\ p \in Inside /\ pc[s] \in Inside /\ pc[s] # "idle"
    BY <1>1 DEF Places, Inside, InSend
  <2>2. /\ pc' \in [Senders -> Places] /\ \A u \in Senders : u # s => pc'[u] = pc[u]
    BY <1>0, <1>1, <2>1, Moved
  <2>3. TypeOK'
    BY <1>0, <1>1, <2>2, ShimFrame, ZenonT(40) DEF counts, TypeOK
  <2>4. LifeInv' /\ GrpcDrainedFirst'
    BY <1>0, <2>1, <2>2, HandlerLife
  <2>5. Cardinality(Forwarding') = Cardinality(Forwarding)
    BY <1>0, <1>1, <2>1, ForwardingCount
  <2>6. Accounted'
    BY <1>0, <1>1, <2>5 DEF IndInv, Accounted, counts
  <2> QED
    BY <1>0, <1>1, <2>3, <2>4, <2>6, TunerFrame, EvidenceFrame DEF IndInv, life
<1>2. CASE Load(s)
  <2>1. SendTypeOK' /\ CacheInv'
    BY <1>2, LoadCache
  <2>2. \E p \in InSend : Goto(s, p)
    BY <1>2 DEF Load, InSend
  <2>3. pc[s] \in InSend /\ UNCHANGED <<samples, tunerVars, dropped>>
    BY <1>2 DEF Load, InSend
  <2> QED BY <1>1, <2>1, <2>2, <2>3
<1>3. CASE Hit(s)
  <2>1. SendTypeOK' /\ CacheInv'
    BY <1>3, HitCache
  <2>2. \E p \in InSend : Goto(s, p)
    BY <1>3 DEF Hit, InSend
  <2>3. pc[s] \in InSend /\ UNCHANGED <<samples, tunerVars, dropped>>
    BY <1>3 DEF Hit, InSend
  <2> QED BY <1>1, <2>1, <2>2, <2>3
<1>4. CASE Miss(s)
  <2>1. SendTypeOK' /\ CacheInv'
    BY <1>4, MissCache
  <2>2. \E p \in InSend : Goto(s, p)
    BY <1>4 DEF Miss, InSend
  <2>3. pc[s] \in InSend /\ UNCHANGED <<samples, tunerVars, dropped>>
    BY <1>4 DEF Miss, InSend
  <2> QED BY <1>1, <2>1, <2>2, <2>3
<1>5. CASE Shape(s)
  BY <1>0, <1>5, ShapeInd
<1> QED
  BY <1>2, <1>3, <1>4, <1>5 DEF Classify

(* Refreshers, the passing of cacheTTL, RTT samples and the tuner. *)
LEMMA BesideInd ==
    ASSUME IndInv, CacheSteps \/ ClientLoops, UNCHANGED <<life, counts, via, accepted>>
    PROVE  IndInv'
<1>0. TypeOK /\ SendTypeOK /\ CacheInv
  BY DEF IndInv, TypeOK
<1>1. UNCHANGED <<pc, sig, dropped>>
  BY DEF CacheSteps, ClientLoops, Refresh, Expire, RecordRTT, TunerTick
<1>2. Forwarding' = Forwarding /\ Active("grpc")' = Active("grpc")
  BY <1>1 DEF Forwarding, Active
<1>3. Accounted' /\ LifeInv' /\ GrpcDrainedFirst'
  BY <1>1, <1>2 DEF IndInv, Accounted, LifeInv, GrpcDrainedFirst, counts, life
<1>4. SendTypeOK' /\ CacheInv' /\ TunerInv' /\ NoDropWithoutEvidence'
  <2>1. CASE CacheSteps
    <3>1. SendTypeOK' /\ CacheInv'
      BY <2>1, RefreshCache, ExpireCache DEF CacheSteps
    <3>2. UNCHANGED <<setup, tunerVars, samples, dropped>>
      BY <2>1 DEF CacheSteps, Refresh, Expire, life
    <3> QED BY <3>1, <3>2, TunerFrame, EvidenceFrame
  <2>2. CASE RecordRTT
    <3>1. samples \in Nat /\ samples <= HistorySize
          /\ samples' = IF samples + 1 <= HistorySize THEN samples + 1 ELSE HistorySize
      BY <1>0, <2>2, MinOfTwo, SendPathAssumption DEF SendTypeOK, RecordRTT
    <3>2. UNCHANGED <<cacheVars, tunerVars, setup>>
      BY <2>2 DEF RecordRTT, life
    <3>3. SendTypeOK' /\ CacheInv'
      <4>1. samples' \in 0 .. HistorySize
        BY <3>1, SendPathAssumption
      <4>2. /\ dropped' \in Nat /\ sig' \in [Senders -> Signals]
            /\ \A u \in Senders : sig'[u].entry <= Len(entries)
        BY <1>0, <1>1, ZenonT(30) DEF SendTypeOK
      <4>3. SendTypeOK'
        BY <1>0, <3>2, <4>1, <4>2, SendFrame, ZenonT(30)
      <4>4. CacheInv'
        BY <1>0, <1>1, <3>2, ZenonT(30) DEF CacheInv, cacheVars
      <4> QED BY <4>3, <4>4
    <3>4. NoDropWithoutEvidence'
      BY <1>1, <3>1, SendPathAssumption DEF IndInv, NoDropWithoutEvidence
    <3> QED BY <3>2, <3>3, <3>4, TunerFrame
  <2>3. CASE TunerTick
    <3>1. PICK a \in Actions : maxInflight' = Target(ceiling, a)
      BY <2>3 DEF TunerTick, Predictions, Actions
    <3>2. UNCHANGED <<cacheVars, ceiling, samples, setup>>
      BY <2>3 DEF TunerTick, life
    <3>3. maxInflight' \in Nat /\ (ceiling >= MinWindow => maxInflight' <= ceiling)
      BY <1>0, <3>1, TargetBound DEF SendTypeOK
    <3>4. SendTypeOK' /\ CacheInv'
      BY <1>0, <1>1, <3>2, <3>3, ZenonT(30) DEF SendTypeOK, CacheInv, cacheVars
    <3>5. TunerInv'
      <4>1. setup.window \in Nat
        BY OtlpShimAssumption DEF IndInv, LifeInv
      <4> QED
        BY <3>2, <3>3, <4>1 DEF IndInv, TunerInv, CeilingKept, Ceiling, MinWindow
    <3> QED BY <3>2, <3>4, <3>5, <1>1, EvidenceFrame
  <2> QED
    BY <2>1, <2>2, <2>3 DEF ClientLoops
<1>5. TypeOK'
  BY <1>0, <1>1, <1>4, ShimFrame, ZenonT(30) DEF TypeOK, counts, Places
<1> QED
  BY <1>3, <1>4, <1>5 DEF IndInv

(* IndInv is an invariant of the shim for every setup and any number of    *)
(* handlers, entries and samples.                                          *)
THEOREM Invariance == Spec => []IndInv
<1>1. IndInv /\ [Next]_vars => IndInv'
  <2> SUFFICES ASSUME IndInv, [Next]_vars PROVE IndInv'
    OBVIOUS
  <2>1. CASE Owner
    BY <2>1, OwnerInd
  <2>2. ASSUME NEW s \in Senders, Handler(s) PROVE IndInv'
    <3>1. CASE \E lis \in setup.ports, t \in Types : Accept(s, lis, t)
      BY <3>1, AcceptInd, ZenonT(30)
    <3>2. CASE Reject(s) \/ CoreAnswers(s) \/ CallFails(s) \/ Transmit(s)
      BY <3>2, EndInd
    <3>3. CASE Receive(s)
      BY <3>3, ReceiveInd
    <3>4. CASE Classify(s)
      BY <3>4, ClassifyInd
    <3> QED
      BY <2>2, <3>1, <3>2, <3>3, <3>4, ZenonT(30) DEF Handler
  <2>3. CASE CacheSteps /\ UNCHANGED <<life, counts, via, accepted>>
    BY <2>3, BesideInd
  <2>4. CASE Established /\ ClientLoops /\ UNCHANGED <<life, counts, via, accepted>>
    BY <2>4, BesideInd
  <2>5. CASE UNCHANGED vars
    <3>1. UNCHANGED <<sendVars, life, counts, via, accepted>>
      BY <2>5 DEF vars
    <3>2. Forwarding' = Forwarding /\ Active("grpc")' = Active("grpc")
      BY <3>1, ZenonT(30) DEF Forwarding, Active, sendVars
    <3>3. TypeOK'
      BY <3>1, ZenonT(30) DEF IndInv, TypeOK, SendTypeOK, sendVars, cacheVars, tunerVars, life, counts
    <3>4. LifeInv' /\ GrpcDrainedFirst'
      BY <3>1, <3>2, ZenonT(30) DEF IndInv, LifeInv, GrpcDrainedFirst, life
    <3>5. CacheInv'
      BY <3>1, ZenonT(30) DEF IndInv, CacheInv, sendVars, cacheVars
    <3>6. TunerInv'
      BY <3>1 DEF IndInv, TunerInv, CeilingKept, Ceiling, sendVars, tunerVars, life
    <3>7. Accounted' /\ NoDropWithoutEvidence'
      BY <3>1, <3>2 DEF IndInv, Accounted, NoDropWithoutEvidence, sendVars, counts
    <3> QED
      BY <3>3, <3>4, <3>5, <3>6, <3>7 DEF IndInv
  <2> QED
    BY <2>1, <2>2, <2>3, <2>4, <2>5 DEF Next
<1> QED
  BY InitInd, <1>1, PTL DEF Spec

(* The tiers, references and counters of the client keep their types.      *)
THEOREM TypeCorrect == Spec => []TypeOK
<1>1. IndInv => TypeOK
  BY DEF IndInv
<1> QED
  BY <1>1, Invariance, PTL

(* Every payload the shim counts is delivered, deferred, counted as a      *)
(* forward error or still in its handler.                                  *)
THEOREM PayloadsAccounted == Spec => []Accounted
<1>1. IndInv => Accounted
  BY DEF IndInv
<1> QED
  BY <1>1, Invariance, PTL

(* Stop closes the forwarder after the last gRPC call.                     *)
THEOREM StopDrainsCalls == Spec => []GrpcDrainedFirst
<1>1. IndInv => GrpcDrainedFirst
  BY DEF IndInv
<1> QED
  BY <1>1, Invariance, PTL

(* Nothing accepts exports after Stop, also when Start had failed half way. *)
THEOREM StopClosesListeners == Spec => []NothingListening
<1>1. IndInv => NothingListening
  BY DEF IndInv, LifeInv, NothingListening
<1> QED
  BY <1>1, Invariance, PTL

(* No cache entry is refreshed twice.                                      *)
THEOREM EntriesRefreshedOnce == Spec => []OneRefreshPerEntry
<1>1. IndInv => OneRefreshPerEntry
  BY DEF IndInv, CacheInv, OneRefreshPerEntry
<1> QED
  BY <1>1, Invariance, PTL

(* A sender waits for the classification of a key once at most.            *)
THEOREM SendersBlockedOnce == Spec => []BlockedOncePerKey
<1>1. IndInv => BlockedOncePerKey
  BY DEF IndInv, CacheInv, BlockedOncePerKey
<1> QED
  BY <1>1, Invariance, PTL

(* The tuner stays below the configured window.                            *)
THEOREM WindowBelowCeiling == Spec => []CeilingKept
<1>1. IndInv => CeilingKept
  BY DEF IndInv, TunerInv
<1> QED
  BY <1>1, Invariance, PTL

(* Nothing is shed without RTT samples.                                    *)
THEOREM SheddingNeedsSamples == Spec => []NoDropWithoutEvidence
<1>1. IndInv => NoDropWithoutEvidence
  BY DEF IndInv
<1> QED
  BY <1>1, Invariance, PTL
=============================================================================
