------------------------------- MODULE SendPath -------------------------------
(***************************************************************************)
(* What the client does to a signal before it is transmitted:              *)
(* internal/transport/agenticudp.go (sendSignal, congestionTunerLoop),     *)
(* ai_features.go, ai_classifier.go and ai_congestion.go.  Several         *)
(* goroutines send at once; cached classifications are refreshed by        *)
(* goroutines of their own, and the tuner changes the window meanwhile.    *)
(*                                                                         *)
(* Floating-point scores are abstracted to what is decided with them.      *)
(* Nothing in the repository calls UpdateEntropy, so the regime is always  *)
(* "stable" and the anomaly score 0: neither is part of a cache key here.  *)
(***************************************************************************)
EXTENDS Integers, Sequences, FiniteSets, FiniteSetsExt

CONSTANTS
    Senders,       \* goroutines that send
    Types,         \* signal types sent
    Levels,        \* congestion levels the loss rate reaches
    LLM,           \* an LLM provider is configured
    RawTiers,      \* numbers an LLM answers with
    Fallback,      \* "thompson", "guaranteed" or "rule"
    MinSamples,    \* RTT samples Predict wants (10)
    HistorySize,   \* RTT samples kept (300)
    DefaultWindow  \* defaultMaxInflightFromEnv

Tiers == 0 .. 2          \* guaranteed, reliable, best effort
Besteff == 2
MinWindow == 4
Rarities == {"routine", "first-seen", "schema-change"}
Keys == [type : Types, level : Levels, rarity : Rarities]
Actions == {"normal", "pace", "reduce", "defer"}

ASSUME SendPathAssumption ==
    /\ Levels \subseteq {"low", "medium", "high"} /\ LLM \in BOOLEAN
    /\ RawTiers \subseteq Int
    /\ Fallback \in {"thompson", "guaranteed", "rule"}
    /\ MinSamples \in Nat \ {0} /\ HistorySize \in Nat /\ MinSamples <= HistorySize
    /\ DefaultWindow \in Nat \ {0}
    /\ IsFiniteSet(Senders) /\ Types # {} /\ Levels # {}

VARIABLES
    seen,          \* signal types the FeatureExtractor has counted
    entries,       \* the cache entries ever allocated, in order
    cache,         \* key -> position of its entry in entries
    refreshers,    \* positions of the entries a goroutine is refreshing
    samples,       \* number of RTT samples held
    maxInflight,   \* the window
    ceiling,       \* what the tuner read when it started
    dropped,       \* signals deferred, and so dropped
    pc,            \* sender -> its place in sendSignal
    sig,           \* sender -> the signal in hand: type, key, entry, tier
    blocked,       \* history: <<sender, key>> that waited for a classification
    reblocked      \* history: one of them waited for it again

cacheVars == <<seen, entries, cache, refreshers, blocked, reblocked>>
tunerVars == <<maxInflight, ceiling>>
sendVars == <<cacheVars, tunerVars, samples, dropped, pc, sig>>

InSend == {"load", "loaded", "fresh", "shape", "transmit"}
Signals == [type : Types, key : Keys, entry : Nat, tier : Tiers]
NoKey == CHOOSE k \in Keys : TRUE
Signal(t) == [type |-> t, key |-> NoKey, entry |-> 0, tier |-> Besteff]

(* congestionTunerLoop starts with the session: it reads the ceiling once. *)
Ceiling(window) == IF window = 0 THEN DefaultWindow ELSE window

(* The client is the agent's own, with this window: it may have sent       *)
(* signals of some types before.                                           *)
InitSend(window, before) ==
    /\ seen = before /\ entries = <<>> /\ cache = [k \in {} |-> 0]
    /\ refreshers = {} /\ samples = 0 /\ dropped = 0
    /\ maxInflight = window /\ ceiling = Ceiling(window)
    /\ pc = [s \in Senders |-> "idle"]
    /\ sig = [s \in Senders |-> Signal(CHOOSE t \in Types : TRUE)]
    /\ blocked = {} /\ reblocked = FALSE

Goto(s, place) == pc' = [pc EXCEPT ![s] = place]

-----------------------------------------------------------------------------
(* Classification.                                                         *)

(* parseClassificationJSON: the number is narrowed to a byte, then clamped. *)
Narrow_Unclamped(n) == n % 256
Narrow(n) == IF n % 256 > Besteff THEN Besteff ELSE n % 256

(* classifyRuleBased for a stable regime without anomalies. *)
RuleTier(k) == IF k.rarity = "routine" THEN Besteff ELSE 0

(* classifyDeterministic.  Thompson sampling draws any tier. *)
FallbackTiers(k) ==
    CASE Fallback = "thompson"   -> Tiers
      [] Fallback = "guaranteed" -> {0}
      [] Fallback = "rule"       -> {RuleTier(k)}

(* classifyFresh: the LLM's answer, or the fallback when the call failed,  *)
(* timed out after 2 s or gave no JSON.                                    *)
FreshTiers(k) ==
    FallbackTiers(k) \cup (IF LLM THEN {Narrow(n) : n \in RawTiers} ELSE {})

EntryRecords == [key : Keys, tier : Tiers, expired : BOOLEAN, refreshing : BOOLEAN,
                 refreshes : Nat]
Entry(k, t) == [key |-> k, tier |-> t, expired |-> FALSE, refreshing |-> FALSE,
                refreshes |-> 0]
Claimed(e) == [key |-> e.key, tier |-> e.tier, expired |-> e.expired,
               refreshing |-> TRUE, refreshes |-> e.refreshes + 1]

(* cache.Store of a new entry. *)
Store(k, t) ==
    /\ entries' = Append(entries, Entry(k, t))
    /\ cache' = [x \in DOMAIN cache \cup {k} |->
                    IF x = k THEN Len(entries) + 1 ELSE cache[x]]

Extracted(t, rarity, level) == [type |-> t, level |-> level, rarity |-> rarity]

(* sendSignal up to the cache lookup: Extract counts the signal.  The      *)
(* first of its type is "first-seen"; one after five minutes of silence    *)
(* counts as a "schema-change".                                            *)
Extract(s) ==
    /\ \E rarity \in Rarities, level \in Levels :
         /\ (rarity = "first-seen") <=> (sig[s].type \notin seen)
         /\ sig' = [sig EXCEPT ![s].key = Extracted(sig[s].type, rarity, level)]
    /\ seen' = seen \cup {sig[s].type}

(* Classify: the lookup. *)
Load(s) ==
    LET k == sig[s].key IN
    /\ pc[s] = "load"
    /\ IF k \in DOMAIN cache
       THEN /\ sig' = [sig EXCEPT ![s].entry = cache[k]]
            /\ Goto(s, "loaded") /\ UNCHANGED <<blocked, reblocked>>
       ELSE /\ Goto(s, "fresh") /\ blocked' = blocked \cup {<<s, k>>}
            /\ reblocked' = (reblocked \/ <<s, k>> \in blocked) /\ UNCHANGED sig
    /\ UNCHANGED <<seen, entries, cache, refreshers, samples, tunerVars, dropped>>

(* Classify: a hit.  An expired entry is refreshed by the one goroutine    *)
(* whose compare-and-swap finds it not refreshing; its tier is used anyway. *)
Hit_NoSwap(s) ==
    LET i == sig[s].entry
        e == entries[i] IN
    /\ pc[s] = "loaded"
    /\ IF e.expired
       THEN /\ entries' = [entries EXCEPT ![i] = Claimed(@)]
            /\ refreshers' = refreshers \cup {i}
       ELSE UNCHANGED <<entries, refreshers>>
    /\ sig' = [sig EXCEPT ![s].tier = e.tier] /\ Goto(s, "shape")
    /\ UNCHANGED <<seen, cache, blocked, reblocked, samples, tunerVars, dropped>>

Hit(s) ==
    LET i == sig[s].entry
        e == entries[i] IN
    /\ pc[s] = "loaded"
    /\ IF e.expired /\ ~e.refreshing
       THEN /\ entries' = [entries EXCEPT ![i] = Claimed(@)]
            /\ refreshers' = refreshers \cup {i}
       ELSE UNCHANGED <<entries, refreshers>>
    /\ sig' = [sig EXCEPT ![s].tier = e.tier] /\ Goto(s, "shape")
    /\ UNCHANGED <<seen, cache, blocked, reblocked, samples, tunerVars, dropped>>

(* Classify: a miss waits for classifyFresh and stores what it says, over  *)
(* an entry another sender may have stored meanwhile.                      *)
Miss_Uncached(s) ==
    /\ pc[s] = "fresh"
    /\ \E t \in FreshTiers(sig[s].key) :
         /\ IF LLM THEN UNCHANGED <<entries, cache>> ELSE Store(sig[s].key, t)
         /\ sig' = [sig EXCEPT ![s].tier = t]
    /\ Goto(s, "shape")
    /\ UNCHANGED <<seen, refreshers, blocked, reblocked, samples, tunerVars, dropped>>

Miss(s) ==
    /\ pc[s] = "fresh"
    /\ \E t \in FreshTiers(sig[s].key) :
         /\ Store(sig[s].key, t)
         /\ sig' = [sig EXCEPT ![s].tier = t]
    /\ Goto(s, "shape")
    /\ UNCHANGED <<seen, refreshers, blocked, reblocked, samples, tunerVars, dropped>>

(* The goroutine that refreshes entry i.  The flag stays on the old entry. *)
Refresh_KeepsOld(i) ==
    /\ i \in refreshers /\ refreshers' = refreshers \ {i}
    /\ \E t \in FreshTiers(entries[i].key) :
         IF t = entries[i].tier THEN UNCHANGED <<entries, cache>>
                                ELSE Store(entries[i].key, t)
    /\ UNCHANGED <<seen, blocked, reblocked, samples, tunerVars, dropped, pc, sig>>

Refresh(i) ==
    /\ i \in refreshers /\ refreshers' = refreshers \ {i}
    /\ \E t \in FreshTiers(entries[i].key) : Store(entries[i].key, t)
    /\ UNCHANGED <<seen, blocked, reblocked, samples, tunerVars, dropped, pc, sig>>

(* cacheTTL passes. *)
Expire(i) ==
    /\ ~entries[i].expired
    /\ entries' = [entries EXCEPT ![i] = [@ EXCEPT !.expired = TRUE]]
    /\ UNCHANGED <<seen, cache, refreshers, blocked, reblocked, samples, tunerVars,
                   dropped, pc, sig>>

-----------------------------------------------------------------------------
(* Congestion.                                                             *)

(* RecordRTT: the history slides at its limit. *)
RecordRTT ==
    /\ samples' = Min({samples + 1, HistorySize})
    /\ UNCHANGED <<cacheVars, tunerVars, dropped, pc, sig>>

(* Predict: the actions it can recommend with the samples it has. *)
Predictions == IF samples < MinSamples THEN {"normal"} ELSE Actions

(* sendSignal after the classification: RecommendShaping defers best-effort *)
(* signals, which are dropped; otherwise it sleeps up to 200 ms.           *)
Shape(s) ==
    /\ pc[s] = "shape"
    /\ \E a \in Predictions :
         IF a \in {"reduce", "defer"} /\ sig[s].tier = Besteff
         THEN Goto(s, "idle") /\ dropped' = dropped + 1
         ELSE Goto(s, "transmit") /\ UNCHANGED dropped
    /\ sig' = [sig EXCEPT ![s] = Signal(@.type)]
    /\ UNCHANGED <<cacheVars, tunerVars, samples>>

-----------------------------------------------------------------------------
(* The window.                                                             *)

Scaled(c, a) ==
    CASE a = "pace" -> c \div 2 [] a = "reduce" -> c \div 4
      [] a = "defer" -> c \div 8 [] OTHER -> c

Target_Unbounded(c, a) == Max({MinWindow, IF a = "normal" THEN DefaultWindow ELSE Scaled(c, a)})
Target(c, a) == Max({MinWindow, Scaled(c, a)})

(* One tick of its five-second ticker. *)
TunerTick ==
    /\ \E a \in Predictions : maxInflight' = Target(ceiling, a)
    /\ UNCHANGED <<cacheVars, ceiling, samples, dropped, pc, sig>>

-----------------------------------------------------------------------------
(* What runs beside the senders: the cache, and the loops of a connected   *)
(* client.                                                                 *)
CacheSteps == \/ \E i \in refreshers : Refresh(i)
              \/ \E i \in DOMAIN entries : Expire(i)
ClientLoops == RecordRTT \/ TunerTick

-----------------------------------------------------------------------------
(* Every tier stored or in hand is one of the three (the tier is a byte    *)
(* made from a number the LLM chose), and references point to entries.     *)
SendTypeOK ==
    /\ seen \subseteq Types /\ samples \in 0 .. HistorySize
    /\ maxInflight \in Nat /\ ceiling \in Nat /\ dropped \in Nat
    /\ entries \in Seq(EntryRecords)
    /\ DOMAIN cache \subseteq Keys /\ refreshers \subseteq DOMAIN entries
    /\ \A k \in DOMAIN cache : cache[k] \in DOMAIN entries /\ entries[cache[k]].key = k
    /\ sig \in [Senders -> Signals]
    /\ \A s \in Senders : sig[s].entry <= Len(entries)

(* However many senders meet an expired entry, and even when it was        *)
(* replaced in the cache since they loaded it, one goroutine at most ever  *)
(* queries the LLM for it (Classify's compare-and-swap).                   *)
OneRefreshPerEntry == \A i \in DOMAIN entries : entries[i].refreshes <= 1

(* A sender waits for a classification at most once per cache key:         *)
(* Classify never blocks it on the LLM again, whatever expires and however *)
(* refreshes and other senders' misses interleave.                         *)
BlockedOncePerKey == ~reblocked

(* A client sheds no signal before it has MinSamples RTT samples: Predict  *)
(* says "normal" until then, and the sliding history never falls back.     *)
NoDropWithoutEvidence == dropped > 0 => samples >= MinSamples

(* An expired entry under refresh is replaced in the cache: no entry stays *)
(* marked refreshing, and thus stale, for ever.                            *)
StaleReplaced ==
    \A k \in Keys : (k \in DOMAIN cache /\ entries[cache[k]].refreshing)
                    ~> (k \in DOMAIN cache /\ ~entries[cache[k]].refreshing)
=============================================================================
