--------------------------- MODULE CoalescerProofs ---------------------------
(***************************************************************************)
(* Proofs about Coalescer for every value of its constants.                *)
(***************************************************************************)
EXTENDS Coalescer, FiniteSetTheorems, SequenceTheorems, TLAPS

QueueEntry == [tenant : Tenants, items : SUBSET Item]

(* Appending an entry adds its items to the channel's. *)
LEMMA AppendItems ==
    ASSUME NEW q \in Seq(QueueEntry), NEW e \in QueueEntry
    PROVE  /\ Append(q, e) \in Seq(QueueEntry) /\ Len(Append(q, e)) = Len(q) + 1
           /\ DOMAIN Append(q, e) = DOMAIN q \cup {Len(q) + 1}
           /\ \A i \in DOMAIN q : Append(q, e)[i] = q[i]
           /\ Append(q, e)[Len(q) + 1] = e
           /\ ItemsOf(Append(q, e)) = ItemsOf(q) \cup e.items
<1>1. /\ Append(q, e) \in Seq(QueueEntry) /\ Len(Append(q, e)) = Len(q) + 1
      /\ DOMAIN Append(q, e) = DOMAIN q \cup {Len(q) + 1}
      /\ \A i \in DOMAIN q : Append(q, e)[i] = q[i]
      /\ Append(q, e)[Len(q) + 1] = e
  OBVIOUS
<1>2. ItemsOf(Append(q, e)) = ItemsOf(q) \cup e.items
  BY <1>1 DEF ItemsOf
<1> QED
  BY <1>1, <1>2

(* The items of a channel are those of its head and of its tail. *)
LEMMA TailItems ==
    ASSUME NEW q \in Seq(QueueEntry), q # <<>>
    PROVE  /\ Head(q) \in QueueEntry /\ Tail(q) \in Seq(QueueEntry)
           /\ Len(Tail(q)) = Len(q) - 1 /\ 1 \in DOMAIN q /\ Head(q) = q[1]
           /\ \A i \in DOMAIN Tail(q) : i + 1 \in DOMAIN q /\ Tail(q)[i] = q[i + 1]
           /\ ItemsOf(q) = Head(q).items \cup ItemsOf(Tail(q))
<1>1. /\ Head(q) \in QueueEntry /\ Tail(q) \in Seq(QueueEntry)
      /\ Len(Tail(q)) = Len(q) - 1 /\ 1 \in DOMAIN q /\ Head(q) = q[1]
      /\ \A i \in DOMAIN Tail(q) : i + 1 \in DOMAIN q /\ Tail(q)[i] = q[i + 1]
  OBVIOUS
<1>2. ASSUME NEW i \in DOMAIN q, i # 1
      PROVE  i - 1 \in DOMAIN Tail(q) /\ Tail(q)[i - 1] = q[i]
  <2>1. i \in 1 .. Len(q) /\ Len(q) \in Nat /\ DOMAIN Tail(q) = 1 .. Len(q) - 1
    BY <1>1
  <2>2. i - 1 \in 1 .. Len(q) - 1 /\ (i - 1) + 1 = i
    BY <1>2, <2>1
  <2> QED
    BY <1>1, <2>1, <2>2
<1>3. ItemsOf(q) = Head(q).items \cup ItemsOf(Tail(q))
  <2>1. ASSUME NEW x \in ItemsOf(q) PROVE x \in Head(q).items \cup ItemsOf(Tail(q))
    <3>1. PICK i \in DOMAIN q : x \in q[i].items
      BY DEF ItemsOf
    <3>2. CASE i = 1
      BY <1>1, <3>1, <3>2
    <3>3. CASE i # 1
      BY <1>2, <3>1, <3>3, ZenonT(30) DEF ItemsOf
    <3> QED
      BY <3>2, <3>3
  <2>2. Head(q).items \subseteq ItemsOf(q)
    BY <1>1 DEF ItemsOf
  <2>3. ASSUME NEW x \in ItemsOf(Tail(q)) PROVE x \in ItemsOf(q)
    BY <1>1 DEF ItemsOf
  <2> QED
    BY <2>1, <2>2, <2>3
<1> QED
  BY <1>1, <1>3

(* The items of a new entry are the next numbers. *)
LEMMA NewEntry ==
    ASSUME TypeOK, NEW t \in Tenants, NEW n \in Sizes, next + n <= MaxTotal
    PROVE  /\ EntryOf(t, n) \in QueueEntry /\ EntryOf(t, n).tenant = t
           /\ EntryOf(t, n).items = next + 1 .. next + n
           /\ next + n \in 0 .. MaxTotal /\ next <= next + n
           /\ 1 .. next + n = (1 .. next) \cup (next + 1 .. next + n)
           /\ (1 .. next) \cap (next + 1 .. next + n) = {}
<1>1. n \in Nat /\ next \in Nat /\ MaxTotal \in Nat
  BY CoalescerAssumption DEF TypeOK
<1>2. next + 1 .. next + n \subseteq Item
  BY <1>1 DEF Item
<1> QED
  BY <1>1, <1>2 DEF EntryOf, QueueEntry

(* What the receive case of run's select does with the items new of t. *)
Received(t, new) ==
    /\ in # <<>> /\ in' = Tail(in) /\ new = Head(in).items
    /\ \/ /\ Full(pending[t] \cup new) /\ run' = "flush"
          /\ pending' = [pending EXCEPT ![t] = {}]
          /\ batch' = [batch EXCEPT ![t] = pending[t] \cup new]
       \/ /\ ~ Full(pending[t] \cup new) /\ run' = run
          /\ pending' = [pending EXCEPT ![t] = pending[t] \cup new]
          /\ batch' = batch
    /\ UNCHANGED <<closed, cancelled, active, hold, next, outcome>>

(* A receive concerns one tenant and the items of the channel's head. *)
LEMMA ReceiveStep ==
    ASSUME TypeOK, Receive
    PROVE  \E t \in Tenants, new \in SUBSET Item : Received(t, new)
<1>1. in \in Seq(QueueEntry) /\ in # <<>>
  BY DEF Receive, TypeOK, QueueEntry
<1>2. Head(in) \in QueueEntry
  BY <1>1, TailItems
<1>3. Head(in).tenant \in Tenants /\ Head(in).items \in SUBSET Item
  BY <1>2 DEF QueueEntry
<1>4. Received(Head(in).tenant, Head(in).items)
  BY DEF Receive, Received
<1> QED
  BY <1>3, <1>4

(* Every step keeps the types. *)
LEMMA TypeInductive ==
    ASSUME TypeOK, [Next]_vars
    PROVE  TypeOK'
<1> USE CoalescerAssumption
<1>0. Nothing \in [Tenants -> SUBSET Item]
  BY DEF Nothing
<1>1. CASE UNCHANGED vars
  BY <1>1 DEF TypeOK, vars, intake, loop, outcome
<1>2. ASSUME NEW w \in Writers, NEW t \in Tenants, NEW n \in Sizes, Enqueue(w, t, n)
      PROVE  TypeOK'
  <2>1. next + n <= MaxTotal
    BY <1>2 DEF Enqueue
  <2>2. /\ EntryOf(t, n) \in QueueEntry /\ EntryOf(t, n).items \in SUBSET Item
        /\ next + n \in 0 .. MaxTotal
    BY <2>1, NewEntry DEF QueueEntry
  <2>3. in \in Seq(QueueEntry) /\ Len(in) \in Nat
    BY DEF TypeOK, QueueEntry
  <2>4. in' \in Seq(QueueEntry) /\ Len(in') <= ChanCap
    <3>1. in' = in \/ (in' = Append(in, EntryOf(t, n)) /\ Len(in) < ChanCap)
      BY <1>2 DEF Enqueue
    <3>2. Len(Append(in, EntryOf(t, n))) = Len(in) + 1
      BY <2>2, <2>3, AppendItems
    <3>3. Append(in, EntryOf(t, n)) \in Seq(QueueEntry)
      BY <2>2, <2>3, AppendItems
    <3>4. Len(in) <= ChanCap
      BY DEF TypeOK
    <3> QED
      BY <2>3, <3>1, <3>2, <3>3, <3>4
  <2>5. hold' \in [Writers -> SUBSET Item]
    BY <1>2, <2>2 DEF Enqueue, TypeOK
  <2> QED
    BY <1>2, <2>2, <2>4, <2>5 DEF Enqueue, TypeOK, QueueEntry, loop, outcome
<1>3. ASSUME NEW w \in Writers, DirectFlush(w) PROVE TypeOK'
  BY <1>3 DEF DirectFlush, Flush, TypeOK, loop
<1>4. ASSUME NEW w \in Writers, WriterExit(w) PROVE TypeOK'
  BY <1>4 DEF WriterExit, TypeOK, loop, outcome
<1>5. CASE Receive
  <2>1. PICK t \in Tenants, new \in SUBSET Item : Received(t, new)
    BY <1>5, ReceiveStep
  <2>2. in' \in Seq(QueueEntry) /\ Len(in') <= ChanCap
    <3>1. in \in Seq(QueueEntry) /\ Len(in) \in Nat /\ Len(in) <= ChanCap
      BY DEF TypeOK, QueueEntry
    <3>2. in # <<>> /\ in' = Tail(in)
      BY <2>1 DEF Received
    <3>3. Tail(in) \in Seq(QueueEntry) /\ Len(Tail(in)) = Len(in) - 1
      BY <3>1, <3>2, TailItems
    <3> QED
      BY <3>1, <3>2, <3>3
  <2> QED
    BY <2>1, <2>2, ZenonT(30) DEF Received, TypeOK, QueueEntry, outcome
<1>6. CASE Tick \/ SeeCancel \/ SeeClosed
  BY <1>0, <1>6 DEF Tick, SeeCancel, SeeClosed, FlushAll, TypeOK, intake, outcome
<1>7. ASSUME NEW t \in Tenants, FlushTenant(t) PROVE TypeOK'
  BY <1>7 DEF FlushTenant, Flush, TypeOK, intake
<1>8. CASE FlushDone \/ Cancel \/ CloseIn
  BY <1>8, ZenonT(30) DEF FlushDone, Cancel, CloseIn, TypeOK, intake, loop, outcome
<1> QED
  BY <1>1, <1>2, <1>3, <1>4, <1>5, <1>6, <1>7, <1>8 DEF Next, Run

(* Every step keeps track of what run has taken out. *)
LEMMA RunInductive ==
    ASSUME TypeOK, RunOK, [Next]_vars
    PROVE  RunOK'
<1>1. CASE UNCHANGED vars
  BY <1>1 DEF RunOK, vars, intake, loop
<1>2. ASSUME NEW w \in Writers, NEW t \in Tenants, NEW n \in Sizes, Enqueue(w, t, n)
      PROVE  RunOK'
  BY <1>2 DEF Enqueue, RunOK, loop
<1>3. ASSUME NEW w \in Writers, DirectFlush(w) \/ WriterExit(w) PROVE RunOK'
  BY <1>3 DEF DirectFlush, WriterExit, RunOK, loop
<1>4. CASE Receive
  BY <1>4 DEF Receive, RunOK
<1>5. CASE Tick \/ SeeCancel \/ SeeClosed
  BY <1>5 DEF Tick, SeeCancel, SeeClosed, FlushAll, RunOK, intake
<1>6. ASSUME NEW t \in Tenants, FlushTenant(t) PROVE RunOK'
  BY <1>6 DEF FlushTenant, RunOK, intake
<1>7. CASE FlushDone
  BY <1>7 DEF FlushDone, RunOK, TypeOK, intake
<1>8. CASE Cancel \/ CloseIn
  BY <1>8 DEF Cancel, CloseIn, RunOK, loop
<1> QED
  BY <1>1, <1>2, <1>3, <1>4, <1>5, <1>6, <1>7, <1>8 DEF Next, Run

-----------------------------------------------------------------------------
(* Replacing one member of a family of sets: what becomes of its union. *)
LEMMA FamilyUpdate ==
    ASSUME NEW S, NEW f \in [S -> SUBSET Item], NEW s \in S, NEW X \in SUBSET Item,
           \A r, q \in S : r # q => f[r] \cap f[q] = {}
    PROVE  LET g == [f EXCEPT ![s] = X]
               U(h) == UNION {h[r] : r \in S}
           IN  /\ U(g) = (U(f) \ f[s]) \cup X
               /\ f[s] \subseteq U(f)
               /\ X \cap (U(f) \ f[s]) = {} =>
                    \A r, q \in S : r # q => g[r] \cap g[q] = {}
<1> DEFINE g == [f EXCEPT ![s] = X]
           U(h) == UNION {h[r] : r \in S}
<1>1. \A r \in S : g[r] = IF r = s THEN X ELSE f[r]
  OBVIOUS
<1>2. \A r \in S : r # s => f[r] \subseteq U(f) \ f[s]
  OBVIOUS
<1> HIDE DEF g
<1>3. U(g) = (U(f) \ f[s]) \cup X
  <2>1. ASSUME NEW x \in U(g) PROVE x \in (U(f) \ f[s]) \cup X
    BY <1>1, <1>2
  <2>2. ASSUME NEW x \in (U(f) \ f[s]) \cup X PROVE x \in U(g)
    BY <1>1
  <2> QED
    BY <2>1, <2>2
<1>4. ASSUME X \cap (U(f) \ f[s]) = {}, NEW r \in S, NEW q \in S, r # q
      PROVE  g[r] \cap g[q] = {}
  BY <1>1, <1>2, <1>4
<1> QED
  BY <1>3, <1>4 DEF g

(* Every step moves items from place to place: none is forgotten, none is  *)
(* in two places.                                                          *)
LEMMA PlacesInductive ==
    ASSUME IndInv, [Next]_vars, TypeOK'
    PROVE  NothingForgotten' /\ Apart'
<1>0. TypeOK /\ RunOK /\ NothingForgotten /\ Apart
  BY DEF IndInv
<1>1. CASE UNCHANGED <<in, pending, batch, hold, next, stored, failed>>
  BY <1>0, <1>1 DEF NothingForgotten, Apart, Queued, Gathered, Batched, Held, Out
<1>2. ASSUME NEW w \in Writers, NEW t \in Tenants, NEW n \in Sizes, Enqueue(w, t, n)
      PROVE  NothingForgotten' /\ Apart'
  <2> DEFINE new == next + 1 .. next + n
  <2>1. /\ EntryOf(t, n) \in QueueEntry /\ EntryOf(t, n).items = new
        /\ 1 .. next' = (1 .. next) \cup new /\ (1 .. next) \cap new = {}
        /\ new \in SUBSET Item
    <3>1. next + n <= MaxTotal /\ next' = next + n
      BY <1>2 DEF Enqueue
    <3>2. /\ EntryOf(t, n) \in QueueEntry /\ EntryOf(t, n).items = new
          /\ 1 .. next + n = (1 .. next) \cup new /\ (1 .. next) \cap new = {}
      BY <1>0, <3>1, NewEntry
    <3>3. new \in SUBSET Item
      BY <3>2, ZenonT(30) DEF QueueEntry
    <3> QED
      BY <3>1, <3>2, <3>3
  <2>2. UNCHANGED <<pending, batch, stored, failed, Gathered, Batched, Out>>
    BY <1>2 DEF Enqueue, loop, outcome, Gathered, Batched, Out
  <2> HIDE DEF new
  <2>3. CASE Len(in) < ChanCap
    <3>1. in' = Append(in, EntryOf(t, n)) /\ UNCHANGED hold
      BY <1>2, <2>3 DEF Enqueue
    <3>2. in \in Seq(QueueEntry)
      BY <1>0 DEF TypeOK, QueueEntry
    <3>3. /\ Queued' = Queued \cup new
          /\ DOMAIN in' = DOMAIN in \cup {Len(in) + 1}
          /\ \A i \in DOMAIN in : in'[i] = in[i] /\ in[i].items \subseteq Queued
          /\ in'[Len(in) + 1].items = new
      BY <2>1, <3>1, <3>2, AppendItems DEF Queued, ItemsOf
    <3>4. \A i \in DOMAIN in : in[i].items \cap new = {}
      BY <1>0, <2>1, <3>3 DEF Apart
    <3>5. \A i, j \in DOMAIN in' : i # j => in'[i].items \cap in'[j].items = {}
      BY <1>0, <3>3, <3>4 DEF Apart
    <3>6. UNCHANGED Held
      BY <3>1 DEF Held
    <3> QED
      BY <1>0, <2>1, <2>2, <3>1, <3>3, <3>5, <3>6 DEF NothingForgotten, Apart
  <2>4. CASE ~ (Len(in) < ChanCap)
    <3>1. hold' = [hold EXCEPT ![w] = new] /\ hold[w] = {} /\ UNCHANGED <<in, Queued>>
      BY <1>2, <2>1, <2>4 DEF Enqueue, Queued
    <3>2. hold \in [Writers -> SUBSET Item]
      BY <1>0 DEF TypeOK
    <3>3. new \cap Held = {}
      BY <1>0, <2>1 DEF Apart
    <3>4. \A r, q \in Writers : r # q => hold[r] \cap hold[q] = {}
      BY <1>0 DEF Apart
    <3>5. /\ Held' = Held \cup new
          /\ \A r, q \in Writers : r # q => hold'[r] \cap hold'[q] = {}
      BY <2>1, <3>1, <3>2, <3>3, <3>4, FamilyUpdate DEF Held
    <3> QED
      BY <1>0, <2>1, <2>2, <3>1, <3>5 DEF NothingForgotten, Apart
  <2> QED
    BY <2>3, <2>4
<1>3. ASSUME NEW w \in Writers, DirectFlush(w) PROVE NothingForgotten' /\ Apart'
  <2>1. /\ hold' = [hold EXCEPT ![w] = {}] /\ Out' = Out \cup hold[w]
        /\ UNCHANGED <<in, pending, batch, next, Queued, Gathered, Batched>>
    BY <1>3 DEF DirectFlush, Flush, Out, loop, Queued, Gathered, Batched
  <2>2. hold \in [Writers -> SUBSET Item]
    BY <1>0 DEF TypeOK
  <2>3. \A r, q \in Writers : r # q => hold[r] \cap hold[q] = {}
    BY <1>0 DEF Apart
  <2>4. /\ Held' = Held \ hold[w] /\ hold[w] \subseteq Held
        /\ \A r, q \in Writers : r # q => hold'[r] \cap hold'[q] = {}
    BY <2>1, <2>2, <2>3, FamilyUpdate DEF Held
  <2> QED
    BY <1>0, <2>1, <2>4 DEF NothingForgotten, Apart
<1>4. CASE Receive
  <2>1. PICK t \in Tenants, new \in SUBSET Item : Received(t, new)
    BY <1>0, <1>4, ReceiveStep
  <2>2. UNCHANGED <<hold, next, Held, Out>>
    BY <2>1 DEF Received, outcome, Held, Out
  <2>3. /\ Queued = new \cup Queued' /\ new \cap Queued' = {}
        /\ \A i, j \in DOMAIN in' : i # j => in'[i].items \cap in'[j].items = {}
    <3>1. in \in Seq(QueueEntry) /\ in # <<>> /\ in' = Tail(in) /\ new = Head(in).items
      BY <1>0, <2>1 DEF TypeOK, QueueEntry, Received
    <3>2. /\ 1 \in DOMAIN in /\ new = in[1].items
          /\ \A i \in DOMAIN in' : /\ i \in Nat \ {0} /\ i + 1 \in DOMAIN in
                                   /\ in'[i] = in[i + 1]
          /\ Queued = new \cup Queued'
      BY <3>1, TailItems DEF Queued
    <3>3. \A i \in DOMAIN in' : in'[i].items \cap new = {}
      BY <1>0, <3>2 DEF Apart
    <3>4. new \cap Queued' = {}
      BY <3>3 DEF Queued, ItemsOf
    <3>5. ASSUME NEW i \in DOMAIN in', NEW j \in DOMAIN in', i # j
          PROVE  in'[i].items \cap in'[j].items = {}
      <4>1. i + 1 # j + 1
        BY <3>2, <3>5
      <4> QED
        BY <1>0, <3>2, <4>1 DEF Apart
    <3> QED
      BY <3>2, <3>4, <3>5
  <2>4. /\ pending \in [Tenants -> SUBSET Item] /\ batch \in [Tenants -> SUBSET Item]
        /\ \A r, q \in Tenants : r # q => pending[r] \cap pending[q] = {}
        /\ \A r, q \in Tenants : r # q => batch[r] \cap batch[q] = {}
        /\ new \cap Gathered = {} /\ new \cap Batched = {}
    BY <1>0, <2>3 DEF TypeOK, Apart
  <2>5. batch[t] = {} /\ Batched = {}
    BY <1>0, <1>4, SMTT(30) DEF RunOK, Receive, Nothing, Batched
  <2>6. CASE Full(pending[t] \cup new)
    <3>1. pending' = [pending EXCEPT ![t] = {}] /\ batch' = [batch EXCEPT ![t] = pending[t] \cup new]
      BY <2>1, <2>6, ZenonT(30) DEF Received
    <3>2. /\ Gathered' = Gathered \ pending[t] /\ pending[t] \subseteq Gathered
          /\ \A r, q \in Tenants : r # q => pending'[r] \cap pending'[q] = {}
      BY <2>4, <3>1, FamilyUpdate DEF Gathered
    <3>3. /\ Batched' = pending[t] \cup new
          /\ \A r, q \in Tenants : r # q => batch'[r] \cap batch'[q] = {}
      BY <2>4, <2>5, <3>1, FamilyUpdate DEF Batched
    <3> QED
      BY <1>0, <2>2, <2>3, <2>4, <2>5, <3>2, <3>3 DEF NothingForgotten, Apart
  <2>7. CASE ~ Full(pending[t] \cup new)
    <3>1. pending' = [pending EXCEPT ![t] = pending[t] \cup new] /\ UNCHANGED <<batch, Batched>>
      BY <2>1, <2>7, ZenonT(30) DEF Received, Batched
    <3>2. /\ Gathered' = Gathered \cup new
          /\ \A r, q \in Tenants : r # q => pending'[r] \cap pending'[q] = {}
      <4>1. pending[t] \subseteq Gathered
        BY DEF Gathered
      <4>2. (pending[t] \cup new) \cap (Gathered \ pending[t]) = {}
        BY <2>4
      <4>3. /\ Gathered' = (Gathered \ pending[t]) \cup (pending[t] \cup new)
            /\ \A r, q \in Tenants : r # q => pending'[r] \cap pending'[q] = {}
        BY <2>4, <3>1, <4>2, FamilyUpdate DEF Gathered
      <4> QED
        BY <4>1, <4>3
    <3> QED
      BY <1>0, <2>2, <2>3, <2>4, <3>1, <3>2 DEF NothingForgotten, Apart
  <2> QED
    BY <2>6, <2>7
<1>5. CASE Tick \/ SeeCancel \/ SeeClosed
  <2>1. /\ pending' = Nothing /\ batch' = pending /\ batch = Nothing
        /\ UNCHANGED <<in, hold, next, Queued, Held, Out>>
    BY <1>0, <1>5 DEF Tick, SeeCancel, SeeClosed, FlushAll, RunOK, intake, outcome,
       Queued, Held, Out
  <2>2. Gathered' = {} /\ Batched' = Gathered /\ Batched = {}
    BY <2>1 DEF Gathered, Batched, Nothing
  <2>3. \A r, q \in Tenants : r # q => pending'[r] \cap pending'[q] = {}
    BY <2>1 DEF Nothing
  <2> QED
    BY <1>0, <2>1, <2>2, <2>3 DEF NothingForgotten, Apart
<1>6. ASSUME NEW t \in Tenants, FlushTenant(t) PROVE NothingForgotten' /\ Apart'
  <2>1. /\ batch' = [batch EXCEPT ![t] = {}] /\ Out' = Out \cup batch[t]
        /\ UNCHANGED <<in, pending, hold, next, Queued, Gathered, Held>>
    BY <1>6, ZenonT(30) DEF FlushTenant, Flush, Out, intake, Queued, Gathered, Held
  <2>2. /\ batch \in [Tenants -> SUBSET Item]
        /\ \A r, q \in Tenants : r # q => batch[r] \cap batch[q] = {}
    BY <1>0 DEF TypeOK, Apart
  <2>3. /\ Batched' = Batched \ batch[t] /\ batch[t] \subseteq Batched
        /\ \A r, q \in Tenants : r # q => batch'[r] \cap batch'[q] = {}
    BY <2>1, <2>2, FamilyUpdate DEF Batched
  <2> QED
    BY <1>0, <2>1, <2>3 DEF NothingForgotten, Apart
<1>7. \/ UNCHANGED <<in, pending, batch, hold, next, stored, failed>>
      \/ \E w \in Writers, t \in Tenants, n \in Sizes : Enqueue(w, t, n)
      \/ \E w \in Writers : DirectFlush(w)
      \/ Receive \/ Tick \/ SeeCancel \/ SeeClosed
      \/ \E t \in Tenants : FlushTenant(t)
  BY ZenonT(30) DEF Next, Run, WriterExit, FlushDone, Cancel, CloseIn, vars, intake, loop, outcome
<1> QED
  BY <1>1, <1>2, <1>3, <1>4, <1>5, <1>6, <1>7

-----------------------------------------------------------------------------
(* Nothing has been taken in at the start. *)
LEMMA InitIndInv == Init => IndInv
<1> SUFFICES ASSUME Init PROVE IndInv
  OBVIOUS
<1> USE CoalescerAssumption DEF Init
<1>1. Queued = {} /\ Gathered = {} /\ Batched = {} /\ Held = {} /\ Out = {}
  BY DEF Queued, ItemsOf, Gathered, Batched, Held, Out, Nothing
<1>2. TypeOK
  <2>1. in \in Seq([tenant : Tenants, items : SUBSET Item]) /\ Len(in) = 0
    BY EmptySeq
  <2>2. /\ hold \in [Writers -> SUBSET Item] /\ pending \in [Tenants -> SUBSET Item]
        /\ batch \in [Tenants -> SUBSET Item]
    BY DEF Nothing
  <2>3. closed \in BOOLEAN /\ cancelled \in BOOLEAN /\ active \subseteq Writers
    BY ZenonT(30)
  <2>4. Len(in) <= ChanCap /\ next \in 0 .. MaxTotal
    BY <2>1
  <2> QED
    BY <2>1, <2>2, <2>3, <2>4, Zenon DEF TypeOK
<1>3. RunOK
  BY DEF RunOK
<1>4. NothingForgotten
  <2>1. 1 .. 0 = {}
    OBVIOUS
  <2> QED
    BY <2>1 DEF NothingForgotten
<1>5. Apart
  BY <1>1 DEF Apart, Nothing
<1> QED
  BY <1>2, <1>3, <1>4, <1>5 DEF IndInv

(* The inductive invariant holds throughout. *)
THEOREM Invariance == Spec => []IndInv
<1>1. IndInv /\ [Next]_vars => IndInv'
  BY TypeInductive, RunInductive, PlacesInductive DEF IndInv
<1> QED
  BY InitIndInv, <1>1, PTL DEF Spec

(* Every variable keeps its type: no batch, held item or channel grows     *)
(* past what enqueue and run put there.                                    *)
THEOREM TypeCorrect == Spec => []TypeOK
<1>1. IndInv => TypeOK
  BY DEF IndInv
<1> QED
  BY <1>1, Invariance, PTL

(* The coalescer never forgets an item, whatever the number of writers and *)
(* tenants and the capacity of the channel, and however it is shut down.   *)
THEOREM NothingForgottenCorrect == Spec => []NothingForgotten
<1>1. IndInv => NothingForgotten
  BY DEF IndInv
<1> QED
  BY <1>1, Invariance, PTL

(* A run that ended because stop closed the channel left nothing behind. *)
THEOREM StopDrainsCorrect == Spec => []StopDrains
<1>1. ASSUME IndInv PROVE StopDrains
  BY <1>1 DEF IndInv, RunOK, StopDrains, Gathered, Batched, Nothing
<1> QED
  BY <1>1, Invariance, PTL

(* No tenant ever gathers MaxItems items. *)
THEOREM PendingBoundedCorrect == Spec => []PendingBounded
<1>1. ASSUME Init PROVE PendingBounded
  BY <1>1, FS_EmptySet, CoalescerAssumption DEF Init, PendingBounded, Nothing
<1>2. ASSUME IndInv, PendingBounded, [Next]_vars PROVE PendingBounded'
  <2>0. TypeOK /\ Cardinality({}) < MaxItems
    BY <1>2, FS_EmptySet, CoalescerAssumption DEF IndInv
  <2>1. CASE UNCHANGED pending
    BY <1>2, <2>1 DEF PendingBounded
  <2>2. CASE pending' = Nothing
    BY <2>0, <2>2 DEF PendingBounded, Nothing
  <2>3. CASE Receive
    <3>1. PICK t \in Tenants, new \in SUBSET Item : Received(t, new)
      BY <2>0, <2>3, ReceiveStep
    <3>2. Cardinality(pending[t] \cup new) \in Nat
      <4>1. pending[t] \cup new \in SUBSET Item
        BY <2>0 DEF TypeOK
      <4>2. IsFiniteSet(Item)
        BY FS_Interval, CoalescerAssumption DEF Item
      <4> QED
        BY <4>1, <4>2, FS_Subset, FS_CardinalityType
    <3>3. ~ Full(pending[t] \cup new) => Cardinality(pending[t] \cup new) < MaxItems
      BY <3>2, CoalescerAssumption DEF Full
    <3>4. \A u \in Tenants : pending'[u] \in {pending[u], {}, pending[t] \cup new}
      BY <2>0, <3>1 DEF Received, TypeOK
    <3> QED
      BY <1>2, <2>0, <3>1, <3>3, ZenonT(30) DEF Received, TypeOK, PendingBounded
  <2>4. UNCHANGED pending \/ pending' = Nothing \/ Receive
    BY <1>2 DEF Next, Run, Enqueue, DirectFlush, WriterExit, Tick, SeeCancel,
       SeeClosed, FlushAll, FlushTenant, FlushDone, Cancel, CloseIn, vars, loop
  <2> QED
    BY <2>1, <2>2, <2>3, <2>4
<1> QED
  BY <1>1, <1>2, Invariance, PTL DEF Spec

(* The coalescer implements the sink: what it hands to the backend was     *)
(* taken in, and no item is handed over twice.                             *)
THEOREM Refinement == Spec => ImplementsSink
<1>1. Init => Abstract!Init
  BY DEF Init, Abstract!Init
<1>2. ASSUME IndInv, IndInv', [Next]_vars
      PROVE  [Abstract!Next]_<<1 .. next, stored, failed>>
  <2>0. TypeOK /\ Apart
    BY <1>2 DEF IndInv
  <2>a. ASSUME NEW S \in SUBSET (Held \cup Batched), Flush(S), UNCHANGED next
        PROVE  Abstract!Write
    <3>1. S \in SUBSET Abstract!Owed
      BY <2>0 DEF Apart, Out, Abstract!Owed
    <3> QED
      BY <2>a, <3>1 DEF Flush, Abstract!Write
  <2>1. ASSUME NEW w \in Writers, NEW t \in Tenants, NEW n \in Sizes, Enqueue(w, t, n)
        PROVE  Abstract!Accept
    <3>1. next + n <= MaxTotal /\ next' = next + n /\ UNCHANGED <<stored, failed>>
      BY <2>1 DEF Enqueue, outcome
    <3>2. 1 .. next + n = (1 .. next) \cup (next + 1 .. next + n) /\ next + n \in 0 .. MaxTotal
      BY <2>0, <3>1, NewEntry
    <3>3. 1 .. next + n \in SUBSET Item
      BY <3>2, CoalescerAssumption DEF Item
    <3> QED
      BY <3>1, <3>2, <3>3 DEF Abstract!Accept
  <2>2. ASSUME NEW w \in Writers, DirectFlush(w) PROVE Abstract!Write
    <3>1. hold[w] \in SUBSET (Held \cup Batched)
      BY DEF Held
    <3> QED
      BY <2>2, <2>a, <3>1 DEF DirectFlush
  <2>3. ASSUME NEW t \in Tenants, FlushTenant(t) PROVE Abstract!Write
    <3>1. batch[t] \in SUBSET (Held \cup Batched)
      BY DEF Batched
    <3> QED
      BY <2>3, <2>a, <3>1 DEF FlushTenant, intake
  <2>4. \/ UNCHANGED <<next, stored, failed>>
        \/ \E w \in Writers, t \in Tenants, n \in Sizes : Enqueue(w, t, n)
        \/ \E w \in Writers : DirectFlush(w)
        \/ \E t \in Tenants : FlushTenant(t)
    BY <1>2, ZenonT(30) DEF Next, Run, WriterExit, Receive, Tick, SeeCancel, SeeClosed, FlushDone,
       Cancel, CloseIn, vars, intake, outcome
  <2> QED
    BY <2>1, <2>2, <2>3, <2>4 DEF Abstract!Next
<1> QED
  BY <1>1, <1>2, Invariance, PTL DEF Spec, ImplementsSink, Abstract!Spec

==============================================================================
