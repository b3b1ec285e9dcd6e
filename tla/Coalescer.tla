------------------------------ MODULE Coalescer ------------------------------
(***************************************************************************)
(* The storage coalescer of the receiver: traceCoalescer, and its twins    *)
(* metricCoalescer and logCoalescer, of                                    *)
(* entropyops-v2/internal/ingest/receiver/agenticudp_coalescer.go.         *)
(*                                                                         *)
(* Read-loop goroutines enqueue the items of a datagram for a tenant; one  *)
(* goroutine, run, gathers them per tenant and writes them in batches.     *)
(* Items are numbered in the order they are taken in.                      *)
(***************************************************************************)
EXTENDS Integers, Sequences, FiniteSets

CONSTANTS
    Writers,    \* read-loop goroutines: one for raw UDP, one per DTLS peer
    Tenants,
    Sizes,      \* how many items a datagram may carry
    MaxItems,   \* a tenant with this many items is flushed
    ChanCap,    \* capacity of the channel
    MaxTotal    \* bound: items taken in

ASSUME CoalescerAssumption ==
    /\ Sizes \subseteq Nat \ {0}
    /\ MaxItems \in Nat \ {0} /\ ChanCap \in Nat \ {0} /\ MaxTotal \in Nat

VARIABLES
    in,         \* the channel: a sequence of entries
    closed,     \* stop() has closed the channel
    cancelled,  \* the receiver's context is done
    active,     \* writers that have not seen the context done
    hold,       \* what each writer is writing to storage itself
    run,        \* "select", "flush", "exit" (last flush) or "done"
    pending,    \* per tenant, items gathered
    batch,      \* per tenant, items taken out of pending to be written
    next,       \* number of the last item taken in
    stored, failed

intake == <<in, closed, cancelled, active, hold, next>>
loop == <<run, pending, batch>>
outcome == <<stored, failed>>
vars == <<intake, loop, outcome>>

Item == 1 .. MaxTotal
EntryOf(t, n) == [tenant |-> t, items |-> next + 1 .. next + n]
Nothing == [t \in Tenants |-> {}]

Init ==
    /\ in = <<>> /\ closed = FALSE /\ cancelled = FALSE
    /\ active = Writers /\ hold = [w \in Writers |-> {}]
    /\ run = "select" /\ pending = Nothing /\ batch = Nothing
    /\ next = 0 /\ stored = {} /\ failed = {}

-----------------------------------------------------------------------------
(* storeTraces, storeMetrics or storeLogs: the backend writes the items,   *)
(* or returns an error, which is logged and the items are gone.            *)
Flush(items) ==
    \/ stored' = stored \cup items /\ failed' = failed
    \/ failed' = failed \cup items /\ stored' = stored

(* enqueue never waits: when the channel is full the writer goes on to     *)
(* write the items itself.  A writer that sees the context done only after *)
(* a datagram still handles that one.                                      *)
Enqueue_DropsWhenFull(w, t, n) ==
    /\ w \in active /\ hold[w] = {} /\ ~ closed /\ next + n <= MaxTotal
    /\ in' = IF Len(in) < ChanCap THEN Append(in, EntryOf(t, n)) ELSE in
    /\ next' = next + n
    /\ active' = IF cancelled THEN active \ {w} ELSE active
    /\ UNCHANGED <<closed, cancelled, hold, loop, outcome>>

Enqueue(w, t, n) ==
    /\ w \in active /\ hold[w] = {} /\ ~ closed /\ next + n <= MaxTotal
    /\ IF Len(in) < ChanCap
         THEN in' = Append(in, EntryOf(t, n)) /\ UNCHANGED hold
         ELSE hold' = [hold EXCEPT ![w] = EntryOf(t, n).items] /\ UNCHANGED in
    /\ next' = next + n
    /\ active' = IF cancelled THEN active \ {w} ELSE active
    /\ UNCHANGED <<closed, cancelled, loop, outcome>>

DirectFlush(w) ==
    /\ hold[w] # {}
    /\ Flush(hold[w])
    /\ hold' = [hold EXCEPT ![w] = {}]
    /\ UNCHANGED <<in, closed, cancelled, active, next, loop>>

(* A read loop sees the context done. *)
WriterExit(w) ==
    /\ cancelled /\ w \in active /\ hold[w] = {}
    /\ active' = active \ {w}
    /\ UNCHANGED <<in, closed, cancelled, hold, next, loop, outcome>>

-----------------------------------------------------------------------------
(* The cases of run's select.                                              *)

(* A gathered tenant is flushed when it has reached MaxItems. *)
Full(items) == Cardinality(items) >= MaxItems

Receive ==
    /\ run = "select" /\ in # <<>>
    /\ LET t == Head(in).tenant
           items == pending[t] \cup Head(in).items
       IN  IF Full(items)
             THEN /\ pending' = [pending EXCEPT ![t] = {}]
                  /\ batch' = [batch EXCEPT ![t] = items]
                  /\ run' = "flush"
             ELSE /\ pending' = [pending EXCEPT ![t] = items]
                  /\ UNCHANGED <<batch, run>>
    /\ in' = Tail(in)
    /\ UNCHANGED <<closed, cancelled, active, hold, next, outcome>>

(* flushAll takes out everything gathered; the writes follow. *)
FlushAll_Keeps(then) ==
    run' = then /\ batch' = pending /\ UNCHANGED pending
FlushAll(then) ==
    run' = then /\ batch' = pending /\ pending' = Nothing

Tick ==
    /\ run = "select" /\ pending # Nothing
    /\ FlushAll("flush")
    /\ UNCHANGED <<intake, outcome>>

(* The context is done: what is gathered is flushed, the channel is left. *)
SeeCancel ==
    /\ run = "select" /\ cancelled
    /\ FlushAll("exit")
    /\ UNCHANGED <<intake, outcome>>

(* The channel is closed and empty. *)
SeeClosed_EvenFilled ==
    /\ run = "select" /\ closed
    /\ FlushAll("exit")
    /\ UNCHANGED <<intake, outcome>>
SeeClosed ==
    /\ run = "select" /\ closed /\ in = <<>>
    /\ FlushAll("exit")
    /\ UNCHANGED <<intake, outcome>>

(* One tenant's batch is written. *)
FlushTenant(t) ==
    /\ run \in {"flush", "exit"} /\ batch[t] # {}
    /\ Flush(batch[t])
    /\ batch' = [batch EXCEPT ![t] = {}]
    /\ UNCHANGED <<intake, run, pending>>

FlushDone ==
    /\ run \in {"flush", "exit"} /\ batch = Nothing
    /\ run' = IF run = "flush" THEN "select" ELSE "done"
    /\ UNCHANGED <<intake, pending, batch, outcome>>

(* Stop cancels the receiver's context.  *)
Cancel ==
    /\ ~ cancelled /\ cancelled' = TRUE
    /\ UNCHANGED <<in, closed, active, hold, next, loop, outcome>>

(* stop closes the channel.  An enqueue after that panics: its caller must *)
(* have stopped the writers.                                               *)
CloseIn ==
    /\ ~ closed /\ closed' = TRUE
    /\ UNCHANGED <<in, cancelled, active, hold, next, loop, outcome>>

Run == Receive \/ Tick \/ SeeCancel \/ SeeClosed \/ FlushDone
         \/ \E t \in Tenants : FlushTenant(t)
Next ==
    \/ \E w \in Writers : \/ DirectFlush(w) \/ WriterExit(w)
                          \/ \E t \in Tenants, n \in Sizes : Enqueue(w, t, n)
    \/ Run \/ Cancel \/ CloseIn
Spec == Init /\ [][Next]_vars

(* Writes return.  Go's select picks at random among the ready cases, so a *)
(* case that is ready again and again is taken in the end.                 *)
Fairness ==
    /\ \A w \in Writers : WF_vars(DirectFlush(w))
    /\ \A t \in Tenants : WF_vars(FlushTenant(t))
    /\ WF_vars(FlushDone) /\ WF_vars(SeeClosed)
    /\ SF_vars(Receive) /\ SF_vars(Tick) /\ SF_vars(SeeCancel)
FairSpec == Spec /\ Fairness

-----------------------------------------------------------------------------
(* Properties.                                                             *)

ItemsOf(q) == UNION {q[i].items : i \in DOMAIN q}
Queued == ItemsOf(in)
Gathered == UNION {pending[t] : t \in Tenants}
Batched == UNION {batch[t] : t \in Tenants}
Held == UNION {hold[w] : w \in Writers}
Out == stored \cup failed

(* Every variable has its type. *)
TypeOK ==
    /\ in \in Seq([tenant : Tenants, items : SUBSET Item]) /\ Len(in) <= ChanCap
    /\ closed \in BOOLEAN /\ cancelled \in BOOLEAN
    /\ active \subseteq Writers /\ hold \in [Writers -> SUBSET Item]
    /\ run \in {"select", "flush", "exit", "done"}
    /\ pending \in [Tenants -> SUBSET Item]
    /\ batch \in [Tenants -> SUBSET Item]
    /\ next \in 0 .. MaxTotal
    /\ stored \subseteq Item /\ failed \subseteq Item

(* Every item taken in is queued, gathered, being written or handed to the *)
(* backend: neither the full channel of enqueue nor the batches run takes  *)
(* out of pending forget one, whatever the shutdown.                       *)
NothingForgotten ==
    1 .. next \subseteq Queued \cup Gathered \cup Batched \cup Held \cup Out

(* The coalescer implements the sink: every item is handed to the backend  *)
(* at most once, by the flush of run or by a direct write.                 *)
Abstract == INSTANCE Sink WITH accepted <- 1 .. next
ImplementsSink == Abstract!Spec

(* A tenant never gathers MaxItems items: run flushes it in time, so       *)
(* memory is bounded by the tenants and the channel.                       *)
PendingBounded == \A t \in Tenants : Cardinality(pending[t]) < MaxItems

(* When run ends because stop closed the channel, the channel was drained  *)
(* and everything gathered was handed to the backend.                      *)
StopDrains ==
    run = "done" /\ ~ cancelled => in = <<>> /\ Gathered = {} /\ Batched = {}

(* "On shutdown, drains and flushes everything still pending": when run    *)
(* has ended nothing is left behind in the channel.                        *)
ShutdownDrains == run = "done" => in = <<>>

(* Every item taken in is handed to the backend unless the receiver is     *)
(* stopped: no order of the cases of run's select starves one.             *)
EventuallyWritten ==
    \A i \in Item : i <= next ~> (i \in Out \/ cancelled)

-----------------------------------------------------------------------------
(* The inductive invariant behind the safety properties.                   *)

(* What run has taken out, and when. *)
RunOK ==
    /\ run \in {"select", "done"} => batch = Nothing
    /\ run \in {"exit", "done"} => pending = Nothing
    /\ run \in {"exit", "done"} /\ ~ cancelled => closed /\ in = <<>>

(* No item is in two places. *)
Apart ==
    /\ Queued \cup Gathered \cup Batched \cup Held \cup Out \subseteq 1 .. next
    /\ \A i, j \in DOMAIN in : i # j => in[i].items \cap in[j].items = {}
    /\ \A t, u \in Tenants : t # u => /\ pending[t] \cap pending[u] = {}
                                     /\ batch[t] \cap batch[u] = {}
    /\ \A v, w \in Writers : v # w => hold[v] \cap hold[w] = {}
    /\ Queued \cap (Gathered \cup Batched \cup Held \cup Out) = {}
    /\ Gathered \cap (Batched \cup Held \cup Out) = {}
    /\ Batched \cap (Held \cup Out) = {}
    /\ Held \cap Out = {}

IndInv == TypeOK /\ RunOK /\ NothingForgotten /\ Apart

==============================================================================
