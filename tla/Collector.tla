------------------------------ MODULE Collector ------------------------------
(***************************************************************************)
(* The AgenticUDP receiver for the OpenTelemetry Collector:                *)
(* otelcol/receiver/agenticudpreceiver (factory.go, wire.go).  One         *)
(* goroutine reads datagrams, puts fragments together and hands envelopes  *)
(* to the consumers of their lanes; Start and Stop are called by the       *)
(* collector, whose context may also be cancelled.  Nothing answers the    *)
(* sender, and nothing calls FragmentBuffer.Reap.                          *)
(***************************************************************************)
EXTENDS Integers, FiniteSets, Functions

CONSTANTS
    Payloads,      \* payloads of data packets
    Split,         \* payload -> number of fragments it is sent in, 0: whole
    ContentId,     \* payload -> its 32-bit hash
    Format,        \* payload -> "json", "protobuf" or "junk"
    LanesOf,       \* payload -> lanes its envelope populates
    Wired,         \* lanes with a consumer
    SeqSpace,      \* number of sequence numbers (2^16)
    MaxReads,      \* bound: datagrams read in a life
    MaxErrors      \* bound: read errors of an open socket

Lanes == {"metrics", "traces", "logs"}

(* CreateReceiver refuses a receiver without any consumer. *)
ASSUME CollectorAssumption ==
    /\ Split \in [Payloads -> 0 .. SeqSpace] /\ DOMAIN ContentId = Payloads
    /\ Format \in [Payloads -> {"json", "protobuf", "junk"}]
    /\ LanesOf \in [Payloads -> SUBSET Lanes]
    /\ Wired \subseteq Lanes /\ Wired # {}
    /\ SeqSpace \in Nat \ {0} /\ MaxReads \in Nat /\ MaxErrors \in Nat

VARIABLES
    caller,      \* "new", "running", "cancelled", "closed" or "stopped"
    cancelled,   \* the loop's context is done
    loop,        \* "off", "check", "read", "fanout" or "done"
    frags,       \* content id -> fragment entry
    lanes,       \* lanes the envelope in fanout has still to be offered to
    firstErr,    \* a consumer of this envelope failed
    envelopes, dropped,            \* Stats() counters
    reads, ignored, gathered,      \* history: datagrams, control packets, fragments kept
    errors, failed,                \* history: errors of an open socket, failed envelopes
    served, current,               \* history: lanes served so far, of this payload
    assembled                      \* history: the parts of every payload put together

stats == <<envelopes, dropped>>
fanoutVars == <<lanes, firstErr, served, current>>
history == <<reads, ignored, gathered, errors, failed, assembled>>
vars == <<caller, cancelled, loop, frags, fanoutVars, stats, history>>

Empty == [x \in {} |-> x]
Put(f, x, v) == [y \in DOMAIN f \cup {x} |-> IF y = x THEN v ELSE f[y]]

Init ==
    /\ caller = "new" /\ cancelled = FALSE /\ loop = "off" /\ frags = Empty
    /\ lanes = {} /\ firstErr = FALSE /\ served = {} /\ current = {}
    /\ envelopes = 0 /\ dropped = 0 /\ reads = 0 /\ ignored = 0 /\ gathered = 0
    /\ errors = 0 /\ failed = 0 /\ assembled = {}

-----------------------------------------------------------------------------
(* The collector's side.  Start binds the socket and starts the loop; it   *)
(* may fail to bind, which changes nothing.                                *)
Start ==
    /\ caller = "new"
    /\ caller' = "running" /\ loop' = "check"
    /\ UNCHANGED <<cancelled, frags, fanoutVars, stats, history>>

(* The context given to Start is cancelled. *)
CancelContext ==
    /\ caller = "running" /\ cancelled' = TRUE
    /\ UNCHANGED <<caller, loop, frags, fanoutVars, stats, history>>

(* Stop: cancel, close the socket, wait for the loop. *)
StopCancel_ClosesFirst ==
    /\ caller = "running"
    /\ caller' = "closed"
    /\ UNCHANGED <<cancelled, loop, frags, fanoutVars, stats, history>>

StopCancel ==
    /\ caller = "running"
    /\ caller' = "cancelled" /\ cancelled' = TRUE
    /\ UNCHANGED <<loop, frags, fanoutVars, stats, history>>

StopClose_AfterWait ==
    /\ caller = "cancelled" /\ loop = "done"
    /\ caller' = "closed"
    /\ UNCHANGED <<cancelled, loop, frags, fanoutVars, stats, history>>

StopClose ==
    /\ caller = "cancelled"
    /\ caller' = "closed"
    /\ UNCHANGED <<cancelled, loop, frags, fanoutVars, stats, history>>

StopWait ==
    /\ caller = "closed" /\ loop = "done"
    /\ caller' = "stopped"
    /\ UNCHANGED <<cancelled, loop, frags, fanoutVars, stats, history>>

-----------------------------------------------------------------------------
(* loop.  ReadFromUDP has no deadline: it returns a datagram, or an error, *)
(* which a closed socket gives at once.                                    *)
Check ==
    /\ loop = "check"
    /\ loop' = IF cancelled THEN "done" ELSE "read"
    /\ UNCHANGED <<caller, cancelled, frags, fanoutVars, stats, history>>

ReadError ==
    /\ loop = "read"
    /\ caller = "closed" \/ errors < MaxErrors
    /\ errors' = IF caller = "closed" \/ cancelled THEN errors ELSE errors + 1
    /\ IF cancelled THEN loop' = "done" /\ UNCHANGED dropped
                    ELSE loop' = "check" /\ dropped' = dropped + 1
    /\ UNCHANGED <<caller, cancelled, frags, fanoutVars, envelopes, reads,
                   ignored, gathered, failed, assembled>>

(* A datagram was in the socket before it was closed. *)
Read ==
    /\ loop = "read" /\ caller # "closed" /\ reads < MaxReads
    /\ reads' = reads + 1

(* Shorter than a header, or not of version 2. *)
HandleMalformed ==
    /\ Read
    /\ dropped' = dropped + 1 /\ loop' = "check"
    /\ UNCHANGED <<caller, cancelled, frags, fanoutVars, envelopes, ignored,
                   gathered, errors, failed, assembled>>

(* Handshake, ACK, NACK, keepalive, FIN: no answer, no count. *)
HandleControl ==
    /\ Read
    /\ ignored' = ignored + 1 /\ loop' = "check"
    /\ UNCHANGED <<caller, cancelled, frags, fanoutVars, stats, gathered,
                   errors, failed, assembled>>

(* AddAndMaybeAssemble, for the part with number i of a payload. *)
Entry(p, i) ==
    LET id == ContentId[p]
        e  == IF id \in DOMAIN frags THEN frags[id]
              ELSE [parts |-> Empty, lastSeq |-> 0, complete |-> FALSE]
        last == i = Split[p] - 1
    IN  [parts    |-> Put(e.parts, i, p),
         lastSeq  |-> IF last THEN i ELSE e.lastSeq,
         complete |-> e.complete \/ last]

(* The number of parts is narrowed to 16 bits before it is compared. *)
Whole_OneMore(e) ==
    /\ e.complete
    /\ Cardinality(DOMAIN e.parts) % SeqSpace > e.lastSeq + 1
    /\ 0 .. e.lastSeq \subseteq DOMAIN e.parts
Whole_Unchecked(e) ==
    e.complete /\ Cardinality(DOMAIN e.parts) % SeqSpace >= e.lastSeq
Whole(e) ==
    /\ e.complete
    /\ Cardinality(DOMAIN e.parts) % SeqSpace > e.lastSeq
    /\ 0 .. e.lastSeq \subseteq DOMAIN e.parts

(* What follows reassembly: protobuf is not decoded yet, and what is not   *)
(* JSON is dropped; an envelope is counted before it is handed out.        *)
Decode(p) ==
    IF Format[p] = "json"
      THEN /\ envelopes' = envelopes + 1 /\ UNCHANGED dropped
           /\ lanes' = LanesOf[p] \cap Wired /\ firstErr' = FALSE
           /\ served' = {} /\ current' = {p}
           /\ loop' = "fanout"
      ELSE /\ dropped' = dropped + 1 /\ UNCHANGED <<envelopes, fanoutVars>>
           /\ loop' = "check"

HandleWhole(p) ==
    /\ Read /\ Split[p] = 0
    /\ Decode(p)
    /\ UNCHANGED <<caller, cancelled, frags, ignored, gathered, errors, failed,
                   assembled>>

(* The protobuf flag is that of the fragment at hand, as are the payload's *)
(* other properties: the parts of an entry agree on them when its content  *)
(* id is that of one payload.                                              *)
HandleFragment(p, i) ==
    /\ Read /\ i < Split[p]
    /\ LET e == Entry(p, i)
           id == ContentId[p]
       IN  IF Whole(e)
             THEN /\ frags' = Restrict(frags, DOMAIN frags \ {id})
                  /\ assembled' = assembled \cup {Restrict(e.parts, DOMAIN e.parts \cap 0 .. e.lastSeq)}
                  /\ Decode(p)
                  /\ UNCHANGED gathered
             ELSE /\ frags' = Put(frags, id, e)
                  /\ gathered' = gathered + 1 /\ loop' = "check"
                  /\ UNCHANGED <<stats, fanoutVars, assembled>>
    /\ UNCHANGED <<caller, cancelled, ignored, errors, failed>>

-----------------------------------------------------------------------------
(* fanout: metrics, traces, logs, whatever an earlier consumer said; an    *)
(* error makes the envelope dropped as well.                               *)
Before(l) == CASE l = "metrics" -> {} [] l = "traces" -> {"metrics"}
               [] l = "logs" -> {"metrics", "traces"}

Consume_StopsAtError(l, ok) ==
    /\ loop = "fanout" /\ l \in lanes /\ lanes \cap Before(l) = {}
    /\ lanes' = IF ok THEN lanes \ {l} ELSE {}
    /\ served' = served \cup {l}
    /\ firstErr' = (firstErr \/ ~ ok)
    /\ UNCHANGED <<caller, cancelled, loop, frags, current, stats, history>>

Consume(l, ok) ==
    /\ loop = "fanout" /\ l \in lanes /\ lanes \cap Before(l) = {}
    /\ lanes' = lanes \ {l} /\ served' = served \cup {l}
    /\ firstErr' = (firstErr \/ ~ ok)
    /\ UNCHANGED <<caller, cancelled, loop, frags, current, stats, history>>

FanoutDone ==
    /\ loop = "fanout" /\ lanes = {}
    /\ loop' = "check"
    /\ dropped' = IF firstErr THEN dropped + 1 ELSE dropped
    /\ failed' = IF firstErr THEN failed + 1 ELSE failed
    /\ UNCHANGED <<caller, cancelled, frags, fanoutVars, envelopes, reads,
                   ignored, gathered, errors, assembled>>

-----------------------------------------------------------------------------
Stop == StopCancel \/ StopClose \/ StopWait
Fanout == FanoutDone \/ \E l \in Lanes, ok \in BOOLEAN : Consume(l, ok)
Handle ==
    \/ HandleMalformed \/ HandleControl
    \/ \E p \in Payloads :
          HandleWhole(p) \/ \E i \in 0 .. SeqSpace - 1 : HandleFragment(p, i)

Next == Start \/ CancelContext \/ Stop \/ Check \/ ReadError \/ Handle \/ Fanout
Spec == Init /\ [][Next]_vars

(* The goroutines of the loop and of a Stop in progress are scheduled, and *)
(* consumers return.  No datagram need arrive.                             *)
FairSpec ==
    /\ Spec
    /\ WF_vars(Check) /\ WF_vars(ReadError /\ caller = "closed") /\ WF_vars(Fanout)
    /\ WF_vars(StopClose \/ StopWait)

-----------------------------------------------------------------------------
(* Properties. *)

(* Every datagram read has one fate: a control packet passed over, a       *)
(* fragment kept, an envelope, or a drop; and dropped holds besides those  *)
(* only errors of a socket in use and the envelopes a consumer refused,    *)
(* which are counted twice.  Closing the socket is no such error: Stop     *)
(* cancels the context first, so the loop, whenever it reads the error,    *)
(* knows why.                                                              *)
Accounting ==
    reads = ignored + gathered + envelopes + (dropped - errors - failed)

(* Only whole payloads are put together, with every part in its place,     *)
(* when distinct payloads have distinct hashes.                            *)
Injective == \A p, q \in Payloads : ContentId[p] = ContentId[q] => p = q
ReassembledWhole ==
    Injective => \A a \in assembled : \E p \in Payloads :
       DOMAIN a = 0 .. Split[p] - 1 /\ \A i \in DOMAIN a : a[i] = p

(* No message stays in the buffer once all its parts are there, unless it  *)
(* has exactly as many parts as there are sequence numbers: then their     *)
(* number, narrowed to 16 bits, is zero.                                   *)
NothingStranded ==
    \A id \in DOMAIN frags :
       LET e == frags[id]
       IN  e.complete /\ 0 .. e.lastSeq \subseteq DOMAIN e.parts
             => Cardinality(DOMAIN e.parts) = SeqSpace

(* A consumer that fails does not keep the envelope from the other lanes.  *)
LanesServed ==
    loop = "fanout" /\ lanes = {}
       => \A p \in current : served = LanesOf[p] \cap Wired

(* Stop returns, whatever the loop was doing when it was called. *)
StopReturns == (caller = "cancelled") ~> (caller = "stopped")

-----------------------------------------------------------------------------
(* The inductive invariant behind the first, the second and the fourth.    *)

(* Stop closes the socket of a cancelled context only. *)
CallerInv ==
    /\ cancelled \in BOOLEAN
    /\ caller \in {"cancelled", "closed", "stopped"} => cancelled
    /\ envelopes \in Nat /\ dropped \in Nat /\ reads \in Nat /\ ignored \in Nat
    /\ gathered \in Nat /\ errors \in Nat /\ failed \in Nat

(* A buffer entry holds parts of the one payload with its content id, and  *)
(* knows the number of the last one once it has that.                      *)
BufferInv ==
    Injective => \A id \in DOMAIN frags : \E p \in Payloads :
       /\ ContentId[p] = id /\ Split[p] > 0
       /\ DOMAIN frags[id].parts \subseteq 0 .. Split[p] - 1
       /\ \A i \in DOMAIN frags[id].parts : frags[id].parts[i] = p
       /\ frags[id].complete => frags[id].lastSeq = Split[p] - 1

(* The lanes served and those still to come are the lanes of the envelope. *)
LanesInv ==
    loop = "fanout" => \A p \in current : served \cup lanes = LanesOf[p] \cap Wired

(* The buffer is left with an entry only when the entry was not whole.  The *)
(* invariant behind NothingStranded.                                        *)
KeptInv ==
    \A id \in DOMAIN frags :
       /\ DOMAIN frags[id].parts \subseteq 0 .. SeqSpace - 1
       /\ frags[id].lastSeq \in 0 .. SeqSpace - 1
       /\ ~Whole(frags[id])

IndInv == CallerInv /\ Accounting /\ BufferInv /\ ReassembledWhole /\ LanesInv
=============================================================================
