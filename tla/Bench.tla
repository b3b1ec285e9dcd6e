------------------------------- MODULE Bench -------------------------------
(***************************************************************************)
(* A run of entropyops-helper/cmd/eo-ingest-bench: the enabled paths one   *)
(* after the other, each with its warm-up and its measured iterations.     *)
(* Over AgenticUDP an iteration is a SendCycle of ChunkedSend that does    *)
(* not wait for ACKs: they are waited for after the warm-up and after the  *)
(* measured loop, each time up to a deadline, while the client's           *)
(* goroutines go on.  What happens to the process after the report of a    *)
(* path (tables, JSON) is BenchMerge's.                                    *)
(***************************************************************************)
EXTENDS ChunkedSend, BenchStats

CONSTANTS
    PathSets,      \* values of -paths, as sets
    Warmup, Iters, \* iterations of the UDP warm-up and of every measured loop
    Latencies,     \* latency samples
    Attempts       \* handshakes connectUDPWithRetry tries (3)

ASSUME BenchAssumption ==
    /\ Warmup \in Nat /\ Iters \in Nat \ {0} /\ Attempts \in Nat \ {0}

VARIABLES
    pc,            \* what the main goroutine does
    queue,         \* enabled paths still to run
    i,             \* iterations done, or handshakes tried
    samples, fb,   \* samples and failures of the path
    start,         \* sentAtStart and ackedAtStart
    settled,       \* history: at that moment every warm-up datagram was ACKed
    results        \* results of the paths run

benchVars == <<pc, queue, i, samples, fb, start, settled, results>>
vars == <<sendVars, benchVars>>
tally == <<samples, fb>>

-----------------------------------------------------------------------------
If(b, seq) == IF b THEN seq ELSE <<>>
Enabled(paths) ==
    If("http" \in paths, <<"http">>) \o If("grpc" \in paths, <<"grpc">>)
      \o If("udp" \in paths, <<"udp">>)

Init ==
    /\ era = "warm" /\ NoCycle /\ FreshClient
    /\ pc = "idle" /\ \E ps \in PathSets : queue = Enabled(ps)
    /\ i = 0 /\ samples = <<>> /\ fb = NoFailures
    /\ start = [sent |-> 0, acked |-> 0] /\ settled = FALSE
    /\ results = <<>>

Report(r) ==
    /\ results' = Append(results, r)
    /\ pc' = "idle"

(* runHTTP, runGRPC or runUDP begins; the last one makes a client.  The    *)
(* warm-up requests of the first two leave no trace.                       *)
StartPath ==
    /\ pc = "idle" /\ queue # <<>>
    /\ pc' = CASE Head(queue) = "http" -> "request"
               [] Head(queue) = "grpc" -> "dial"
               [] Head(queue) = "udp" -> "connect"
    /\ i' = 0 /\ samples' = <<>> /\ fb' = NoFailures
    /\ UNCHANGED <<sendVars, queue, start, settled, results>>

(* grpc.DialContext returns a connection or fails after 5 s. *)
Dial(ok) ==
    /\ pc = "dial"
    /\ IF ok THEN pc' = "request" /\ UNCHANGED <<queue, results>>
             ELSE Report(PathResult("grpc", "FAIL_DIAL")) /\ queue' = Tail(queue)
    /\ UNCHANGED <<sendVars, i, tally, start, settled>>

Count(kind) == fb' = [fb EXCEPT ![kind] = @ + 1] /\ UNCHANGED samples
Sample == \E l \in Latencies : samples' = Append(samples, l) /\ UNCHANGED fb

(* One measured request over HTTP or gRPC, with its error classified.      *)
Request ==
    /\ pc = "request" /\ i < Iters
    /\ i' = i + 1
    /\ Sample \/ \E kind \in DOMAIN NoFailures : Count(kind)
    /\ UNCHANGED <<sendVars, pc, queue, start, settled, results>>

RequestsDone ==
    /\ pc = "request" /\ i = Iters
    /\ Report(SummarizeWithFailures(Head(queue), samples, fb))
    /\ queue' = Tail(queue)
    /\ UNCHANGED <<sendVars, i, tally, start, settled>>

-----------------------------------------------------------------------------
(* runUDP. *)

(* connectUDPWithRetry: every attempt uses a new client. *)
Connect(ok) ==
    /\ pc = "connect"
    /\ IF ok
          THEN /\ pc' = "loop" /\ i' = 0 /\ era' = "warm"
               /\ UNCHANGED <<queue, results>>
          ELSE /\ i' = i + 1 /\ UNCHANGED era
               /\ IF i + 1 < Attempts
                     THEN UNCHANGED <<pc, queue, results>>
                     ELSE /\ Report(PathResult("udp", "FAIL_HANDSHAKE"))
                          /\ queue' = Tail(queue)
    /\ UNCHANGED <<loopVars, clientVars, tally, start, settled>>

Rounds == IF era = "warm" THEN Warmup ELSE Iters

(* sendOne. *)
SendOne ==
    /\ pc = "loop" /\ i < Rounds /\ cycle = "none"
    /\ BeginCycle
    /\ UNCHANGED <<era, benchVars>>

ChunkStep == ChunkLoop /\ UNCHANGED benchVars

SendOneDone_Uncounted ==
    /\ pc = "loop" /\ cycle \in {"sent", "failed"}
    /\ IF era = "warm" \/ cycle = "failed" THEN UNCHANGED tally ELSE Sample
    /\ cycle' = "none" /\ fitting' = {} /\ size' = 0 /\ off' = 0 /\ passes' = 0
    /\ copies' = [r \in Record |-> 0]
    /\ i' = i + 1
    /\ UNCHANGED <<era, clientVars, pc, queue, start, settled, results>>

(* SendCycle returned: nothing is noted of a warm-up iteration, an error   *)
(* or a cycle without a datagram is counted, and a success leaves a sample. *)
SendOneDone ==
    /\ pc = "loop" /\ cycle \in {"sent", "failed"}
    /\ IF era = "warm" THEN UNCHANGED tally
       ELSE IF cycle = "failed" \/ \A r \in Record : copies[r] = 0
               THEN Count("other") ELSE Sample
    /\ cycle' = "none" /\ fitting' = {} /\ size' = 0 /\ off' = 0 /\ passes' = 0
    /\ copies' = [r \in Record |-> 0]
    /\ i' = i + 1
    /\ UNCHANGED <<era, clientVars, pc, queue, start, settled, results>>

LoopDone ==
    /\ pc = "loop" /\ i = Rounds /\ cycle = "none"
    /\ pc' = IF era = "warm" THEN "warmDrain" ELSE "ackDrain"
    /\ UNCHANGED <<sendVars, queue, i, tally, start, settled, results>>

(* The warm-up's drain ends, drained or at its deadline of 30 s, and the   *)
(* measured window opens.                                                  *)
WarmupDrained_Stale ==
    /\ pc = "warmDrain"
    /\ pc' = "loop" /\ era' = "main" /\ i' = 0
    /\ start' = [sent |-> sent, acked |-> 0]
    /\ settled' = (out["warm"] = 0 /\ lost["warm"] = 0)
    /\ UNCHANGED <<loopVars, clientVars, queue, tally, results>>

WarmupDrained ==
    /\ pc = "warmDrain"
    /\ pc' = "loop" /\ era' = "main" /\ i' = 0
    /\ start' = [sent |-> sent, acked |-> acked]
    /\ settled' = (out["warm"] = 0 /\ lost["warm"] = 0)
    /\ UNCHANGED <<loopVars, clientVars, queue, tally, results>>

TotalMainSent == sent - start.sent
Unacked == TotalMainSent - (acked - start.acked)

(* The ACK drain ends: every datagram of the loop is acknowledged as far   *)
(* as the counters tell, or the ACK timeout passes.                        *)
AckDrained_NoDeadline ==
    /\ pc = "ackDrain" /\ acked - start.acked >= TotalMainSent
    /\ pc' = "count"
    /\ UNCHANGED <<sendVars, queue, i, tally, start, settled, results>>

AckDrained ==
    /\ pc = "ackDrain"
    /\ pc' = "count"
    /\ UNCHANGED <<sendVars, queue, i, tally, start, settled, results>>

(* What is still unacknowledged is counted as timeouts. *)
CountUnacked ==
    /\ pc = "count"
    /\ fb' = IF Unacked > 0 THEN [fb EXCEPT !.timeouts = @ + Unacked] ELSE fb
    /\ pc' = "counters"
    /\ UNCHANGED <<sendVars, queue, i, samples, start, settled, results>>

(* The counters are read again for the report, and the client is closed:   *)
(* its goroutines end.                                                     *)
ReportUDP ==
    /\ pc = "counters"
    /\ Report([SummarizeWithFailures("udp", samples, fb) EXCEPT
                  !.udp = [sent |-> sent, acked |-> acked, dropped |-> dropped]])
    /\ queue' = Tail(queue)
    /\ out' = [e \in Eras |-> 0]
    /\ UNCHANGED <<era, loopVars, sent, acked, dropped, lost, i, tally, start, settled>>

-----------------------------------------------------------------------------
Bencher ==
    \/ StartPath \/ \E ok \in BOOLEAN : Dial(ok) \/ Connect(ok)
    \/ Request \/ RequestsDone
    \/ SendOne \/ ChunkStep \/ SendOneDone \/ LoopDone
    \/ WarmupDrained \/ AckDrained \/ CountUnacked \/ ReportUDP

ClientLoops == \E e \in Eras : ProcessACK(e) \/ GiveUp(e)
BenchNext == Bencher \/ (ClientLoops /\ UNCHANGED benchVars)

-----------------------------------------------------------------------------
(* Properties. *)

(* No loss goes unreported: when the unacknowledged datagrams have been    *)
(* counted, the timeouts reported cover every datagram of the measured     *)
(* loop that is still awaited or was given up, provided that the warm-up's *)
(* datagrams were all acknowledged before the loop.  runUDP computes the   *)
(* number from differences of two counters that ackLoop moves meanwhile;   *)
(* without the proviso a late ACK of the warm-up hides a loss.             *)
LossReported ==
    pc = "counters" /\ settled => fb.timeouts >= out["main"] + lost["main"]

AttemptsOf(r) ==
    IF r.status \in {"FAIL_DIAL", "FAIL_HANDSHAKE"} THEN r.attempted = 0
    ELSE r.attempted \in Iters .. Iters + (IF r.path = "udp" THEN r.udp.sent ELSE 0)

(* Every measured iteration is in the report exactly once, as a sample or  *)
(* as a failure: attempted is the number of iterations on the OTLP paths,  *)
(* and over UDP that number plus the datagrams counted unacknowledged,     *)
(* which are at most those sent.                                           *)
AttemptsAccounted == \A k \in DOMAIN results : AttemptsOf(results[k])

-----------------------------------------------------------------------------
(* The inductive invariant behind LossReported.                            *)

(* The UDP path is the last one, and runs at most once. *)
UDPPhases == {"connect", "loop", "warmDrain", "ackDrain", "count", "counters"}
QueueInv ==
    /\ queue \in Seq({"http", "grpc", "udp"})
    /\ \A k \in DOMAIN queue : queue[k] = "udp" => k = Len(queue)
    /\ pc \in UDPPhases => queue # <<>> /\ Head(queue) = "udp"
    /\ pc \in {"request", "dial"} => queue # <<>>
    /\ pc \in {"idle", "end", "request", "dial"} \cup UDPPhases

CounterTypes ==
    /\ era \in Eras /\ settled \in BOOLEAN
    /\ sent \in Nat /\ acked \in Nat
    /\ out \in [Eras -> Nat] /\ lost \in [Eras -> Nat]
    /\ fb \in [timeouts : Nat, nonOK : Nat, other : Nat]
    /\ start \in [sent : Nat, acked : Nat]

(* Before the measured loop no datagram belongs to it; in it the two       *)
(* differences runUDP takes tell what became of its datagrams, if those of *)
(* the warm-up were settled.                                               *)
Main == pc \in {"ackDrain", "count"} \/ (pc = "loop" /\ era = "main")
Early ==
    \/ pc = "idle" /\ queue # <<>>
    \/ pc \in {"request", "dial", "connect", "warmDrain"}
    \/ pc = "loop" /\ era = "warm"
LossInv ==
    /\ pc \in {"ackDrain", "count", "counters"} => era = "main"
    /\ cycle # "none" => pc = "loop"
    /\ Early => out["main"] = 0 /\ lost["main"] = 0
    /\ Main /\ settled =>
         /\ out["warm"] = 0 /\ lost["warm"] = 0
         /\ sent - start.sent = out["main"] + lost["main"] + (acked - start.acked)

(* The samples and failures of a path add up to its iterations so far.     *)
(* The invariant behind AttemptsAccounted.                                 *)
Tallied == Len(samples) + Total(fb)
TallyInv ==
    /\ samples \in Seq(Latencies) /\ i \in Nat
    /\ pc = "dial" => i = 0
    /\ pc \in {"dial", "connect", "warmDrain"} \/ (pc = "loop" /\ era = "warm") => Tallied = 0
    /\ pc = "request" \/ (pc = "loop" /\ era = "main") => Tallied = i /\ i <= Iters
    /\ pc = "loop" /\ era = "main" /\ cycle # "none" => i < Iters
    /\ pc \in {"ackDrain", "count"} => Tallied = Iters
    /\ pc = "counters" => Tallied \in Iters .. Iters + sent
    /\ Main => start.acked <= acked
ResultsInv ==
    results \in Seq({results[k] : k \in DOMAIN results}) /\ AttemptsAccounted

IndInv == CycleInv /\ QueueInv /\ CounterTypes /\ LossInv /\ LossReported
=============================================================================
