----------------------------- MODULE BenchProofs -----------------------------
(***************************************************************************)
(* Proofs about benchmark runs and the files they leave, for any batch,    *)
(* chunk size, window, number of iterations, earlier files and merges:     *)
(* sendChunkedSignal covers its batch, runUDP reports every loss of the    *)
(* measured loop, every attempt is in the report once, and what a merge,   *)
(* or a merge of merges, says is what the runs behind it measured.         *)
(***************************************************************************)
EXTENDS BenchMerge, BenchFilesProofs, TLAPS

(* The halving of a chunk size is a number. *)
LEMMA Halved == \A n \in Nat : n \div 2 \in Nat
  OBVIOUS

(* One more failure of some kind. *)
LEMMA Counted ==
    ASSUME CounterTypes, NEW kind \in DOMAIN NoFailures, Count(kind)
    PROVE  fb' \in [timeouts : Nat, nonOK : Nat, other : Nat]
<1>1. kind \in {"timeouts", "nonOK", "other"}
  BY ZenonT(30) DEF NoFailures
<1>2. CASE kind = "timeouts"
  BY <1>2 DEF Count, CounterTypes
<1>3. CASE kind = "nonOK"
  BY <1>3 DEF Count, CounterTypes
<1>4. CASE kind = "other"
  BY <1>4 DEF Count, CounterTypes
<1> QED BY <1>1, <1>2, <1>3, <1>4

(* A step of sendChunkedSignal keeps the pass regular. *)
LEMMA ChunkLoopCycle ==
    ASSUME CycleInv, ChunkLoop PROVE CycleInv'
<1> USE ChunkedSendAssumption
<1>1. CASE SendSlice
  <2>1. /\ cycle \in {"whole", "chunks", "single"} /\ cycle' = cycle /\ passes' = passes
        /\ off' = off + size /\ size' = size
        /\ copies' = [r \in Record |-> IF off < r /\ r <= SliceEnd
                                       THEN copies[r] + 1 ELSE copies[r]]
    BY <1>1, ZenonT(30) DEF SendSlice, MaySend
  <2>2. \A r \in Record : r \in Nat /\ r <= Records
    BY DEF Record
  <2>3. \A r \in Record : r <= SliceEnd <=> r <= off + size
    BY <2>2 DEF SliceEnd, CycleInv
  <2>4. ASSUME NEW r \in Record
        PROVE  /\ copies'[r] \in Nat
               /\ IF r <= off + size THEN copies'[r] \in 1 .. passes
                                     ELSE copies'[r] <= passes - 1
    <3>1. r \in Nat /\ off \in Nat /\ size \in Nat /\ passes \in Nat /\ copies[r] \in Nat
      BY <2>2, ZenonT(30) DEF CycleInv
    <3>2. IF r <= off THEN copies[r] \in 1 .. passes ELSE copies[r] <= passes - 1
      BY <2>1 DEF CycleInv
    <3>3. copies'[r] = IF off < r /\ r <= off + size THEN copies[r] + 1 ELSE copies[r]
      BY <2>1, <2>3
    <3> QED BY <3>1, <3>2, <3>3
  <2> QED
    BY <2>1, <2>4 DEF CycleInv, BatchCovered
<1>2. CASE TooLong
  <2>1. copies' = copies /\ cycle \in {"whole", "chunks", "single"}
        /\ \/ /\ off' = 0 /\ passes' = passes + 1 /\ cycle' \in {"chunks", "single"}
              /\ size' \in {ChunkSize, 1, size \div 2}
           \/ cycle' = "failed" /\ UNCHANGED <<size, off, passes>>
    BY <1>2 DEF TooLong, MaySend
  <2>2. size' \in Nat /\ off' \in Nat /\ passes' \in Nat
    BY <2>1, Halved DEF CycleInv
  <2>3. \A r \in Record : r \in Nat /\ r > 0 /\ copies[r] \in Nat /\ copies[r] <= passes
    BY <2>1 DEF CycleInv, Record
  <2> QED
    BY <2>1, <2>2, <2>3 DEF CycleInv, BatchCovered
<1>3. CASE WriteFails \/ Stall
  BY <1>3 DEF WriteFails, Stall, CycleInv, BatchCovered
<1>4. CASE PassDone
  <2>1. /\ cycle' = "sent" /\ cycle \in {"whole", "chunks", "single"} /\ off >= Records
        /\ UNCHANGED <<off, size, passes, copies>>
    BY <1>4, ZenonT(30) DEF PassDone
  <2>2. \A r \in Record : r <= off
    BY <2>1 DEF Record, CycleInv
  <2> QED
    BY <2>1, <2>2, ZenonT(30) DEF CycleInv, BatchCovered
<1> QED
  BY <1>1, <1>2, <1>3, <1>4 DEF ChunkLoop

(* A cycle begins, or is over: nothing was sent in it. *)
LEMMA NewCycle ==
    ASSUME copies' = [r \in Record |-> 0], off' = 0, size' \in Nat,
           \/ cycle' = "none" /\ passes' = 0
           \/ cycle' = "whole" /\ passes' = 1
    PROVE  CycleInv'
<1>1. \A r \in Record : r \in Nat /\ r > 0
  BY ChunkedSendAssumption DEF Record
<1>2. \A r \in Record : copies'[r] = 0
  OBVIOUS
<1> QED
  BY <1>1, <1>2 DEF CycleInv, BatchCovered

(* The enabled paths, UDP last. *)
LEMMA EnabledQueue ==
    ASSUME NEW ps
    PROVE  /\ Enabled(ps) \in Seq({"http", "grpc", "udp"})
           /\ \A k \in DOMAIN Enabled(ps) : Enabled(ps)[k] = "udp" => k = Len(Enabled(ps))
<1> DEFINE h == If("http" \in ps, <<"http">>)
           g == If("grpc" \in ps, <<"grpc">>)
           u == If("udp" \in ps, <<"udp">>)
           a == h \o g
<1>1. h \in Seq({"http", "grpc"}) /\ g \in Seq({"http", "grpc"}) /\ u \in Seq({"udp"})
      /\ Len(u) <= 1
  <2>1. ASSUME NEW S, NEW x \in S, NEW b
        PROVE  If(b, <<x>>) \in Seq(S) /\ Len(If(b, <<x>>)) <= 1
    BY DEF If
  <2> HIDE DEF If
  <2>2. h \in Seq({"http", "grpc"})
    BY <2>1, ZenonT(30)
  <2>3. g \in Seq({"http", "grpc"})
    BY <2>1
  <2>4. u \in Seq({"udp"}) /\ Len(u) <= 1
    BY <2>1
  <2> QED BY <2>2, <2>3, <2>4, ZenonT(30)
<1>2. Enabled(ps) = a \o u
  BY DEF Enabled
<1> HIDE DEF h, g, u
<1>3. a \in Seq({"http", "grpc"})
  BY <1>1
<1> HIDE DEF a
<1>4. \A k \in 1 .. Len(a) : a[k] # "udp"
  BY <1>3
<1>5. /\ a \o u \in Seq({"http", "grpc", "udp"}) /\ Len(a \o u) = Len(a) + Len(u)
      /\ \A k \in 1 .. Len(a) : (a \o u)[k] = a[k]
  BY <1>1, <1>3
<1> QED
  BY <1>1, <1>2, <1>3, <1>4, <1>5

(* The path at the head of the queue is done. *)
LEMMA TailQueue ==
    ASSUME QueueInv, queue # <<>>
    PROVE  /\ Tail(queue) \in Seq({"http", "grpc", "udp"})
           /\ \A k \in DOMAIN Tail(queue) : Tail(queue)[k] = "udp" => k = Len(Tail(queue))
           /\ Head(queue) = "udp" => Tail(queue) = <<>>
           /\ Head(queue) \in {"http", "grpc", "udp"}
  BY DEF QueueInv

(* A run that has not begun. *)
LEMMA InitInd == MergeInit => IndInv
<1> SUFFICES ASSUME MergeInit PROVE IndInv
  BY ZenonT(30)
<1>0. /\ era = "warm" /\ NoCycle /\ FreshClient /\ pc = "idle" /\ fb = NoFailures
      /\ start = [sent |-> 0, acked |-> 0] /\ settled = FALSE
  BY DEF MergeInit, Init
<1>1. CycleInv
  BY <1>0 DEF NoCycle, CycleInv, BatchCovered
<1>2. QueueInv
  <2>1. PICK ps \in PathSets : queue = Enabled(ps)
    BY ZenonT(30) DEF MergeInit, Init
  <2> QED BY <1>0, <2>1, EnabledQueue DEF QueueInv, UDPPhases
<1>3. CounterTypes
  BY <1>0, ZenonT(30) DEF CounterTypes, FreshClient, NoFailures, Eras
<1>4. LossInv /\ LossReported
  BY <1>0 DEF LossInv, LossReported, FreshClient, NoCycle, Main, Early, Eras
<1> QED
  BY <1>1, <1>2, <1>3, <1>4 DEF IndInv

(* The paths over OTLP, and the beginnings and ends of paths. *)
LEMMA PathInd ==
    ASSUME IndInv,
           \/ StartPath \/ Request \/ RequestsDone \/ ReportUDP
           \/ \E ok \in BOOLEAN : Dial(ok) \/ Connect(ok)
    PROVE  IndInv'
<1> USE DEF IndInv
<1>1. UNCHANGED <<loopVars, sent, acked, lost, start, settled>>
  BY ZenonT(30) DEF StartPath, Request, RequestsDone, ReportUDP, Dial, Connect, sendVars, clientVars
<1>2. CycleInv'
  BY <1>1 DEF loopVars, CycleInv, BatchCovered
<1>3. /\ era' \in Eras
      /\ out' = out \/ (ReportUDP /\ out' = [e \in Eras |-> 0])
  BY ZenonT(30) DEF StartPath, Request, RequestsDone, ReportUDP, Dial, Connect, sendVars, clientVars,
         CounterTypes, Eras
<1>4. fb' \in [timeouts : Nat, nonOK : Nat, other : Nat]
  <2>1. CASE Request
    BY <2>1, Counted, ZenonT(30) DEF Request, Sample, CounterTypes
  <2>2. CASE StartPath
    BY <2>2 DEF StartPath, NoFailures
  <2>3. CASE RequestsDone \/ ReportUDP \/ \E ok \in BOOLEAN : Dial(ok) \/ Connect(ok)
    BY <2>3, ZenonT(30) DEF RequestsDone, ReportUDP, Dial, Connect, tally, CounterTypes
  <2> QED BY <2>1, <2>2, <2>3
<1>5. CounterTypes'
  BY <1>1, <1>3, <1>4 DEF CounterTypes
<1>6. QueueInv'
  <2>1. CASE StartPath
    BY <2>1, TailQueue, ZenonT(30) DEF StartPath, QueueInv, UDPPhases
  <2>2. CASE Request
    BY <2>2, ZenonT(30) DEF Request, QueueInv
  <2>3. CASE RequestsDone
    BY <2>3, TailQueue DEF RequestsDone, Report, QueueInv, UDPPhases
  <2>4. CASE ReportUDP
    BY <2>4, TailQueue DEF ReportUDP, Report, QueueInv, UDPPhases
  <2>5. ASSUME NEW ok \in BOOLEAN, Dial(ok) PROVE QueueInv'
    <3>1. queue # <<>> /\ pc = "dial"
      BY <2>5, ZenonT(30) DEF Dial, QueueInv
    <3>2. CASE ok
      BY <2>5, <3>1, <3>2 DEF Dial, QueueInv, UDPPhases
    <3>3. CASE ~ok
      BY <2>5, <3>1, <3>3, TailQueue, ZenonT(30) DEF Dial, Report, QueueInv, UDPPhases
    <3> QED BY <3>2, <3>3
  <2>6. ASSUME NEW ok \in BOOLEAN, Connect(ok) PROVE QueueInv'
    BY <2>6, TailQueue, ZenonT(30) DEF Connect, Report, QueueInv, UDPPhases
  <2> QED BY <2>1, <2>2, <2>3, <2>4, <2>5, <2>6, ZenonT(30)
<1>7. /\ cycle' = cycle /\ cycle = "none"
      /\ pc' \in {"idle", "request", "dial", "connect"} \/ (pc' = "loop" /\ era' = "warm")
  <2>1. pc # "loop"
    BY ZenonT(30) DEF StartPath, Request, RequestsDone, ReportUDP, Dial, Connect
  <2>2. pc' \in {"idle", "request", "dial", "connect"} \/ (pc' = "loop" /\ era' = "warm")
    <3>1. CASE StartPath
      BY <3>1, TailQueue, ZenonT(30) DEF StartPath
    <3>2. CASE ~StartPath
      BY <3>2, ZenonT(30) DEF Request, RequestsDone, ReportUDP, Dial, Connect, Report
    <3> QED BY <3>1, <3>2
  <2> QED
    BY <1>1, <2>1, <2>2, ZenonT(30) DEF loopVars, LossInv
<1>8. LossReported' /\ ~Main'
  BY <1>7 DEF LossReported, Main
<1>9. Early' => out'["main"] = 0 /\ lost'["main"] = 0
  <2>1. CASE ReportUDP
    <3>1. pc' = "idle" /\ queue' = <<>>
      BY <2>1, TailQueue, ZenonT(30) DEF ReportUDP, Report, QueueInv, UDPPhases
    <3> QED BY <3>1 DEF Early
  <2>2. CASE ~ReportUDP
    <3>1. Early
      BY <2>2, ZenonT(30) DEF StartPath, Request, RequestsDone, Dial, Connect, Early
    <3> QED BY <1>1, <1>3, <2>2, <3>1, ZenonT(30) DEF LossInv
  <2> QED BY <2>1, <2>2
<1>10. LossInv'
  BY <1>7, <1>8, <1>9 DEF LossInv
<1> QED
  BY <1>2, <1>5, <1>6, <1>8, <1>10

(* The iterations of runUDP begin and end. *)
LEMMA IterationInd ==
    ASSUME IndInv, SendOne \/ SendOneDone PROVE IndInv'
<1> USE DEF IndInv
<1>1. /\ UNCHANGED <<era, sent, acked, out, lost, pc, queue, start, settled>> /\ pc = "loop"
      /\ cycle' \in {"none", "whole"}
  BY ZenonT(30) DEF SendOne, SendOneDone, BeginCycle, benchVars, clientVars
<1>2. CycleInv'
  BY NewCycle, ChunkedSendAssumption DEF SendOne, SendOneDone, BeginCycle
<1>3. fb' \in [timeouts : Nat, nonOK : Nat, other : Nat]
  <2>1. "other" \in DOMAIN NoFailures
    BY DEF NoFailures
  <2>2. CASE SendOne
    BY <2>2 DEF SendOne, benchVars, CounterTypes
  <2>3. CASE SendOneDone
    BY <2>1, <2>3, Counted, ZenonT(30) DEF SendOneDone, Sample, tally, CounterTypes
  <2> QED BY <2>2, <2>3
<1>4. CounterTypes' /\ QueueInv'
  BY <1>1, <1>3, ZenonT(30) DEF CounterTypes, QueueInv
<1>5. LossInv' /\ LossReported'
  BY <1>1 DEF LossInv, LossReported, Main, Early
<1> QED
  BY <1>2, <1>4, <1>5, ZenonT(30)

(* A datagram of the loop is awaited in the era it was sent in. *)
LEMMA ChunkInd ==
    ASSUME IndInv, ChunkStep PROVE IndInv'
<1> USE DEF IndInv
<1>0. UNCHANGED benchVars /\ ChunkLoop /\ UNCHANGED <<era, acked, lost>> /\ pc = "loop"
      /\ (era = "warm" \/ era = "main")
  BY ZenonT(30) DEF ChunkStep, ChunkLoop, SendSlice, TooLong, WriteFails, Stall, PassDone, MaySend,
         clientVars, LossInv, CounterTypes, Eras
<1>1. CycleInv'
  BY <1>0, ChunkLoopCycle
<1>2. \/ UNCHANGED <<sent, out>>
      \/ sent' = sent + 1 /\ out' = [out EXCEPT ![era] = @ + 1]
  BY <1>0, ZenonT(30) DEF ChunkLoop, SendSlice, TooLong, WriteFails, Stall, PassDone, clientVars
<1>3. CounterTypes' /\ QueueInv' /\ LossReported'
  <2>1. sent' \in Nat
    BY <1>2 DEF CounterTypes
  <2>2. out' \in [Eras -> Nat]
    BY <1>2 DEF CounterTypes
  <2>3. UNCHANGED <<pc, queue, fb, start, settled, era, acked, lost>>
    BY <1>0 DEF benchVars
  <2>4. CounterTypes'
    BY <2>1, <2>2, <2>3 DEF CounterTypes
  <2>5. QueueInv'
    BY <2>3, ZenonT(30) DEF QueueInv
  <2>6. LossReported'
    BY <1>0, <2>3 DEF LossReported
  <2> QED BY <2>4, <2>5, <2>6
<1>4. LossInv'
  <2>1. CASE UNCHANGED <<sent, out>>
    BY <1>0, <2>1, ZenonT(30) DEF LossInv, Main, Early, benchVars
  <2>2. CASE sent' = sent + 1 /\ out' = [out EXCEPT ![era] = @ + 1]
    <3>1. CASE era = "main"
      <4>1. out'["main"] = out["main"] + 1 /\ out'["warm"] = out["warm"]
        BY <2>2, <3>1, ZenonT(30) DEF CounterTypes, Eras
      <4>2. /\ sent \in Nat /\ acked \in Nat /\ out["main"] \in Nat /\ lost["main"] \in Nat
            /\ start.sent \in Nat /\ start.acked \in Nat
        BY ZenonT(30) DEF CounterTypes, Eras
      <4> QED
        BY <1>0, <2>2, <3>1, <4>1, <4>2 DEF LossInv, Main, Early, benchVars
    <3>2. CASE era = "warm"
      <4>1. out'["main"] = out["main"]
        BY <2>2, <3>2, ZenonT(30) DEF CounterTypes, Eras
      <4> QED
        BY <1>0, <3>2, <4>1 DEF LossInv, Main, Early, benchVars
    <3> QED BY <1>0, <3>1, <3>2
  <2> QED BY <1>2, <2>1, <2>2
<1> QED
  BY <1>1, <1>3, <1>4

(* The two drains, and the snapshot of the counters between them. *)
LEMMA DrainInd ==
    ASSUME IndInv, LoopDone \/ WarmupDrained \/ AckDrained PROVE IndInv'
<1> USE DEF IndInv
<1>1. UNCHANGED <<loopVars, clientVars, queue, fb>> /\ pc \in UDPPhases /\ cycle = "none"
  BY ZenonT(30) DEF LoopDone, WarmupDrained, AckDrained, sendVars, tally, UDPPhases, LossInv
<1>2. CycleInv' /\ QueueInv'
  BY <1>1 DEF loopVars, CycleInv, BatchCovered, QueueInv, LoopDone, WarmupDrained, AckDrained,
              UDPPhases
<1>3. CounterTypes'
  <2>1. CASE WarmupDrained
    <3>1. era' = "main" /\ start' = [sent |-> sent, acked |-> acked]
          /\ settled' = (out["warm"] = 0 /\ lost["warm"] = 0)
      BY <2>1, ZenonT(30) DEF WarmupDrained
    <3>2. start' \in [sent : Nat, acked : Nat] /\ era' \in Eras
      BY <3>1 DEF CounterTypes, Eras
    <3>3. settled' \in BOOLEAN
      BY <3>1
    <3> QED BY <1>1, <3>2, <3>3, ZenonT(30) DEF CounterTypes, clientVars
  <2>2. CASE LoopDone \/ AckDrained
    BY <1>1, <2>2, ZenonT(30) DEF CounterTypes, clientVars, LoopDone, AckDrained, sendVars
  <2> QED BY <2>1, <2>2
<1>4. LossReported'
  BY ZenonT(30) DEF LossReported, LoopDone, WarmupDrained, AckDrained
<1>5. LossInv'
  <2>1. CASE LoopDone
    BY <1>1, <2>1, ZenonT(30) DEF LoopDone, LossInv, Main, Early, sendVars, clientVars, loopVars,
                      CounterTypes, Eras
  <2>2. CASE WarmupDrained
    <3>1. /\ pc = "warmDrain" /\ pc' = "loop" /\ era' = "main" /\ start'.sent = sent
          /\ start'.acked = acked
          /\ settled' => out["warm"] = 0 /\ lost["warm"] = 0
      BY <2>2, ZenonT(30) DEF WarmupDrained
    <3>2. out["main"] = 0 /\ lost["main"] = 0 /\ sent \in Nat /\ acked \in Nat
      BY <3>1 DEF LossInv, Early, CounterTypes
    <3> QED
      BY <1>1, <3>1, <3>2 DEF LossInv, Main, Early, clientVars, loopVars
  <2>3. CASE AckDrained
    BY <1>1, <2>3, ZenonT(30) DEF AckDrained, LossInv, Main, Early, sendVars, clientVars, loopVars
  <2> QED BY <2>1, <2>2, <2>3
<1> QED
  BY <1>2, <1>3, <1>4, <1>5

(* What is unacknowledged is counted, from the differences. *)
LEMMA CountInd ==
    ASSUME IndInv, CountUnacked PROVE IndInv'
<1> USE DEF IndInv
<1>1. UNCHANGED <<loopVars, clientVars, era, queue, start, settled>> /\ pc = "count"
      /\ pc' = "counters" /\ era = "main" /\ cycle = "none"
  BY ZenonT(30) DEF CountUnacked, sendVars, LossInv
<1>2. CycleInv' /\ QueueInv'
  BY <1>1 DEF loopVars, CycleInv, BatchCovered, QueueInv, UDPPhases
<1>3. /\ sent \in Nat /\ acked \in Nat /\ out["main"] \in Nat /\ lost["main"] \in Nat
      /\ start.sent \in Nat /\ start.acked \in Nat /\ fb.timeouts \in Nat
  BY DEF CounterTypes, Eras
<1>4. Unacked \in Int
  BY <1>3 DEF Unacked, TotalMainSent
<1>5. fb' \in [timeouts : Nat, nonOK : Nat, other : Nat]
      /\ fb'.timeouts = IF Unacked > 0 THEN fb.timeouts + Unacked ELSE fb.timeouts
  <2>1. fb' = IF Unacked > 0 THEN [fb EXCEPT !.timeouts = @ + Unacked] ELSE fb
    BY ZenonT(30) DEF CountUnacked
  <2> HIDE DEF Unacked
  <2> QED BY <1>3, <1>4, <2>1 DEF CounterTypes
<1>6. CounterTypes'
  BY <1>1, <1>5 DEF CounterTypes, clientVars
<1>7. LossReported'
  <2>1. settled => Unacked = out["main"] + lost["main"]
    BY <1>1, <1>3, SMTT(30) DEF LossInv, Main, Unacked, TotalMainSent
  <2> HIDE DEF Unacked
  <2> QED
    BY <1>1, <1>3, <1>4, <1>5, <2>1 DEF LossReported, clientVars
<1>8. LossInv'
  BY <1>1, ZenonT(30) DEF LossInv, Main, Early, loopVars
<1> QED
  BY <1>2, <1>6, <1>7, <1>8

(* ackLoop and retransmitLoop meanwhile. *)
LEMMA ClientInd ==
    ASSUME IndInv, NEW e \in Eras, ProcessACK(e) \/ GiveUp(e), UNCHANGED benchVars
    PROVE  IndInv'
<1> USE DEF IndInv
<1>1. /\ UNCHANGED <<era, loopVars, sent>> /\ out[e] > 0 /\ e \in {"warm", "main"}
      /\ out' = [out EXCEPT ![e] = @ - 1]
      /\ \/ acked' = acked + 1 /\ lost' = lost
         \/ acked' = acked /\ lost' = [lost EXCEPT ![e] = @ + 1]
  BY ZenonT(30) DEF ProcessACK, GiveUp, Eras
<1>2. CycleInv' /\ QueueInv'
  BY <1>1, ZenonT(30) DEF loopVars, CycleInv, BatchCovered, QueueInv, benchVars
<1>3. CounterTypes'
  BY <1>1 DEF CounterTypes, benchVars, Eras
<1>4. /\ sent \in Nat /\ acked \in Nat /\ out["main"] \in Nat /\ lost["main"] \in Nat
      /\ out["warm"] \in Nat /\ lost["warm"] \in Nat
      /\ start.sent \in Nat /\ start.acked \in Nat /\ fb.timeouts \in Nat
  BY DEF CounterTypes, Eras
<1>5. CASE e = "main"
  <2>1. /\ out'["main"] = out["main"] - 1 /\ out'["warm"] = out["warm"]
        /\ lost'["warm"] = lost["warm"]
        /\ \/ acked' = acked + 1 /\ lost'["main"] = lost["main"]
           \/ acked' = acked /\ lost'["main"] = lost["main"] + 1
    BY <1>1, <1>5, ZenonT(30) DEF CounterTypes, Eras
  <2>2. LossInv' /\ LossReported'
    <3>0. UNCHANGED <<pc, era, queue, cycle, settled, start, fb, sent>>
      BY <1>1, ZenonT(30) DEF benchVars, loopVars
    <3>1. ~Early
      BY <1>1, <1>5 DEF LossInv
    <3>2. LossReported'
      BY <1>4, <2>1, <3>0 DEF LossReported
    <3>3. Main /\ settled => out'["warm"] = 0 /\ lost'["warm"] = 0 /\
            sent - start.sent = out'["main"] + lost'["main"] + (acked' - start.acked)
      BY <1>4, <2>1 DEF LossInv
    <3> QED
      BY <3>0, <3>1, <3>2, <3>3, ZenonT(30) DEF LossInv, Main, Early
  <2> QED BY <1>2, <1>3, <2>2
<1>6. CASE e = "warm"
  <2>1. out'["main"] = out["main"] /\ lost'["main"] = lost["main"] /\ out["warm"] # 0
    BY <1>1, <1>4, <1>6 DEF CounterTypes, Eras
  <2>2. LossInv' /\ LossReported'
    BY <1>1, <1>4, <2>1, ZenonT(30) DEF LossInv, LossReported, Main, Early, benchVars, loopVars
  <2> QED BY <1>2, <1>3, <2>2
<1> QED BY <1>1, <1>5, <1>6, ZenonT(30)

(* The process ends; its file may be merged. *)
LEMMA FileInd ==
    ASSUME IndInv, MergeAny \/ \E keep \in BOOLEAN : WriteChunk(keep) PROVE IndInv'
<1> USE DEF IndInv
<1>1. CASE MergeAny
  <2>1. UNCHANGED vars
    BY <1>1, ZenonT(30) DEF MergeAny, Merge
  <2> QED
    BY <2>1, ZenonT(30) DEF vars, sendVars, loopVars, clientVars, benchVars, CycleInv, BatchCovered,
                QueueInv, CounterTypes, LossInv, LossReported, Main, Early
<1>2. ASSUME NEW keep \in BOOLEAN, WriteChunk(keep) PROVE IndInv'
  <2>1. /\ pc = "idle" /\ pc' = "end" /\ era' = "warm" /\ sent' = 0 /\ acked' = 0
        /\ settled' = FALSE /\ start' = [sent |-> 0, acked |-> 0] /\ fb' = NoFailures
        /\ lost' = [e \in Eras |-> 0] /\ UNCHANGED <<loopVars, out, queue>>
    BY <1>2, ZenonT(30) DEF WriteChunk
  <2>2. CycleInv' /\ QueueInv'
    BY <2>1, ZenonT(30) DEF loopVars, CycleInv, BatchCovered, QueueInv, UDPPhases
  <2>3. CounterTypes'
    BY <2>1, ZenonT(30) DEF CounterTypes, Eras, NoFailures
  <2>4. LossInv' /\ LossReported'
    BY <2>1, ZenonT(30) DEF LossInv, LossReported, Main, Early, loopVars
  <2> QED BY <2>2, <2>3, <2>4
<1> QED BY <1>1, <1>2, ZenonT(30)

(* IndInv is an invariant of every benchmark run. *)
THEOREM Invariance == Spec => []IndInv
<1>1. IndInv /\ [Next]_allVars => IndInv'
  <2> SUFFICES ASSUME IndInv, [Next]_allVars PROVE IndInv'
    BY ZenonT(30)
  <2>1. CASE Bencher
    BY <2>1, PathInd, IterationInd, ChunkInd, DrainInd, CountInd DEF Bencher
  <2>2. CASE ClientLoops /\ UNCHANGED benchVars
    BY <2>2, ClientInd, ZenonT(30) DEF ClientLoops
  <2>3. CASE MergeAny \/ \E keep \in BOOLEAN : WriteChunk(keep)
    BY <2>3, FileInd, ZenonT(30)
  <2>4. CASE UNCHANGED allVars
    BY <2>4, ZenonT(30) DEF IndInv, allVars, vars, sendVars, loopVars, clientVars, benchVars, CycleInv,
                BatchCovered, QueueInv, CounterTypes, LossInv, LossReported, Main, Early
  <2> QED
    BY <2>1, <2>2, <2>3, <2>4, ZenonT(30) DEF Next, BenchNext
<1> QED
  BY InitInd, <1>1, PTL DEF Spec

(* A SendCycle that returns nil has sent every record, and none more often *)
(* than there were passes.                                                 *)
THEOREM BatchIsCovered == Spec => []BatchCovered
<1>1. IndInv => BatchCovered
  BY ZenonT(30) DEF IndInv, CycleInv
<1> QED
  BY <1>1, Invariance, PTL

(* The timeouts runUDP reports cover every datagram lost in its loop.      *)
THEOREM EveryLossReported == Spec => []LossReported
<1>1. IndInv => LossReported
  BY ZenonT(30) DEF IndInv
<1> QED
  BY <1>1, Invariance, PTL

-----------------------------------------------------------------------------
(* AttemptsAccounted. *)

(* What is reported of a path whose iterations ran. *)
LEMMA Summarized ==
    ASSUME NEW path, NEW ss, NEW f
    PROVE  /\ SummarizeWithFailures(path, ss, f).attempted = Len(ss) + Total(f)
           /\ SummarizeWithFailures(path, ss, f).path = path
           /\ SummarizeWithFailures(path, ss, f).udp = NoCounters
           /\ SummarizeWithFailures(path, ss, f).status \notin {"FAIL_DIAL", "FAIL_HANDSHAKE"}
<1> DEFINE q == Summarize(path, ss)
           r == SummarizeWithFailures(path, ss, f)
<1>1. /\ q.n = Len(ss) /\ q.path = path /\ q.udp = NoCounters
      /\ q.status \in {"PASS", "FAIL_NO_DATA"}
  BY DEF Summarize, PathResult
<1>2. DOMAIN q = {"path", "status", "n", "attempted", "fb", "p50", "p99", "samples", "udp"}
  BY DEF Summarize, PathResult
<1>3. r = [q EXCEPT !.attempted = q.n + Total(f), !.fb = f,
                    !.status = IF Total(f) = 0 THEN q.status
                               ELSE IF q.n = 0 THEN "FAIL_TIMEOUT"
                               ELSE "PASS_WITH_FAILURES"]
  BY ZenonT(30) DEF SummarizeWithFailures
<1> HIDE DEF q, r
<1>4. /\ r.attempted = q.n + Total(f) /\ r.path = q.path /\ r.udp = q.udp
      /\ r.status \in {q.status, "FAIL_TIMEOUT", "PASS_WITH_FAILURES"}
  BY <1>2, <1>3
<1>5. /\ r.attempted = Len(ss) + Total(f) /\ r.path = path /\ r.udp = NoCounters
      /\ r.status \notin {"FAIL_DIAL", "FAIL_HANDSHAKE"}
  BY <1>1, <1>4, ZenonT(30)
<1> QED BY <1>5 DEF r

(* One more result. *)
LEMMA Reported ==
    ASSUME ResultsInv, NEW r, AttemptsOf(r), results' = Append(results, r) PROVE ResultsInv'
<1> DEFINE S == {results[k] : k \in DOMAIN results}
<1>1. results \in Seq(S) /\ \A k \in DOMAIN results : AttemptsOf(results[k])
  BY ZenonT(30) DEF ResultsInv, AttemptsAccounted
<1> HIDE DEF S
<1>2. /\ DOMAIN results = 1 .. Len(results) /\ DOMAIN results' = 1 .. Len(results) + 1
      /\ Len(results) \in Nat /\ results'[Len(results) + 1] = r
      /\ \A k \in 1 .. Len(results) : results'[k] = results[k]
  BY <1>1
<1>3. \A k \in DOMAIN results' : k \in DOMAIN results \/ k = Len(results) + 1
  BY <1>2
<1>4. \A k \in DOMAIN results' : AttemptsOf(results'[k])
  BY <1>1, <1>2, <1>3, ZenonT(30)
<1>5. results' \in Seq({results'[k] : k \in DOMAIN results'})
  <2> DEFINE T == {results'[k] : k \in DOMAIN results'}
  <2>1. \A k \in DOMAIN results' : results'[k] \in T
    BY ZenonT(30)
  <2>2. results' \in Seq(S \cup {r})
    BY <1>1
  <2> HIDE DEF T
  <2>3. results' \in Seq(T)
    BY <2>1, <2>2
  <2> QED BY <2>3 DEF T
<1> QED BY <1>4, <1>5, ZenonT(30) DEF ResultsInv, AttemptsAccounted

(* The types of what is counted. *)
LEMMA TallyTypes ==
    ASSUME CounterTypes, TallyInv
    PROVE  /\ sent \in Nat /\ acked \in Nat /\ era \in {"warm", "main"} /\ i \in Nat
           /\ samples \in Seq(Latencies)
BY DEF CounterTypes, TallyInv, Eras

(* One more failure, or one more sample. *)
LEMMA OneTallied ==
    ASSUME CounterTypes, TallyInv, Sample \/ \E kind \in DOMAIN NoFailures : Count(kind)
    PROVE  /\ samples' \in Seq(Latencies) /\ Tallied' = Tallied + 1
           /\ Tallied \in Nat
<1>1. /\ fb.timeouts \in Nat /\ fb.nonOK \in Nat /\ fb.other \in Nat
      /\ samples \in Seq(Latencies)
  BY DEF CounterTypes, TallyInv
<1>2. Total(fb) \in Nat /\ Len(samples) \in Nat /\ Tallied \in Nat
  BY <1>1 DEF Total, Tallied
<1>3. CASE Sample
  <2>1. PICK l \in Latencies : samples' = Append(samples, l) /\ fb' = fb
    BY <1>3 DEF Sample
  <2>2. samples' \in Seq(Latencies) /\ Len(samples') = Len(samples) + 1
    BY <1>1, <2>1
  <2> QED BY <1>2, <2>1, <2>2 DEF Tallied
<1>4. ASSUME NEW kind \in DOMAIN NoFailures, Count(kind)
      PROVE  samples' \in Seq(Latencies) /\ Tallied' = Tallied + 1
  <2>1. kind \in {"timeouts", "nonOK", "other"}
    BY ZenonT(30) DEF NoFailures
  <2>2. samples' = samples /\ fb' = [fb EXCEPT ![kind] = @ + 1]
    BY <1>4 DEF Count
  <2>3. DOMAIN fb = {"timeouts", "nonOK", "other"}
    BY DEF CounterTypes
  <2>4. Total(fb') = Total(fb) + 1
    <3>1. CASE kind = "timeouts"
      BY <1>1, <2>2, <2>3, <3>1 DEF Total
    <3>2. CASE kind = "nonOK"
      BY <1>1, <2>2, <2>3, <3>2 DEF Total
    <3>3. CASE kind = "other"
      BY <1>1, <2>2, <2>3, <3>3 DEF Total
    <3> QED BY <2>1, <3>1, <3>2, <3>3
  <2> QED BY <1>1, <1>2, <2>2, <2>4 DEF Tallied
<1> QED BY <1>2, <1>3, <1>4, ZenonT(30)

(* A path starts with nothing tallied. *)
LEMMA NothingTallied ==
    ASSUME samples' = <<>>, fb' = NoFailures
    PROVE  samples' \in Seq(Latencies) /\ Tallied' = 0
BY DEF Tallied, Total, NoFailures

(* The steps of a path up to its report, over OTLP. *)
LEMMA RequestTally ==
    ASSUME IndInv, TallyInv, StartPath \/ Request \/ \E ok \in BOOLEAN : Dial(ok) \/ Connect(ok)
    PROVE  TallyInv'
<1> USE DEF IndInv
<1>1. CASE StartPath
  <2>1. samples' \in Seq(Latencies) /\ Tallied' = 0 /\ i' = 0
    BY <1>1, NothingTallied DEF StartPath
  <2>2. pc' \in {"request", "dial", "connect"}
    BY <1>1, TailQueue, ZenonT(30) DEF StartPath
  <2> QED BY <2>1, <2>2, BenchAssumption DEF TallyInv, Main
<1>2. CASE Request
  <2>1. pc = "request" /\ pc' = pc /\ i < Iters /\ i' = i + 1
    BY <1>2 DEF Request
  <2>2. samples' \in Seq(Latencies) /\ Tallied' = Tallied + 1
    BY <1>2, OneTallied, ZenonT(30) DEF Request
  <2>3. Tallied = i /\ i \in Nat
    BY <2>1, ZenonT(30) DEF TallyInv
  <2> HIDE DEF Tallied
  <2>4. i' \in Nat /\ Tallied' = i' /\ i' <= Iters
    BY <2>1, <2>2, <2>3, BenchAssumption
  <2> QED BY <2>1, <2>2, <2>4 DEF TallyInv, Main
<1>3. ASSUME NEW ok \in BOOLEAN, Dial(ok) PROVE TallyInv'
  <2>1. pc = "dial" /\ pc' \in {"request", "idle"} /\ UNCHANGED <<i, samples, fb>>
    BY <1>3, ZenonT(30) DEF Dial, Report, tally
  <2>2. Tallied' = 0 /\ i = 0 /\ samples' \in Seq(Latencies)
    BY <2>1, ZenonT(30) DEF TallyInv, Tallied
  <2> QED BY <2>1, <2>2, BenchAssumption DEF TallyInv, Main
<1>4. ASSUME NEW ok \in BOOLEAN, Connect(ok) PROVE TallyInv'
  <2>1. /\ pc = "connect" /\ UNCHANGED <<samples, fb>>
        /\ pc' \in {"connect", "idle"} \/ (pc' = "loop" /\ era' = "warm")
        /\ i' \in {0, i + 1}
    BY <1>4, ZenonT(30) DEF Connect, Report, tally
  <2>2. Tallied' = 0 /\ samples' \in Seq(Latencies)
    BY <2>1, ZenonT(30) DEF TallyInv, Tallied
  <2>3. i' \in Nat
    BY <2>1 DEF TallyInv
  <2> QED BY <2>1, <2>2, <2>3 DEF TallyInv, Main
<1> QED BY <1>1, <1>2, <1>3, <1>4, ZenonT(30)

(* Steps that leave the tally alone and the counters growing. *)
LEMMA TallyKept ==
    ASSUME IndInv, TallyInv, UNCHANGED <<samples, fb, i, start, pc, era>>,
           sent' \in Nat, sent <= sent', acked <= acked', acked' \in Nat,
           cycle' # "none" => cycle # "none" \/ i < Rounds
    PROVE  TallyInv'
<1> USE DEF IndInv
<1>1. Tallied' = Tallied
  BY ZenonT(30) DEF Tallied
<1>2. pc = "counters" => Tallied' \in Iters .. Iters + sent'
  <2>1. sent \in Nat
    BY DEF CounterTypes
  <2> HIDE DEF Tallied
  <2> QED BY <1>1, <2>1, BenchAssumption DEF TallyInv
<1>3. Main => start.acked <= acked'
  BY DEF TallyInv, CounterTypes
<1>4. Main' <=> Main
  BY ZenonT(30) DEF Main
<1>5. era = "main" => Rounds = Iters
  BY DEF Rounds
<1> HIDE DEF Main
<1> QED BY <1>1, <1>2, <1>3, <1>4, <1>5, ZenonT(30) DEF TallyInv

(* The steps of runUDP. *)
LEMMA UDPTally ==
    ASSUME IndInv, TallyInv,
           SendOne \/ ChunkStep \/ SendOneDone \/ LoopDone \/ WarmupDrained \/ AckDrained
             \/ CountUnacked
    PROVE  TallyInv'
<1> USE DEF IndInv
<1>0. /\ sent \in Nat /\ acked \in Nat /\ era \in {"warm", "main"} /\ samples \in Seq(Latencies)
      /\ i \in Nat
  BY TallyTypes, ZenonT(30)
<1>1. CASE SendOne
  <2>1. UNCHANGED <<samples, fb, i, start, pc, era, sent, acked>> /\ i < Rounds
    BY <1>1, ZenonT(30) DEF SendOne, BeginCycle, clientVars, benchVars
  <2> QED BY <1>0, <2>1, TallyKept
<1>2. CASE ChunkStep
  <2>1. /\ UNCHANGED <<samples, fb, i, start, pc, era, acked>> /\ sent' \in {sent, sent + 1}
        /\ cycle # "none"
    BY <1>2, ZenonT(30) DEF ChunkStep, ChunkLoop, SendSlice, TooLong, WriteFails, Stall, PassDone,
       MaySend, clientVars, benchVars
  <2> QED BY <1>0, <2>1, TallyKept
<1>3. CASE SendOneDone
  <2>1. /\ pc = "loop" /\ cycle # "none" /\ cycle' = "none" /\ i' = i + 1
        /\ UNCHANGED <<pc, era, start, acked>>
    BY <1>3, ZenonT(30) DEF SendOneDone, clientVars
  <2>2. CASE era = "warm"
    <3>1. UNCHANGED <<samples, fb>>
      BY <1>3, <2>2, ZenonT(30) DEF SendOneDone, tally
    <3>2. Tallied' = 0
      BY <2>1, <2>2, <3>1, ZenonT(30) DEF TallyInv, Tallied
    <3> QED BY <1>0, <2>1, <2>2, <3>1, <3>2 DEF TallyInv, Main
  <2>3. CASE era = "main"
    <3>1. "other" \in DOMAIN NoFailures
      BY ZenonT(30) DEF NoFailures
    <3>2. Sample \/ \E kind \in DOMAIN NoFailures : Count(kind)
      BY <1>3, <2>3, <3>1, ZenonT(30) DEF SendOneDone
    <3>3. samples' \in Seq(Latencies) /\ Tallied' = Tallied + 1
      BY <3>2, OneTallied, ZenonT(30)
    <3>4. i < Iters /\ Tallied = i /\ start.acked <= acked
      BY <2>1, <2>3, ZenonT(30) DEF TallyInv, Main
    <3> HIDE DEF Tallied
    <3>5. i' \in Nat /\ Tallied' = i' /\ i' <= Iters
      BY <1>0, <2>1, <3>3, <3>4, BenchAssumption
    <3> QED BY <2>1, <2>3, <3>3, <3>4, <3>5, ZenonT(30) DEF TallyInv, Main
  <2> QED BY <1>0, <2>2, <2>3
<1>4. CASE LoopDone
  <2>1. /\ pc = "loop" /\ i = Rounds /\ UNCHANGED <<era, samples, fb, i, start, acked>>
        /\ pc' = IF era = "warm" THEN "warmDrain" ELSE "ackDrain"
    BY <1>4, ZenonT(30) DEF LoopDone, sendVars, clientVars, tally
  <2>2. Tallied' = Tallied
    BY <2>1 DEF Tallied
  <2>3. CASE era = "warm"
    BY <1>0, <2>1, <2>2, <2>3, ZenonT(30) DEF TallyInv, Main
  <2>4. CASE era = "main"
    BY <1>0, <2>1, <2>2, <2>4, ZenonT(30) DEF TallyInv, Main, Rounds
  <2> QED BY <1>0, <2>3, <2>4, ZenonT(30)
<1>5. CASE WarmupDrained
  <2>1. /\ pc = "warmDrain" /\ pc' = "loop" /\ era' = "main" /\ i' = 0 /\ start'.acked = acked
        /\ UNCHANGED <<samples, fb, acked, cycle>>
    BY <1>5, ZenonT(30) DEF WarmupDrained, clientVars, loopVars, tally
  <2>2. Tallied' = 0
    BY <2>1, ZenonT(30) DEF TallyInv, Tallied
  <2>3. cycle = "none"
    BY <2>1, ZenonT(30) DEF LossInv
  <2>4. 0 <= Iters
    BY BenchAssumption
  <2> QED BY <1>0, <2>1, <2>2, <2>3, <2>4, BenchAssumption DEF TallyInv, Main
<1>6. CASE AckDrained
  <2>1. /\ pc = "ackDrain" /\ pc' = "count" /\ UNCHANGED <<era, samples, fb, i, start, acked>>
    BY <1>6, ZenonT(30) DEF AckDrained, sendVars, clientVars, tally
  <2>2. Tallied' = Tallied
    BY <2>1 DEF Tallied
  <2> QED BY <1>0, <2>1, <2>2, ZenonT(30) DEF TallyInv, Main
<1>7. CASE CountUnacked
  <2>1. /\ pc = "count" /\ pc' = "counters" /\ UNCHANGED <<samples, i, sent>>
        /\ fb' = IF Unacked > 0 THEN [fb EXCEPT !.timeouts = @ + Unacked] ELSE fb
    BY <1>7, ZenonT(30) DEF CountUnacked, sendVars, clientVars
  <2>2. Tallied = Iters /\ start.acked <= acked
    BY <2>1, ZenonT(30) DEF TallyInv, Main
  <2>3. start.sent \in Nat /\ start.acked \in Nat
    BY DEF CounterTypes
  <2>4. Unacked \in Int /\ Unacked <= sent
    BY <1>0, <2>2, <2>3 DEF Unacked, TotalMainSent
  <2>5. /\ fb.timeouts \in Nat /\ fb.nonOK \in Nat /\ fb.other \in Nat
        /\ DOMAIN fb = {"timeouts", "nonOK", "other"}
    BY ZenonT(30) DEF CounterTypes
  <2> HIDE DEF Unacked
  <2>6. Total(fb') = IF Unacked > 0 THEN Total(fb) + Unacked ELSE Total(fb)
    <3>1. CASE Unacked > 0
      BY <2>1, <2>4, <2>5, <3>1 DEF Total
    <3>2. CASE ~(Unacked > 0)
      BY <2>1, <3>2, ZenonT(30)
    <3> QED BY <3>1, <3>2
  <2>7. Total(fb) \in Nat /\ Len(samples) \in Nat
    BY <1>0, <2>5 DEF Total
  <2> HIDE DEF Total
  <2>8. Tallied' \in Iters .. Iters + sent'
    BY <1>0, <2>1, <2>2, <2>4, <2>6, <2>7, BenchAssumption DEF Tallied
  <2> QED BY <1>0, <2>1, <2>8, ZenonT(30) DEF TallyInv, Main
<1> QED BY <1>1, <1>2, <1>3, <1>4, <1>5, <1>6, <1>7

(* The reports: they leave the loops, and add a result that adds up.       *)
LEMMA ReportTally ==
    ASSUME IndInv, TallyInv, ResultsInv, RequestsDone \/ ReportUDP
    PROVE  TallyInv' /\ ResultsInv'
<1> USE DEF IndInv
<1>1. samples \in Seq(Latencies) /\ i \in Nat
  BY DEF TallyInv
<1>2. TallyInv'
  <2>1. pc' = "idle" /\ UNCHANGED <<samples, i>>
    BY ZenonT(30) DEF RequestsDone, ReportUDP, Report, tally
  <2> QED BY <1>1, <2>1, ZenonT(30) DEF TallyInv, Main
<1>3. CASE RequestsDone
  <2> DEFINE r == SummarizeWithFailures(Head(queue), samples, fb)
  <2>1. results' = Append(results, r) /\ Tallied = Iters
    BY <1>3, ZenonT(30) DEF RequestsDone, Report, TallyInv
  <2>2. r.attempted = Tallied /\ r.status \notin {"FAIL_DIAL", "FAIL_HANDSHAKE"}
    BY Summarized, SMT DEF Tallied
  <2>3. r.udp = NoCounters
    BY Summarized, SMT
  <2> HIDE DEF r
  <2>4. AttemptsOf(r)
    <3>1. r.udp.sent = 0
      BY <2>3 DEF NoCounters
    <3> HIDE DEF Tallied
    <3> QED BY <2>1, <2>2, <3>1, BenchAssumption DEF AttemptsOf
  <2> QED BY <2>1, <2>4, Reported, <1>2, ZenonT(30)
<1>4. CASE ReportUDP
  <2> DEFINE q == SummarizeWithFailures("udp", samples, fb)
             r == [q EXCEPT !.udp = [sent |-> sent, acked |-> acked, dropped |-> dropped]]
  <2>1. results' = Append(results, r) /\ Tallied \in Iters .. Iters + sent
    BY <1>4, ZenonT(30) DEF ReportUDP, Report, TallyInv
  <2>2. /\ q.attempted = Tallied /\ q.path = "udp"
        /\ q.status \notin {"FAIL_DIAL", "FAIL_HANDSHAKE"}
    BY Summarized, SMT DEF Tallied
  <2>3. DOMAIN q = {"path", "status", "n", "attempted", "fb", "p50", "p99", "samples", "udp"}
    BY DEF SummarizeWithFailures, Summarize, PathResult
  <2> HIDE DEF q
  <2>4. /\ r.attempted = q.attempted /\ r.path = q.path /\ r.status = q.status
        /\ r.udp.sent = sent
    BY <2>3
  <2> HIDE DEF r
  <2>5. AttemptsOf(r)
    BY <2>1, <2>2, <2>4, ZenonT(30) DEF AttemptsOf
  <2> QED BY <2>1, <2>5, Reported, <1>2, ZenonT(30)
<1> QED BY <1>3, <1>4, ZenonT(30)

(* The failed paths, and the steps without a result. *)
LEMMA ResultsInd ==
    ASSUME ResultsInv,
           \/ UNCHANGED results \/ results' = <<>>
           \/ \E ok \in BOOLEAN : Dial(ok) \/ Connect(ok)
    PROVE  ResultsInv'
<1>1. CASE UNCHANGED results
  BY <1>1, ZenonT(30) DEF ResultsInv, AttemptsAccounted
<1>2. CASE results' = <<>>
  BY <1>2 DEF ResultsInv, AttemptsAccounted
<1>3. ASSUME NEW path, NEW status \in {"FAIL_DIAL", "FAIL_HANDSHAKE"},
             results' = Append(results, PathResult(path, status))
      PROVE  ResultsInv'
  <2> DEFINE r == PathResult(path, status)
  <2>1. r.attempted = 0 /\ r.status = status /\ results' = Append(results, r)
    BY <1>3, ZenonT(30) DEF PathResult
  <2> HIDE DEF r
  <2>2. AttemptsOf(r)
    BY <2>1, ZenonT(30) DEF AttemptsOf
  <2> QED BY <2>1, <2>2, Reported, ZenonT(30)
<1>4. (\E ok \in BOOLEAN : Dial(ok) \/ Connect(ok))
        => \/ UNCHANGED results
           \/ results' = Append(results, PathResult("grpc", "FAIL_DIAL"))
           \/ results' = Append(results, PathResult("udp", "FAIL_HANDSHAKE"))
  BY ZenonT(30) DEF Dial, Connect, Report
<1> QED BY <1>1, <1>2, <1>3, <1>4, ZenonT(30)

(* Every measured iteration is in the report exactly once, for any number  *)
(* of iterations and paths, however late the ACKs come.                    *)
THEOREM EveryAttemptAccounted == Spec => []AttemptsAccounted
<1> DEFINE Inv == TallyInv /\ ResultsInv
<1>1. MergeInit => Inv
  <2> SUFFICES ASSUME MergeInit PROVE Inv
    OBVIOUS
  <2>1. pc = "idle" /\ i = 0 /\ samples = <<>> /\ results = <<>>
    BY ZenonT(30) DEF MergeInit, Init
  <2>2. TallyInv
    BY <2>1 DEF TallyInv, Main
  <2>3. ResultsInv
    BY <2>1 DEF ResultsInv, AttemptsAccounted
  <2> QED BY <2>2, <2>3, ZenonT(30)
<1>2. ASSUME IndInv, Inv, [Next]_allVars PROVE Inv'
  <2>1. CASE StartPath \/ Request \/ \E ok \in BOOLEAN : Dial(ok) \/ Connect(ok)
    <3>1. UNCHANGED results \/ \E ok \in BOOLEAN : Dial(ok) \/ Connect(ok)
      BY <2>1, ZenonT(30) DEF StartPath, Request
    <3> QED BY <1>2, <2>1, <3>1, RequestTally, ResultsInd, ZenonT(30)
  <2>2. CASE SendOne \/ ChunkStep \/ SendOneDone \/ LoopDone \/ WarmupDrained \/ AckDrained
               \/ CountUnacked
    <3>1. UNCHANGED results
      BY <2>2, ZenonT(30) DEF SendOne, ChunkStep, SendOneDone, LoopDone, WarmupDrained, AckDrained,
         CountUnacked, benchVars
    <3> QED BY <1>2, <2>2, <3>1, UDPTally, ResultsInd, ZenonT(30)
  <2>3. CASE RequestsDone \/ ReportUDP
    BY <1>2, <2>3, ReportTally, ZenonT(30)
  <2>4. CASE ClientLoops /\ UNCHANGED benchVars
    <3>1. UNCHANGED <<samples, fb, i, start, pc, era, sent, cycle, results>>
          /\ acked' \in {acked, acked + 1}
      BY <2>4, ZenonT(30) DEF ClientLoops, ProcessACK, GiveUp, benchVars, loopVars
    <3>2. sent' \in Nat /\ sent <= sent' /\ acked <= acked' /\ acked' \in Nat
      BY <1>2, <3>1 DEF IndInv, CounterTypes
    <3> QED BY <1>2, <3>1, <3>2, TallyKept, ResultsInd, ZenonT(30)
  <2>5. ASSUME NEW keep \in BOOLEAN, WriteChunk(keep) PROVE Inv'
    <3>1. pc' = "end" /\ i' = 0 /\ samples' = <<>> /\ results' = <<>>
      BY <2>5, ZenonT(30) DEF WriteChunk
    <3>2. TallyInv'
      BY <3>1 DEF TallyInv, Main
    <3> QED BY <1>2, <3>1, <3>2, ResultsInd, ZenonT(30)
  <2>6. CASE MergeAny \/ UNCHANGED allVars
    <3>1. UNCHANGED <<samples, fb, i, start, pc, era, sent, acked, cycle, results>>
      BY <2>6, ZenonT(30) DEF MergeAny, Merge, allVars, vars, sendVars, loopVars, clientVars, benchVars
    <3>2. sent' \in Nat /\ sent <= sent' /\ acked <= acked' /\ acked' \in Nat
      BY <1>2, <3>1 DEF IndInv, CounterTypes
    <3> QED BY <1>2, <3>1, <3>2, TallyKept, ResultsInd, ZenonT(30)
  <2> QED
    BY <1>2, <2>1, <2>2, <2>3, <2>4, <2>5, <2>6, ZenonT(30) DEF Next, BenchNext, Bencher
<1>3. Inv => AttemptsAccounted
  BY DEF ResultsInv
<1> QED BY <1>1, <1>2, <1>3, Invariance, PTL DEF Spec

-----------------------------------------------------------------------------
(* Runs and files: the invariants RunInv and FilesInv.                     *)

(* Whatever paths are enabled, each is run once. *)
LEMMA DistinctPaths ==
    ASSUME NEW ps PROVE Enabled(ps) \in Seq(Paths) /\ Distinct(Enabled(ps))
<1> DEFINE h == If("http" \in ps, <<"http">>)
           g == If("grpc" \in ps, <<"grpc">>)
           u == If("udp" \in ps, <<"udp">>)
<1>1. ASSUME NEW x, NEW b PROVE If(b, <<x>>) \in Seq({x}) /\ Distinct(If(b, <<x>>))
  BY DEF If, Distinct
<1>2. h \in Seq({"http"}) /\ Distinct(h) /\ g \in Seq({"grpc"}) /\ Distinct(g)
      /\ u \in Seq({"udp"}) /\ Distinct(u)
  BY <1>1, ZenonT(30)
<1>3. Enabled(ps) = (h \o g) \o u
  BY ZenonT(30) DEF Enabled
<1> HIDE DEF h, g, u
<1>4. {"http"} \cap {"grpc"} = {} /\ ({"http"} \cup {"grpc"}) \cap {"udp"} = {}
      /\ ({"http"} \cup {"grpc"}) \cup {"udp"} = Paths
  BY ZenonT(30) DEF Paths
<1>5. h \o g \in Seq({"http"} \cup {"grpc"}) /\ Distinct(h \o g)
  BY <1>2, <1>4, DistinctConcat, ZenonT(30)
<1>6. (h \o g) \o u \in Seq(({"http"} \cup {"grpc"}) \cup {"udp"}) /\ Distinct((h \o g) \o u)
  BY <1>2, <1>4, <1>5, DistinctConcat, ZenonT(30)
<1> QED BY <1>3, <1>4, <1>6, ZenonT(30)


RunTypes ==
    /\ samples \in Seq(Int) /\ fb \in Failures
    /\ sent \in Nat /\ acked \in Nat /\ dropped \in Nat
    /\ start \in [sent : Nat, acked : Nat]
Phases ==
    /\ pc \in {"request", "dial"} \cup UDPPhases => queue # <<>>
    /\ pc = "dial" => Head(queue) = "grpc"
    /\ pc \in UDPPhases => Head(queue) = "udp"

(* RunInv in three parts: types, phases and agenda. *)
LEMMA RunParts == RunInv <=> RunTypes /\ Phases /\ Agenda(queue, results)
  BY ZenonT(30) DEF RunInv, RunTypes, Phases, Agenda, Distinct, Paths, Failures

(* The same of the next state. *)
LEMMA RunPartsNext == RunInv' <=> RunTypes' /\ Phases' /\ Agenda(queue', results')
  BY ZenonT(30) DEF RunInv, RunTypes, Phases, Agenda, Distinct, Paths, Failures

(* One more failure, one more sample, or none. *)
LEMMA TallyTyped ==
    ASSUME RunTypes,
           \/ Sample \/ (\E kind \in DOMAIN NoFailures : Count(kind)) \/ UNCHANGED tally
    PROVE  samples' \in Seq(Int) /\ fb' \in Failures
<1>1. samples \in Seq(Int) /\ fb \in Failures
  BY ZenonT(30) DEF RunTypes
<1>2. CASE Sample
  <2>1. PICK l \in Latencies : samples' = Append(samples, l) /\ fb' = fb
    BY <1>2, ZenonT(30) DEF Sample
  <2>2. l \in Int
    BY BenchMergeAssumption, ZenonT(30)
  <2> QED BY <1>1, <2>1, <2>2
<1>3. CASE \E kind \in DOMAIN NoFailures : Count(kind)
  <2>1. PICK kind \in {"timeouts", "nonOK", "other"} :
           fb' = [fb EXCEPT ![kind] = @ + 1] /\ samples' = samples
    BY <1>3, ZenonT(30) DEF Count, NoFailures
  <2>2. CASE kind = "timeouts"
    <3>1. fb' = [fb EXCEPT !["timeouts"] = @ + 1] /\ samples' = samples
      BY <2>1, <2>2
    <3> QED BY <1>1, <3>1 DEF Failures
  <2>3. CASE kind = "nonOK"
    BY <1>1, <2>1, <2>3 DEF Failures
  <2>4. CASE kind = "other"
    BY <1>1, <2>1, <2>4 DEF Failures
  <2> QED BY <2>1, <2>2, <2>3, <2>4
<1>4. CASE UNCHANGED tally
  BY <1>1, <1>4, ZenonT(30) DEF tally
<1> QED BY <1>2, <1>3, <1>4

(* The counters of the client only grow. *)
LEMMA ClientTyped ==
    ASSUME RunTypes, ChunkLoop \/ ClientLoops
    PROVE  sent' \in Nat /\ acked' \in Nat /\ dropped' \in Nat
<1>1. sent \in Nat /\ acked \in Nat /\ dropped \in Nat
  BY ZenonT(30) DEF RunTypes
<1>2. CASE SendSlice
  BY <1>1, <1>2 DEF SendSlice
<1>3. CASE TooLong
  BY <1>1, <1>3 DEF TooLong
<1>4. CASE WriteFails
  BY <1>1, <1>4 DEF WriteFails
<1>5. CASE Stall \/ PassDone
  BY <1>1, <1>5, ZenonT(30) DEF Stall, PassDone, clientVars
<1>6. CASE ClientLoops
  <2>1. PICK e \in Eras : ProcessACK(e) \/ GiveUp(e)
    BY <1>6, ZenonT(30) DEF ClientLoops
  <2>2. CASE ProcessACK(e)
    BY <1>1, <2>2 DEF ProcessACK
  <2>3. CASE GiveUp(e)
    BY <1>1, <2>3 DEF GiveUp
  <2> QED BY <2>1, <2>2, <2>3
<1> QED BY <1>2, <1>3, <1>4, <1>5, <1>6, ZenonT(30) DEF ChunkLoop

(* A path at its end. *)
LEMMA PathEnds ==
    ASSUME RunTypes, Agenda(queue, results), queue # <<>>, UNCHANGED <<tally, start>>,
           UNCHANGED <<sent, acked, dropped>>,
           NEW r \in Reports, ReportOK(r), r.path = Head(queue), Report(r), queue' = Tail(queue)
    PROVE  RunTypes' /\ Phases' /\ Agenda(queue', results')
<1>1. results' = Append(results, r) /\ pc' = "idle"
  BY ZenonT(30) DEF Report
<1>2. Agenda(queue', results')
  <2>1. Agenda(Tail(queue), Append(results, r))
    BY ResultAdded, ZenonT(30)
  <2> QED BY <1>1, <2>1, ZenonT(30)
<1>3. RunTypes'
  BY ZenonT(30) DEF RunTypes, tally
<1>4. Phases'
  BY <1>1, ZenonT(30) DEF Phases, UDPPhases
<1> QED BY <1>2, <1>3, <1>4

(* Every step of a run keeps the three parts. *)
LEMMA RunStep ==
    ASSUME RunTypes, Phases, Agenda(queue, results), BenchNext
    PROVE  RunTypes' /\ Phases' /\ Agenda(queue', results')
<1>0. /\ samples \in Seq(Int) /\ fb \in Failures
      /\ sent \in Nat /\ acked \in Nat /\ dropped \in Nat
      /\ start \in [sent : Nat, acked : Nat]
  BY ZenonT(30) DEF RunTypes
<1>1. CASE StartPath
  <2>1. queue # <<>> /\ queue' = queue /\ results' = results
        /\ samples' = <<>> /\ fb' = NoFailures
    BY <1>1, ZenonT(30) DEF StartPath
  <2>2. UNCHANGED <<sent, acked, dropped, start>>
    BY <1>1, ZenonT(30) DEF StartPath, sendVars, clientVars
  <2>3. Head(queue) \in {"http", "grpc", "udp"}
    <3>1. queue \in Seq(Paths)
      BY ZenonT(30) DEF Agenda
    <3> QED BY <2>1, <3>1 DEF Paths
  <2>4. \/ Head(queue) = "http" /\ pc' = "request"
        \/ Head(queue) = "grpc" /\ pc' = "dial"
        \/ Head(queue) = "udp" /\ pc' = "connect"
    BY <1>1, <2>3 DEF StartPath
  <2>5. Phases'
    BY <2>1, <2>4, ZenonT(30) DEF Phases, UDPPhases
  <2>6. RunTypes'
    BY <1>0, <2>1, <2>2, NothingCounted, NoSamples, ZenonT(30) DEF RunTypes
  <2> QED BY <2>1, <2>5, <2>6, ZenonT(30)
<1>2. ASSUME NEW ok \in BOOLEAN, Dial(ok) PROVE RunTypes' /\ Phases' /\ Agenda(queue', results')
  <2>1. pc = "dial" /\ UNCHANGED <<sent, acked, dropped>> /\ UNCHANGED <<tally, start>>
    BY <1>2, ZenonT(30) DEF Dial, sendVars, clientVars
  <2>2. queue # <<>> /\ Head(queue) = "grpc"
    BY <2>1, ZenonT(30) DEF Phases
  <2>3. CASE ok
    <3>1. pc' = "request" /\ queue' = queue /\ results' = results
      BY <1>2, <2>3, ZenonT(30) DEF Dial
    <3>2. Phases'
      BY <2>2, <3>1, ZenonT(30) DEF Phases, UDPPhases
    <3>3. RunTypes'
      BY <1>0, <2>1, ZenonT(30) DEF RunTypes, tally
    <3> QED BY <3>1, <3>2, <3>3, ZenonT(30)
  <2>4. CASE ~ok
    <3> DEFINE r == PathResult("grpc", "FAIL_DIAL")
    <3>1. Report(r) /\ queue' = Tail(queue)
      BY <1>2, <2>4, ZenonT(30) DEF Dial
    <3>2. "grpc" \in Paths /\ "FAIL_DIAL" \in {"FAIL_DIAL", "FAIL_HANDSHAKE"}
      BY ZenonT(30) DEF Paths
    <3>3. r \in Reports /\ ReportOK(r) /\ r.path = "grpc"
      BY <3>2, BlankResult, ZenonT(30)
    <3> HIDE DEF r
    <3> QED BY <2>1, <2>2, <3>1, <3>3, PathEnds, ZenonT(30)
  <2> QED BY <2>3, <2>4
<1>3. ASSUME NEW ok \in BOOLEAN, Connect(ok) PROVE RunTypes' /\ Phases' /\ Agenda(queue', results')
  <2>1. pc = "connect" /\ UNCHANGED <<sent, acked, dropped>> /\ UNCHANGED <<tally, start>>
    BY <1>3, ZenonT(30) DEF Connect, clientVars
  <2>2. queue # <<>> /\ Head(queue) = "udp"
    BY <2>1, ZenonT(30) DEF Phases, UDPPhases
  <2>3. \/ pc' \in {"loop", "connect"} /\ queue' = queue /\ results' = results
        \/ Report(PathResult("udp", "FAIL_HANDSHAKE")) /\ queue' = Tail(queue)
    BY <1>3, <2>1, ZenonT(30) DEF Connect
  <2>4. CASE pc' \in {"loop", "connect"} /\ queue' = queue /\ results' = results
    <3>1. Phases'
      BY <2>2, <2>4, ZenonT(30) DEF Phases, UDPPhases
    <3>2. RunTypes'
      BY <1>0, <2>1, ZenonT(30) DEF RunTypes, tally
    <3> QED BY <2>4, <3>1, <3>2, ZenonT(30)
  <2>5. CASE Report(PathResult("udp", "FAIL_HANDSHAKE")) /\ queue' = Tail(queue)
    <3> DEFINE r == PathResult("udp", "FAIL_HANDSHAKE")
    <3>1. Report(r) /\ queue' = Tail(queue)
      BY <2>5, ZenonT(30)
    <3>2. "udp" \in Paths /\ "FAIL_HANDSHAKE" \in {"FAIL_DIAL", "FAIL_HANDSHAKE"}
      BY ZenonT(30) DEF Paths
    <3>3. r \in Reports /\ ReportOK(r) /\ r.path = "udp"
      BY <3>2, BlankResult, ZenonT(30)
    <3> HIDE DEF r
    <3> QED BY <2>1, <2>2, <3>1, <3>3, PathEnds, ZenonT(30)
  <2> QED BY <2>3, <2>4, <2>5
<1>4. CASE Request
  <2>1. /\ Sample \/ (\E kind \in DOMAIN NoFailures : Count(kind)) \/ UNCHANGED tally
        /\ UNCHANGED <<sent, acked, dropped, start>> /\ UNCHANGED <<pc, queue, results>>
    BY <1>4, ZenonT(30) DEF Request, sendVars, clientVars
  <2>2. RunTypes'
    BY <1>0, <2>1, TallyTyped, ZenonT(30) DEF RunTypes
  <2> QED BY <2>1, <2>2, ZenonT(30) DEF Phases
<1>5. CASE RequestsDone
  <2> DEFINE r == SummarizeWithFailures(Head(queue), samples, fb)
  <2>1. /\ pc = "request" /\ Report(r) /\ queue' = Tail(queue)
        /\ UNCHANGED <<sent, acked, dropped>> /\ UNCHANGED <<tally, start>>
    BY <1>5, ZenonT(30) DEF RequestsDone, sendVars, clientVars
  <2>2. queue # <<>> /\ queue \in Seq(Paths)
    BY <2>1, ZenonT(30) DEF Phases, Agenda
  <2>3. Head(queue) \in Paths
    BY <2>2
  <2>4. r \in Reports /\ ReportOK(r) /\ r.path = Head(queue)
    <3>1. samples \in Seq(Int) /\ fb \in Failures
      BY <1>0, ZenonT(30)
    <3> QED BY <2>3, <3>1, Summary
  <2> HIDE DEF r
  <2> QED BY <2>1, <2>2, <2>4, PathEnds, ZenonT(30)
<1>6. CASE SendOne \/ ChunkStep \/ (ClientLoops /\ UNCHANGED benchVars)
  <2>1. sent' \in Nat /\ acked' \in Nat /\ dropped' \in Nat
    <3>1. CASE SendOne
      BY <1>0, <3>1, ZenonT(30) DEF SendOne, BeginCycle, clientVars
    <3>2. CASE ChunkStep \/ (ClientLoops /\ UNCHANGED benchVars)
      BY <3>2, ClientTyped, ZenonT(30) DEF ChunkStep
    <3> QED BY <1>6, <3>1, <3>2
  <2>2. UNCHANGED <<pc, queue, results>> /\ UNCHANGED <<samples, fb, start>>
    BY <1>6, ZenonT(30) DEF SendOne, ChunkStep, benchVars
  <2>3. RunTypes'
    BY <1>0, <2>1, <2>2, ZenonT(30) DEF RunTypes
  <2> QED BY <2>2, <2>3, ZenonT(30) DEF Phases
<1>7. CASE SendOneDone
  <2>1. UNCHANGED <<pc, queue, results>> /\ UNCHANGED <<sent, acked, dropped, start>>
    BY <1>7, ZenonT(30) DEF SendOneDone, clientVars
  <2>2. Sample \/ (\E kind \in DOMAIN NoFailures : Count(kind)) \/ UNCHANGED tally
    <3>1. "other" \in DOMAIN NoFailures
      BY ZenonT(30) DEF NoFailures
    <3>2. Sample \/ Count("other") \/ UNCHANGED tally
      BY <1>7, ZenonT(30) DEF SendOneDone
    <3> QED BY <3>1, <3>2, ZenonT(30)
  <2>3. RunTypes'
    BY <1>0, <2>1, <2>2, TallyTyped, ZenonT(30) DEF RunTypes
  <2> QED BY <2>1, <2>3, ZenonT(30) DEF Phases
<1>8. CASE LoopDone \/ AckDrained
  <2>1. /\ pc \in {"loop", "ackDrain"} /\ pc' \in {"warmDrain", "ackDrain", "count"}
        /\ UNCHANGED <<queue, results>> /\ UNCHANGED <<sent, acked, dropped, start>>
        /\ UNCHANGED tally
    BY <1>8, ZenonT(30) DEF LoopDone, AckDrained, sendVars, clientVars
  <2>2. Phases'
    BY <2>1, ZenonT(30) DEF Phases, UDPPhases
  <2>3. RunTypes'
    BY <1>0, <2>1, ZenonT(30) DEF RunTypes, tally
  <2> QED BY <2>1, <2>2, <2>3, ZenonT(30)
<1>9. CASE WarmupDrained
  <2>1. /\ pc = "warmDrain" /\ pc' = "loop" /\ start' = [sent |-> sent, acked |-> acked]
        /\ UNCHANGED <<queue, results>> /\ UNCHANGED <<sent, acked, dropped>>
        /\ UNCHANGED tally
    BY <1>9, ZenonT(30) DEF WarmupDrained, clientVars
  <2>2. Phases'
    BY <2>1, ZenonT(30) DEF Phases, UDPPhases
  <2>3. start' \in [sent : Nat, acked : Nat]
    BY <1>0, <2>1
  <2>4. RunTypes'
    BY <1>0, <2>1, <2>3, ZenonT(30) DEF RunTypes, tally
  <2> QED BY <2>1, <2>2, <2>4, ZenonT(30)
<1>10. CASE CountUnacked
  <2>1. /\ pc = "count" /\ pc' = "counters"
        /\ UNCHANGED <<queue, results>> /\ UNCHANGED <<sent, acked, dropped, start, samples>>
        /\ fb' = IF Unacked > 0 THEN [fb EXCEPT !.timeouts = @ + Unacked] ELSE fb
    BY <1>10, ZenonT(30) DEF CountUnacked, sendVars, clientVars
  <2>2. Phases'
    BY <2>1, ZenonT(30) DEF Phases, UDPPhases
  <2>3. Unacked \in Int
    BY <1>0 DEF Unacked, TotalMainSent
  <2>4. fb' \in Failures
    <3>1. CASE Unacked > 0
      <4> DEFINE n == fb.timeouts + Unacked
      <4>1. fb \in Failures
        BY <1>0, ZenonT(30)
      <4>2. n \in Nat
        BY <2>3, <3>1, <4>1 DEF Failures
      <4>3. fb' = [fb EXCEPT !.timeouts = n]
        BY <2>1, <3>1, <4>1 DEF Failures
      <4> HIDE DEF n
      <4> QED BY <4>1, <4>2, <4>3 DEF Failures
    <3>2. CASE ~(Unacked > 0)
      BY <1>0, <2>1, <3>2, ZenonT(30)
    <3> QED BY <3>1, <3>2
  <2>5. RunTypes'
    BY <1>0, <2>1, <2>4, ZenonT(30) DEF RunTypes
  <2> QED BY <2>1, <2>2, <2>5, ZenonT(30)
<1>11. CASE ReportUDP
  <2> DEFINE u == [sent |-> sent, acked |-> acked, dropped |-> dropped]
             r == [SummarizeWithFailures("udp", samples, fb) EXCEPT !.udp = u]
  <2>1. /\ pc = "counters" /\ Report(r) /\ queue' = Tail(queue)
        /\ UNCHANGED <<sent, acked, dropped>> /\ UNCHANGED <<tally, start>>
    BY <1>11, ZenonT(30) DEF ReportUDP
  <2>2. queue # <<>> /\ Head(queue) = "udp"
    BY <2>1, ZenonT(30) DEF Phases, UDPPhases
  <2>3. u \in Counters
    BY <1>0 DEF Counters
  <2> HIDE DEF u
  <2>4. r \in Reports /\ ReportOK(r) /\ r.path = "udp"
    BY <1>0, <2>3, UDPResult, ZenonT(30)
  <2> HIDE DEF r
  <2> QED BY <2>1, <2>2, <2>4, PathEnds, ZenonT(30)
<1> QED
  BY <1>1, <1>2, <1>3, <1>4, <1>5, <1>6, <1>7, <1>8, <1>9, <1>10, <1>11, ZenonT(30)
     DEF BenchNext, Bencher


(* FilesInv says the same of every file and the runs behind it. *)
LEMMA FilesByOne == FilesInv <=> FilesOK(files, base)
<1>1. ASSUME files \in Seq(Chunks), base \in Seq(Seq(Chunks)), Len(files) = Len(base),
             NEW f \in DOMAIN files
      PROVE  /\ files[f] \in Chunks /\ base[f] \in Seq(Chunks) /\ files[f].results \in Seq(Reports)
             /\ AllResults(base[f]) \in Seq(Reports)
  <2>1. files[f] \in Chunks /\ base[f] \in Seq(Chunks)
    BY <1>1
  <2> QED BY <2>1, ChunkTypes, AllTypes, ZenonT(30)
<1>2. ASSUME FilesInv PROVE FilesOK(files, base)
  <2>1. files \in Seq(Chunks) /\ base \in Seq(Seq(Chunks)) /\ Len(files) = Len(base)
    BY <1>2, ZenonT(30) DEF FilesInv
  <2>2. ASSUME NEW f \in DOMAIN files PROVE Filed(files[f], base[f])
    <3> DEFINE c == files[f]
               b == base[f]
    <3>1. /\ c \in Chunks /\ b \in Seq(Chunks) /\ c.results \in Seq(Reports)
          /\ AllResults(b) \in Seq(Reports)
      BY <1>1, <2>1, ZenonT(30)
    <3>2. ReportsOK(c.results)
      BY <1>2, ZenonT(30) DEF FilesInv
    <3>3. \A k \in DOMAIN b : b[k].setting = c.setting
      BY <1>2, ZenonT(30) DEF FilesInv, MergedTotals
    <3>4. /\ PathsOf(c) = UNION {PathsOf(b[k]) : k \in DOMAIN b}
          /\ \A k \in DOMAIN c.results : Unmasked(c.results[k], AllResults(b))
      BY <1>2, ZenonT(30) DEF FilesInv, NothingMasked, Unmasked
    <3> HIDE DEF c, b
    <3>5. PathSet(c.results) = PathSet(AllResults(b))
      BY <3>1, <3>4, PathsIn, ZenonT(30)
    <3>6. \A r \in Range(c.results) : ReportOK(r) /\ Unmasked(r, AllResults(b))
      <4> SUFFICES ASSUME NEW r \in Range(c.results) PROVE ReportOK(r) /\ Unmasked(r, AllResults(b))
        BY ZenonT(30)
      <4>1. PICK k \in DOMAIN c.results : r = c.results[k]
        BY InRange, ZenonT(30)
      <4>2. ReportOK(c.results[k])
        BY <3>2, ZenonT(30) DEF ReportsOK
      <4> QED BY <3>4, <4>1, <4>2, ZenonT(30)
    <3>7. Stands(c.results, AllResults(b))
      BY <3>1, <3>5, <3>6, ZenonT(30) DEF Stands
    <3>8. Filed(c, b)
      BY <3>1, <3>2, <3>3, <3>7, ZenonT(30) DEF Filed
    <3> QED BY <3>8, ZenonT(30) DEF c, b
  <2>3. ASSUME NEW f \in DOMAIN files, \A g \in DOMAIN files \ {f} : Whole(files[g])
        PROVE  Account(files[f], base[f])
    BY <1>2, <2>3, ZenonT(30) DEF FilesInv, MergedTotals, Kept, Whole, Account
  <2> QED BY <2>1, <2>2, <2>3, ZenonT(30) DEF FilesOK
<1>3. ASSUME FilesOK(files, base) PROVE FilesInv
  <2>1. files \in Seq(Chunks) /\ base \in Seq(Seq(Chunks)) /\ Len(files) = Len(base)
    BY <1>3, ZenonT(30) DEF FilesOK
  <2>2. \A f \in DOMAIN files : ReportsOK(files[f].results)
    BY <1>3, ZenonT(30) DEF FilesOK, Filed
  <2>3. MergedTotals
    <3>1. \A f \in DOMAIN files : \A k \in DOMAIN base[f] : base[f][k].setting = files[f].setting
      BY <1>3, ZenonT(30) DEF FilesOK, Filed
    <3>2. ASSUME NEW f \in DOMAIN files, \A g \in DOMAIN files \ {f} : Kept(g)
          PROVE  \A k \in DOMAIN files[f].results : TotalsOf(files[f].results[k], AllResults(base[f]))
      BY <1>3, <3>2, ZenonT(30) DEF FilesOK, Kept, Whole, Account
    <3> QED BY <3>1, <3>2, ZenonT(30) DEF MergedTotals
  <2>4. NothingMasked
    <3>1. ASSUME NEW f \in DOMAIN files
          PROVE  /\ PathsOf(files[f]) = UNION {PathsOf(base[f][k]) : k \in DOMAIN base[f]}
                 /\ \A k \in DOMAIN files[f].results :
                       Unmasked(files[f].results[k], AllResults(base[f]))
      <4> DEFINE c == files[f]
                 b == base[f]
      <4>1. b \in Seq(Chunks)
        BY <1>1, <2>1, ZenonT(30)
      <4>2. Stands(c.results, AllResults(b))
        BY <1>3, ZenonT(30) DEF FilesOK, Filed
      <4> HIDE DEF c, b
      <4>3. PathSet(c.results) = PathSet(AllResults(b)) /\ \A r \in Range(c.results) : Unmasked(r, AllResults(b))
        BY <4>2, ZenonT(30) DEF Stands
      <4>4. PathsOf(c) = UNION {PathsOf(b[k]) : k \in DOMAIN b}
        BY <4>1, <4>3, PathsIn, ZenonT(30)
      <4>5. \A k \in DOMAIN c.results : Unmasked(c.results[k], AllResults(b))
        BY <4>3, InRange, ZenonT(30)
      <4> QED BY <4>4, <4>5, ZenonT(30) DEF c, b
    <3> QED BY <3>1, ZenonT(30) DEF NothingMasked, Unmasked
  <2> QED BY <2>1, <2>2, <2>3, <2>4, ZenonT(30) DEF FilesInv
<1> QED BY <1>2, <1>3

(* Before the first path ends there are no results and no files. *)
LEMMA CampaignInit == MergeInit => RunInv /\ FilesInv
<1> SUFFICES ASSUME MergeInit PROVE RunInv /\ FilesInv
  BY ZenonT(30)
<1>1. /\ FreshClient /\ pc = "idle" /\ samples = <<>> /\ fb = NoFailures
      /\ start = [sent |-> 0, acked |-> 0] /\ results = <<>> /\ files = <<>> /\ base = <<>>
  BY ZenonT(30) DEF MergeInit, Init
<1>2. PICK ps \in PathSets : queue = Enabled(ps)
  BY ZenonT(30) DEF MergeInit, Init
<1>3. RunTypes
  <2>1. sent \in Nat /\ acked \in Nat /\ dropped \in Nat /\ start \in [sent : Nat, acked : Nat]
    BY <1>1 DEF FreshClient
  <2> QED BY <1>1, <2>1, NothingCounted, NoSamples, ZenonT(30) DEF RunTypes
<1>4. Phases
  BY <1>1, ZenonT(30) DEF Phases, UDPPhases
<1>5. ASSUME NEW X PROVE <<>> \in Seq(X) /\ DOMAIN <<>> = {} /\ Len(<<>>) = 0
  OBVIOUS
<1>6. Agenda(queue, results)
  <2>1. queue \in Seq(Paths) /\ Distinct(queue)
    BY <1>2, DistinctPaths, ZenonT(30)
  <2>2. results \in Seq(Reports) /\ DOMAIN results = {}
    BY <1>1, <1>5, ZenonT(30)
  <2> QED BY <2>1, <2>2, ZenonT(30) DEF Agenda, ReportsOK
<1>7. FilesOK(files, base)
  <2>1. files \in Seq(Chunks) /\ base \in Seq(Seq(Chunks)) /\ Len(files) = Len(base)
        /\ DOMAIN files = {}
    BY <1>1, <1>5, ZenonT(30)
  <2> QED BY <2>1, ZenonT(30) DEF FilesOK
<1> QED BY <1>3, <1>4, <1>6, <1>7, RunParts, FilesByOne, ZenonT(30)

(* Runs, files and merges keep RunInv. *)
LEMMA RunKept ==
    ASSUME RunInv, [Next]_allVars PROVE RunInv'
<1>1. RunTypes /\ Phases /\ Agenda(queue, results)
  BY RunParts, ZenonT(30)
<1>2. CASE BenchNext
  BY <1>1, <1>2, RunStep, RunPartsNext, ZenonT(30)
<1>3. ASSUME NEW keep \in BOOLEAN, WriteChunk(keep) PROVE RunInv'
  <2>1. /\ pc' = "end" /\ results' = <<>> /\ queue' = queue /\ queue = <<>>
        /\ samples' = <<>> /\ fb' = NoFailures /\ start' = [sent |-> 0, acked |-> 0]
        /\ sent' = 0 /\ acked' = 0 /\ dropped' = 0
    BY <1>3, ZenonT(30) DEF WriteChunk
  <2>2. RunTypes'
    <3>1. sent' \in Nat /\ acked' \in Nat /\ dropped' \in Nat /\ start' \in [sent : Nat, acked : Nat]
      BY <2>1
    <3> QED BY <2>1, <3>1, NothingCounted, NoSamples, ZenonT(30) DEF RunTypes
  <2>3. Phases'
    BY <2>1, ZenonT(30) DEF Phases, UDPPhases
  <2>4. Agenda(queue', results')
    <3>1. <<>> \in Seq(Reports) /\ DOMAIN <<>> = {}
      OBVIOUS
    <3>2. queue' \in Seq(Paths) /\ Distinct(queue')
      BY <1>1, <2>1, ZenonT(30) DEF Agenda
    <3>3. results' \in Seq(Reports) /\ DOMAIN results' = {}
      BY <2>1, <3>1, ZenonT(30)
    <3> QED BY <3>2, <3>3, ZenonT(30) DEF Agenda, ReportsOK
  <2> QED BY <2>2, <2>3, <2>4, RunPartsNext, ZenonT(30)
<1>4. CASE UNCHANGED vars
  <2>1. UNCHANGED <<samples, fb, sent, acked, dropped>> /\ UNCHANGED <<start, queue, pc, results>>
    BY <1>4, ZenonT(30) DEF vars, sendVars, clientVars, benchVars
  <2>2. RunTypes' /\ Phases'
    BY <1>1, <2>1, ZenonT(30) DEF RunTypes, Phases
  <2>3. Agenda(queue', results')
    BY <1>1, <2>1, ZenonT(30)
  <2> QED BY <2>2, <2>3, RunPartsNext, ZenonT(30)
<1>5. MergeAny => UNCHANGED vars
  BY ZenonT(30) DEF MergeAny, Merge
<1>6. UNCHANGED allVars => UNCHANGED vars
  BY ZenonT(30) DEF allVars
<1> QED BY <1>2, <1>3, <1>4, <1>5, <1>6, ZenonT(30) DEF Next

(* FilesByOne in the next state. *)
LEMMA FilesByOneNext == FilesInv' <=> FilesOK(files', base')
<1>1. (FilesInv <=> FilesOK(files, base))'
  BY FilesByOne, PTL
<1> QED BY <1>1, ZenonT(30)

(* A file written by a run, and one written by a merge, is in order when   *)
(* those before it are.                                                    *)
LEMMA FilesKept ==
    ASSUME RunInv, FilesInv, [Next]_allVars PROVE FilesInv'
<1>1. FilesOK(files, base)
  BY FilesByOne, ZenonT(30)
<1>2. results \in Seq(Reports) /\ ReportsOK(results)
  BY ZenonT(30) DEF RunInv
<1>3. ASSUME NEW keep \in BOOLEAN, WriteChunk(keep) PROVE FilesOK(files', base')
  <2> DEFINE qs == IF keep THEN results ELSE Bared(results)
  <2>1. SameResults(qs, results)
    BY <1>2, ResultsSame, ZenonT(30)
  <2>2. PICK others \in Earlier, s \in Settings, t \in Tenants :
           /\ files' = Append(others, Chunk(s, t, qs))
           /\ base' = Append([f \in DOMAIN others |-> <<others[f]>>], <<Chunk(s, t, results)>>)
    BY <1>3, ZenonT(30) DEF WriteChunk
  <2> HIDE DEF qs
  <2>3. FilesOK(Append(others, Chunk(s, t, qs)),
                Append([f \in DOMAIN others |-> <<others[f]>>], <<Chunk(s, t, results)>>))
    <3>1. others \in Seq(Chunks) /\ \A k \in DOMAIN others : ReportsOK(others[k].results)
      BY BenchMergeAssumption, ZenonT(30)
    <3> QED BY <1>2, <2>1, <3>1, RunsFiled, ZenonT(30)
  <2> QED BY <2>2, <2>3, ZenonT(30)
<1>4. ASSUME MergeAny PROVE FilesOK(files', base')
  <2>1. PICK S \in SUBSET DOMAIN files, strict \in BOOLEAN, keep \in BOOLEAN : Merge(S, strict, keep)
    BY <1>4, ZenonT(30) DEF MergeAny
  <2> DEFINE names == ResolveChunkFiles(S)
             cs == [k \in DOMAIN names |-> files[names[k]]]
             merged == MergeChunks(cs)
             b == Joined([k \in DOMAIN names |-> base[names[k]]])
  <2>2. /\ Len(names) >= 2 /\ (\A k \in DOMAIN cs : Readable(cs[k])) /\ ~Fatal(cs)
        /\ files' = Append(files, IF keep THEN merged ELSE [merged EXCEPT !.results = Bared(@)])
        /\ base' = Append(base, b)
    BY <2>1, ZenonT(30) DEF Merge
  <2>3. names \in Seq(1 .. Len(files))
    <3>1. files \in Seq(Chunks)
      BY <1>1, ZenonT(30) DEF FilesOK
    <3>2. Len(files) \in Nat /\ DOMAIN files = 1 .. Len(files)
      BY <3>1
    <3> QED BY <2>1, <3>2, NamesResolved, ZenonT(30)
  <2> HIDE DEF names
  <2>4. FilesOK(Append(files, IF keep THEN merged ELSE [merged EXCEPT !.results = Bared(@)]),
                Append(base, b))
    BY <1>1, <2>2, <2>3, MergeFiled, ZenonT(30)
  <2> QED BY <2>2, <2>4, ZenonT(30)
<1>5. ASSUME UNCHANGED mergeVars PROVE FilesOK(files', base')
  BY <1>1, <1>5, ZenonT(30) DEF mergeVars
<1>6. UNCHANGED allVars => UNCHANGED mergeVars
  BY ZenonT(30) DEF allVars
<1>7. FilesOK(files', base')
  BY <1>3, <1>4, <1>5, <1>6, ZenonT(30) DEF Next
<1> QED BY <1>7, FilesByOneNext, ZenonT(30)

(* In every reachable state of a campaign the runs and the files are in    *)
(* order.                                                                  *)
THEOREM CampaignInvariance == Spec => [](RunInv /\ FilesInv)
<1>1. RunInv /\ FilesInv /\ [Next]_allVars => (RunInv /\ FilesInv)'
  BY RunKept, FilesKept, ZenonT(30)
<1> QED BY <1>1, CampaignInit, PTL DEF Spec

(* Every file accounts for the runs it stands for: mergeChunks adds up the *)
(* samples, attempts and UDP counters of each path, over merges of merges  *)
(* too.                                                                    *)
THEOREM FilesAccount == Spec => []MergedTotals
<1>1. FilesInv => MergedTotals
  BY ZenonT(30) DEF FilesInv
<1> QED BY <1>1, CampaignInvariance, PTL

(* No merge hides a bad run: every path is there, with a status no better  *)
(* than the worst any run gave it.                                         *)
THEOREM NoRunMasked == Spec => []NothingMasked
<1>1. FilesInv => NothingMasked
  BY ZenonT(30) DEF FilesInv
<1> QED BY <1>1, CampaignInvariance, PTL

(* Every percentile in every file is the nearest rank of its samples:      *)
(* Summarize sorts whatever mergeChunks concatenates.                      *)
THEOREM EveryPercentileRanked == Spec => []PercentilesRanked
<1>1. FilesInv => PercentilesRanked
  BY ZenonT(30) DEF FilesInv, PercentilesRanked, ReportsOK, ReportOK
<1> QED BY <1>1, CampaignInvariance, PTL
==============================================================================
