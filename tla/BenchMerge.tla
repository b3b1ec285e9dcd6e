----------------------------- MODULE BenchMerge -----------------------------
(***************************************************************************)
(* Benchmark campaigns: runs of eo-ingest-bench (Bench) write chunk files, *)
(* and entropyops-helper/cmd/eo-bench-merge makes one file of several, as  *)
(* BenchFiles says.  A merged file has the shape of a chunk and may be     *)
(* merged again.                                                           *)
(***************************************************************************)
EXTENDS Bench, BenchFiles

CONSTANTS
    Earlier,     \* sequences of chunks, with samples, that other runs wrote
    MaxMerges    \* bound: merged files

VARIABLES
    files,       \* the JSON files, in order of creation
    base         \* history: the benchmark runs each file stands for

mergeVars == <<files, base>>
allVars == <<vars, mergeVars>>

ASSUME BenchMergeAssumption ==
    /\ Latencies \subseteq Int
    /\ \A e \in Earlier : /\ e \in Seq(Chunks)
                          /\ \A k \in DOMAIN e : ReportsOK(e[k].results)

-----------------------------------------------------------------------------
(* main of eo-ingest-bench after the last path: the file, with or without  *)
(* -keep-samples, joins those of other runs.  The process ends.            *)
Runs == {f \in DOMAIN files : Len(base[f]) = 1}

WriteChunk(keep) ==
    /\ pc = "idle" /\ queue = <<>>
    /\ \E others \in Earlier, s \in Settings, t \in Tenants :
          /\ files' = Append(others, Chunk(s, t, IF keep THEN results ELSE Bared(results)))
          /\ base' = Append([f \in DOMAIN others |-> <<others[f]>>],
                            <<Chunk(s, t, results)>>)
    /\ pc' = "end" /\ results' = <<>>
    /\ i' = 0 /\ samples' = <<>> /\ fb' = NoFailures
    /\ start' = [sent |-> 0, acked |-> 0] /\ settled' = FALSE
    /\ era' = "warm" /\ sent' = 0 /\ acked' = 0 /\ dropped' = 0
    /\ lost' = [e \in Eras |-> 0]
    /\ UNCHANGED <<loopVars, out, queue>>

-----------------------------------------------------------------------------
(* eo-bench-merge. *)

Merge(S, strict, keep) ==
    LET names == ResolveChunkFiles(S)
        cs == [k \in DOMAIN names |-> files[names[k]]]
        merged == MergeChunks(cs)
    IN  /\ Len(names) >= 2
        /\ \A k \in DOMAIN cs : Readable(cs[k])
        /\ ~Fatal(cs) /\ (strict => Notes(cs) = {})
        /\ files' = Append(files, IF keep THEN merged
                                  ELSE [merged EXCEPT !.results = Bared(@)])
        /\ base' = Append(base, Joined([k \in DOMAIN names |-> base[names[k]]]))
        /\ UNCHANGED vars

MergeAny ==
    /\ pc = "end"
    /\ Cardinality(DOMAIN files \ Runs) < MaxMerges
    /\ \E S \in SUBSET DOMAIN files, strict, keep \in BOOLEAN : Merge(S, strict, keep)

MergeInit == Init /\ files = <<>> /\ base = <<>>
Next ==
    \/ BenchNext /\ UNCHANGED mergeVars
    \/ \E keep \in BOOLEAN : WriteChunk(keep)
    \/ MergeAny
Spec == MergeInit /\ [][Next]_allVars

(* The main goroutine of the benchmark is scheduled and its deadlines      *)
(* pass; nothing is assumed of ACKs.                                       *)
FairSpec == Spec /\ WF_allVars(Bencher /\ UNCHANGED mergeVars)

-----------------------------------------------------------------------------
(* Properties. *)

(* A run of the benchmark ends, whatever becomes of its datagrams: both    *)
(* drains and the window have deadlines, and the chunk sizes run out.      *)
RunEnds == (pc # "end") ~> (pc = "idle" /\ queue = <<>>)

(* A file accounts for the runs it stands for.  They all had the batch     *)
(* size and server mode it names, and the samples, failures and UDP        *)
(* counters of a path are the sums of those the runs measured, as long as  *)
(* the other files were written with -keep-samples.  mergeChunks adds them *)
(* in three separate passes over the chunks.                               *)
Kept(f) == \A k \in DOMAIN files[f].results :
              files[f].results[k].n = Len(files[f].results[k].samples)
MergedTotals ==
    \A f \in DOMAIN files :
       /\ \A k \in DOMAIN base[f] : base[f][k].setting = files[f].setting
       /\ (\A g \in DOMAIN files \ {f} : Kept(g)) =>
            \A k \in DOMAIN files[f].results :
               TotalsOf(files[f].results[k], AllResults(base[f]))

(* No merge, and no merge of merges, hides a bad run: a path that failed   *)
(* in some run is reported failed with the worst status any run gave it,   *)
(* and one that lost attempts is never reported PASS.  No path is left     *)
(* out (mergeChunks keeps the worst status of each).                       *)
NothingMasked ==
    \A f \in DOMAIN files :
       /\ PathsOf(files[f]) = UNION {PathsOf(base[f][k]) : k \in DOMAIN base[f]}
       /\ \A k \in DOMAIN files[f].results :
            LET r == files[f].results[k]
                worst == WorstStatus(StatusesOf(AllResults(base[f]), r.path))
            IN  IF worst = "PASS" THEN r.status = "PASS"
                ELSE ~IsWorseStatus(worst, r.status)

(* A reported percentile is the nearest rank, in every file and after any  *)
(* merge.                                                                  *)
PercentilesRanked ==
    \A f \in DOMAIN files : \A k \in DOMAIN files[f].results :
       Ranked(files[f].results[k])

-----------------------------------------------------------------------------
(* The invariant behind the last three.  A run has at most one result for  *)
(* each path and each of them is in order; so it is with every file, which *)
(* is all that another merge relies on.                                    *)
RunInv ==
    /\ samples \in Seq(Int) /\ fb \in [timeouts : Nat, nonOK : Nat, other : Nat]
    /\ sent \in Nat /\ acked \in Nat /\ dropped \in Nat
    /\ start \in [sent : Nat, acked : Nat]
    /\ queue \in Seq({"http", "grpc", "udp"})
    /\ \A j, k \in DOMAIN queue : queue[j] = queue[k] => j = k
    /\ pc \in {"request", "dial"} \cup UDPPhases => queue # <<>>
    /\ pc = "dial" => Head(queue) = "grpc"
    /\ pc \in UDPPhases => Head(queue) = "udp"
    /\ results \in Seq(Reports) /\ ReportsOK(results)
    /\ \A j \in DOMAIN queue, k \in DOMAIN results : results[k].path # queue[j]
FilesInv ==
    /\ files \in Seq(Chunks) /\ base \in Seq(Seq(Chunks)) /\ Len(files) = Len(base)
    /\ \A f \in DOMAIN files : ReportsOK(files[f].results)
    /\ MergedTotals /\ NothingMasked
=============================================================================
