----------------------------- MODULE BenchFiles -----------------------------
(***************************************************************************)
(* The JSON files of the benchmarks and what                               *)
(* entropyops-helper/cmd/eo-bench-merge computes from them: one file that  *)
(* stands for several.                                                     *)
(***************************************************************************)
EXTENDS BenchStats, Functions

CONSTANTS
    Settings,    \* spans_per_call and bench_mode of a run; a mismatch is fatal
    Tenants      \* -tenant of a run; a mismatch is a warning

(* The nearest rank: at least p per cent of the samples are not above it,  *)
(* and fewer than p per cent are below it.                                 *)
NearestRank(v, s, p) ==
    /\ 100 * Cardinality({k \in DOMAIN s : s[k] <= v}) >= p * Len(s)
    /\ 100 * Cardinality({k \in DOMAIN s : s[k] < v}) < p * Len(s)
Ranked(r) ==
    r.samples # <<>> =>
       NearestRank(r.p50, r.samples, 50) /\ NearestRank(r.p99, r.samples, 99)

(* What runs write: the counts of a result add up, its status tells        *)
(* whether there were failures, its samples, if it has any, are all there, *)
(* and its percentiles are theirs.  No path has two results.               *)
Reports ==
    [path : {"http", "grpc", "udp"},
     status : {"PASS", "PASS_WITH_FAILURES", "FAIL_TIMEOUT", "FAIL_DIAL",
               "FAIL_HANDSHAKE", "FAIL_NO_DATA"},
     n : Nat, attempted : Nat, fb : [timeouts : Nat, nonOK : Nat, other : Nat],
     p50 : Int, p99 : Int, samples : Seq(Int),
     udp : [sent : Nat, acked : Nat, dropped : Nat]]
Chunks == [setting : Settings, tenant : Tenants, results : Seq(Reports)]
ReportOK(r) ==
    /\ r.attempted = r.n + Total(r.fb)
    /\ r.status = "PASS" => Total(r.fb) = 0
    /\ r.status = "PASS_WITH_FAILURES" => Total(r.fb) > 0
    /\ r.samples = <<>> \/ Len(r.samples) = r.n
    /\ Ranked(r)
ReportsOK(rs) ==
    /\ \A k \in DOMAIN rs : ReportOK(rs[k])
    /\ \A j, k \in DOMAIN rs : rs[j].path = rs[k].path => j = k

Chunk(setting, tenant, rs) ==
    [setting |-> setting, tenant |-> tenant, results |-> rs]
Bare(r) == [r EXCEPT !.samples = <<>>]
Bared(rs) == [k \in DOMAIN rs |-> Bare(rs[k])]

-----------------------------------------------------------------------------
(* eo-bench-merge. *)

(* readChunk: a path that passed must still have its samples. *)
Readable(c) ==
    /\ c.results # <<>>
    /\ \A k \in DOMAIN c.results :
         c.results[k].status \in {"PASS", "PASS_WITH_FAILURES"}
            => c.results[k].samples # <<>>

(* Sums and concatenations, as the loops that make them. *)
Added(v) ==
    LET sum[k \in 0 .. Len(v)] == IF k = 0 THEN 0 ELSE sum[k - 1] + v[k]
    IN  sum[Len(v)]
Joined(ss) ==
    LET all[k \in 0 .. Len(ss)] == IF k = 0 THEN <<>> ELSE all[k - 1] \o ss[k]
    IN  all[Len(ss)]

(* All results of a sequence of chunks, in order, and their paths in order *)
(* of appearance.                                                          *)
AllResults(cs) == Joined([k \in DOMAIN cs |-> cs[k].results])
PathsOf(c) == {c.results[k].path : k \in DOMAIN c.results}
PathOrder(cs) ==
    LET rs == AllResults(cs)
        order[k \in 0 .. Len(rs)] ==
           IF k = 0 THEN <<>>
           ELSE LET seen == order[k - 1]
                IN  IF rs[k].path \in Range(seen) THEN seen ELSE Append(seen, rs[k].path)
    IN  order[Len(rs)]

(* The passes of mergeChunks over the results rs that pick those of a      *)
(* path: the samples one after the other, the sum of a count v of every    *)
(* result, the statuses.                                                   *)
SamplesOf(rs, path) ==
    Joined([k \in DOMAIN rs |-> IF rs[k].path = path THEN rs[k].samples ELSE <<>>])
SumOf(rs, path, v) == Added([k \in DOMAIN rs |-> IF rs[k].path = path THEN v[k] ELSE 0])
StatusesOf(rs, path) == {rs[k].status : k \in {j \in DOMAIN rs : rs[j].path = path}}

Fatal(cs) == \E k \in DOMAIN cs : cs[k].setting # cs[1].setting

(* isCrossPathIsolated, and the warnings -strict makes fatal.  *)
IsCrossPathIsolated(cs) ==
    Len(AllResults(cs)) = Len(PathOrder(cs)) /\ Len(cs) >= 2
Notes(cs) ==
    {"tenant" : k \in {j \in DOMAIN cs : cs[j].tenant # cs[1].tenant}}
      \cup {p \in UNION {PathsOf(cs[k]) : k \in DOMAIN cs} :
              /\ ~IsCrossPathIsolated(cs)
              /\ Cardinality({k \in DOMAIN AllResults(cs) : AllResults(cs)[k].path = p}) # Len(cs)}

WorstStatus(S) == CHOOSE s \in S : \A t \in S : ~IsWorseStatus(t, s)

FailuresOf(rs, path) ==
    LET Failed(kind) == SumOf(rs, path, [k \in DOMAIN rs |-> rs[k].fb[kind]])
    IN  [timeouts |-> Failed("timeouts"), nonOK |-> Failed("nonOK"),
         other |-> Failed("other")]
CountersOf(rs, path) ==
    LET Counted(c) == SumOf(rs, path, [k \in DOMAIN rs |-> rs[k].udp[c]])
    IN  [sent |-> Counted("sent"), acked |-> Counted("acked"),
         dropped |-> Counted("dropped")]

(* The concatenated samples and the added failures are summarised like     *)
(* those of one run; a status that is neither PASS nor PASS_WITH_FAILURES  *)
(* is kept.                                                                *)
MergePath_Recomputed(path, rs) ==
    SummarizeWithFailures(path, SamplesOf(rs, path), FailuresOf(rs, path))

MergePath(path, rs) ==
    LET r == SummarizeWithFailures(path, SamplesOf(rs, path), FailuresOf(rs, path))
        worst == WorstStatus(StatusesOf(rs, path))
    IN  [r EXCEPT !.udp = CountersOf(rs, path),
                  !.status = IF worst \in {"PASS", "PASS_WITH_FAILURES"} THEN @ ELSE worst]

MergeChunks(cs) ==
    LET order == PathOrder(cs)
    IN  Chunk(cs[1].setting, cs[1].tenant,
              [k \in DOMAIN order |-> MergePath(order[k], AllResults(cs))])

(* resolveChunkFiles drops repeated names and sorts them; here files are   *)
(* named in order of creation.                                             *)
ResolveChunkFiles(S) ==
    Sorted(CHOOSE s \in Injection(1 .. Cardinality(S), S) : TRUE)

(* What a result says in sum of the results of its path among rs. *)
TotalsOf(r, rs) ==
    /\ r.n = SumOf(rs, r.path, [k \in DOMAIN rs |-> rs[k].n])
    /\ r.attempted = SumOf(rs, r.path, [k \in DOMAIN rs |-> rs[k].attempted])
    /\ r.udp = CountersOf(rs, r.path)
=============================================================================
