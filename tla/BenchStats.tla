----------------------------- MODULE BenchStats -----------------------------
(***************************************************************************)
(* entropyops-helper/internal/benchstats/stats.go: what the benchmark      *)
(* reports for one path.  Latencies are integers; a statistic is kept when *)
(* its value depends on how samples are chosen (percentiles, minimum,      *)
(* maximum, counts), the means and rates derived from them are left out.   *)
(***************************************************************************)
EXTENDS Integers, FiniteSets, Sequences

NoFailures == [timeouts |-> 0, nonOK |-> 0, other |-> 0]
NoCounters == [sent |-> 0, acked |-> 0, dropped |-> 0]
Total(fb) == fb.timeouts + fb.nonOK + fb.other

(* sort.Float64s: a sample goes to the place given by the number of those  *)
(* not after it.  Which of two equal samples comes first cannot be told.   *)
Place(s, k) ==
    Cardinality({j \in DOMAIN s : s[j] < s[k] \/ (s[j] = s[k] /\ j <= k)})
Sorted(s) ==
    [p \in DOMAIN s |-> s[CHOOSE k \in DOMAIN s : Place(s, k) = p]]

(* Nearest rank, in the percentiles of whole numbers the reports use.      *)
Percentile_Floor(sorted, p) ==
    LET n == Len(sorted)
        k == (p * n) \div 100
    IN  IF n = 0 THEN 0 ELSE sorted[IF k < 1 THEN 1 ELSE k]
Percentile(sorted, p) ==
    LET n == Len(sorted)
        k == (p * n + 99) \div 100
    IN  IF n = 0 THEN 0 ELSE sorted[IF k < 1 THEN 1 ELSE IF k > n THEN n ELSE k]

(* A PathResult without samples or counts, such as a failed dial gives. *)
PathResult(path, status) ==
    [path |-> path, status |-> status, n |-> 0, attempted |-> 0,
     fb |-> NoFailures, p50 |-> 0, p99 |-> 0, samples |-> <<>>,
     udp |-> NoCounters]

Summarize(path, samples) ==
    LET sorted == Sorted(samples)
    IN  IF samples = <<>> THEN PathResult(path, "FAIL_NO_DATA")
        ELSE [PathResult(path, "PASS") EXCEPT
                !.n = Len(samples), !.samples = samples,
                !.p50 = Percentile(sorted, 50), !.p99 = Percentile(sorted, 99)]

SummarizeWithFailures(path, samples, fb) ==
    LET r == Summarize(path, samples)
    IN  [r EXCEPT !.attempted = r.n + Total(fb), !.fb = fb,
                  !.status = IF Total(fb) = 0 THEN r.status
                             ELSE IF r.n = 0 THEN "FAIL_TIMEOUT"
                             ELSE "PASS_WITH_FAILURES"]

(* isWorseStatus. *)
Rank(status) ==
    CASE status = "PASS" -> 0
      [] status = "PASS_WITH_FAILURES" -> 1
      [] status = "FAIL_TIMEOUT" -> 2
      [] status = "FAIL_DIAL" -> 3
      [] status = "FAIL_HANDSHAKE" -> 4
      [] status = "FAIL_NO_DATA" -> 5
IsWorseStatus(a, b) == Rank(a) > Rank(b)
==============================================================================
