---------------------------- MODULE MCBenchMerge ----------------------------
(* Instances of BenchMerge for TLC: four records that fit in one datagram, *)
(* or of which the last two do not, or the third of which is too long, and *)
(* the files of other runs.                                              *)
EXTENDS BenchMerge

CONSTANTS sA, sB, t1, t2

Small == {<<1, 4>>}
Large == {<<1, 2>>, <<3, 4>>} \cup {<<r, r>> : r \in 1 .. 4}
Broken == {<<1, 2>>, <<1, 1>>, <<2, 2>>, <<4, 4>>}
BatchChoices == {Small, Large, Broken}
RefusedSlices == {<<3, 4>>}
PathChoices == {{"http", "grpc"}, {"udp"}}

(* Percentiles read from a file, not computed again. *)
Slow == [SummarizeWithFailures("http", <<3, 1>>, [NoFailures EXCEPT !.timeouts = 1])
            EXCEPT !.p50 = 1, !.p99 = 3]
Fast == SummarizeWithFailures("http", <<1>>, NoFailures)
Dead == SummarizeWithFailures("udp", <<>>, [NoFailures EXCEPT !.other = 1])
Sent == [SummarizeWithFailures("udp", <<2>>, NoFailures) EXCEPT
            !.udp = [sent |-> 2, acked |-> 2, dropped |-> 0]]
EarlierFiles ==
    {<<Chunk(sA, t1, <<Fast, Sent>>)>>, <<Chunk(sB, t1, <<Fast>>)>>,
     <<Chunk(sA, t2, <<Slow, Dead>>)>>}
=============================================================================
