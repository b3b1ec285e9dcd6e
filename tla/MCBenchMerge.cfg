SPECIFICATION FairSpec
CONSTANTS
    sA = sA  sB = sB  t1 = t1  t2 = t2
    Records = 4
    ChunkSize = 2
    Batches <- BatchChoices
    Refused <- RefusedSlices
    Window = 2
    PathSets <- PathChoices
    Warmup = 1
    Iters = 1
    Latencies = {2}
    Attempts = 3
    Settings = {sA, sB}
    Tenants = {t1, t2}
    Earlier <- EarlierFiles
    MaxMerges = 2
INVARIANTS BatchCovered LossReported   NothingMasked PercentilesRanked

PROPERTY RunEnds
CHECK_DEADLOCK FALSE
