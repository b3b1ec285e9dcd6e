SPECIFICATION FairSpec
CONSTANTS
    h1 = h1
    h2 = h2
    Senders = {h1, h2}
    Types = {"metrics"}
    Levels = {"low"}
    LLM = TRUE
    RawTiers <- LLMAnswers
    Fallback = "rule"
    MinSamples = 1
    HistorySize = 1
    DefaultWindow = 24
    Setups <- AgentSetups
INVARIANTS TypeOK  GrpcDrainedFirst NothingListening OneRefreshPerEntry BlockedOncePerKey CeilingKept
PROPERTIES StopReturns StaleReplaced
CHECK_DEADLOCK FALSE
