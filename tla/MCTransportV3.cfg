SPECIFICATION FairSpecV3
CONSTANTS
    s1 = s1  s2 = s2  c1 = c1
    Senders = {s1, s2}
    Bulk = {s1}
    SendTiers = {"reliable", "besteff"}
    Payloads <- FragmentHeaders
    Streams = {0}
    Configs = {c1}
    SeqSpace = 1
    Windows = {1}
    GuaranteedRetries = 2
    ReliableRetries = 0
    BaseRTO = 1
    MaxRTO = 1
    Budget = 1
    AgeCap = 2
    LifeCap = 0
    MaxSends = 2
    MaxUnsent = 1
    MaxNackRetries = 0
    MaxFragments = 2
    MaxMessages = 2
    MaxReplies = 2
INVARIANTS NoOverwrite 
PROPERTIES ImplementsTransport SendReturns 
CHECK_DEADLOCK FALSE
