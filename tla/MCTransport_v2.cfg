SPECIFICATION Spec
CONSTANTS
    s1 = s1  s2 = s2  p1 = p1  c1 = c1
    Senders = {s1, s2}
    Bulk = {s1, s2}
    SendTiers = {"guaranteed", "besteff"}
    Payloads = {p1}
    Streams = {0}
    Configs = {}
    SeqSpace = 8
    Windows = {1}
    GuaranteedRetries = 0
    ReliableRetries = 0
    BaseRTO = 1
    MaxRTO = 1
    Budget = 1
    AgeCap = 2
    LifeCap = 0
    MaxSends = 3
    MaxUnsent = 1
    MaxNackRetries = 1
INVARIANTS Accounting WindowRespected
PROPERTY AckAttribution
SYMMETRY Perms
