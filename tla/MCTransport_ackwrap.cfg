SPECIFICATION Spec
CONSTANTS
    s1 = s1  s2 = s2  p1 = p1  c1 = c1
    Senders = {s1}
    Bulk = {}
    SendTiers = {"guaranteed", "reliable", "besteff"}
    Payloads = {p1}
    Streams = {0}
    Configs = {}
    SeqSpace = 2
    Windows = {0}
    GuaranteedRetries = 1
    ReliableRetries = 0
    BaseRTO = 1
    MaxRTO = 1
    Budget = 1
    AgeCap = 2
    LifeCap = 0
    MaxSends = 3
    MaxUnsent = 0
    MaxNackRetries = 0
PROPERTY AckAttribution
