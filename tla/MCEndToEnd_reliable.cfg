SPECIFICATION Spec
CONSTANTS
    a = a  s1 = s1  s2 = s2  p1 = p1  p2 = p2
    Agent = a
    Senders = {s1}
    SendTiers = {"reliable"}
    Payloads = {p1}
    GuaranteedRetries = 10
    ReliableRetries = 3
    BaseRTO = 1
    MaxRTO = 15
    TTL = 30
    FragmentTTL = 15
    GCPeriod = 15
    SeqSpace = 65536
    MaxSends = 1
    MaxRestarts = 1
    LifeCap = 30
INVARIANT StoredOnce
  
