SPECIFICATION Spec
CONSTANTS
    peer1 = peer1  peer2 = peer2  fpA = fpA  fpB = fpB  msg = msg  note = note  plan = plan
    Peers = {peer1}
    Payloads = {msg}
    Fingerprints = {}
    Split <- SplitM
    Tiers = {"reliable"}
    ContentId <- Hash
    HostOf <- Host
    Configs = {}
    Dtls = TRUE
    TTL = 2
    FragmentTTL = 1
    GCPeriod = 1
    SessionTTL = 10
    SessionGCPeriod = 2
    AgeLimit = 13
    MaxRestarts = 0
INVARIANT AckedWhenHandled
