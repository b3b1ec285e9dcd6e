SPECIFICATION Spec
CONSTANTS
    peer1 = peer1  peer2 = peer2  fpA = fpA  fpB = fpB  msg = msg  note = note  plan = plan
    Peers = {peer1}
    Payloads = {msg, fpA}
    Fingerprints = {fpA}
    Split <- SplitM
    Tiers = {"reliable", "besteff"}
    ContentId <- Hash
    HostOf <- Host
    Configs = {plan}
    Dtls = FALSE
    TTL = 1
    FragmentTTL = 0
    GCPeriod = 1
    SessionTTL = 1
    SessionGCPeriod = 1
    AgeLimit = 3
    MaxRestarts = 1
INVARIANTS NoRepeatWithinTTL Retention ReassembledWhole AckedWhenHandled
 
