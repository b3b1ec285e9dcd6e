SPECIFICATION FairSpec
CONSTANTS
    two = two  full = full  plain = plain  proto = proto  junk = junk
    Payloads = {two, full, plain, proto, junk}
    Split <- Parts
    ContentId <- Hash
    Format <- Formats
    LanesOf <- Populated
    Wired = {"metrics", "logs"}
    SeqSpace = 4
    MaxReads = 5
    MaxErrors = 1
INVARIANTS Accounting ReassembledWhole NothingStranded
PROPERTY StopReturns
CHECK_DEADLOCK FALSE
