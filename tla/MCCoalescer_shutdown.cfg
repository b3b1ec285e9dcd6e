SPECIFICATION Spec
CONSTANTS
    w1 = w1  w2 = w2  t1 = t1  t2 = t2
    Writers = {w1}
    Tenants = {t1, t2}
    Sizes = {1}
    MaxItems = 2
    ChanCap = 2
    MaxTotal = 2
INVARIANT ShutdownDrains
CHECK_DEADLOCK FALSE
