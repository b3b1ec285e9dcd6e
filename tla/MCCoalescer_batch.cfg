SPECIFICATION FairSpec
CONSTANTS
    w1 = w1  w2 = w2  t1 = t1  t2 = t2
    Writers = {w1, w2}
    Tenants = {t1, t2}
    Sizes = {1, 2}
    MaxItems = 2
    ChanCap = 2
    MaxTotal = 4
INVARIANTS NothingForgotten StopDrains
PROPERTIES ImplementsSink EventuallyWritten
CHECK_DEADLOCK FALSE
