CONSTANTS
    p1 = p1
    p2 = p2
    c1 = c1
    c2 = c2
    Nil = Nil
    Threads = {p1, p2, c1, c2}
    Ops <- MixedOps
    MaxPush = 3
SPECIFICATION FairSpec
INVARIANTS
    TypeOK
    ChainInv
    TakeInv
    WakeupsCoverItems
PROPERTIES
    ImplementsDeque
    Delivered
    StopReleases
CHECK_DEADLOCK FALSE
