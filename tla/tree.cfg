CONSTANTS
    MaxNodes = 4
    MaxInner = 2
    MaxEdits = 1
    Kinds <- AllKinds
SPECIFICATION FairSpec
INVARIANT StatusAgrees
PROPERTY TickReturns
CHECK_DEADLOCK FALSE
