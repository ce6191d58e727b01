CONSTANTS
    MaxNodes = 4
    MaxInner = 2
    MaxEdits = 0
    Kinds <- SmallKinds
SPECIFICATION Spec
INVARIANT EntersInitialized
CHECK_DEADLOCK FALSE
