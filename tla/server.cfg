CONSTANTS
    starter = starter
    stopper = stopper
    Main = starter
    Other = stopper
    MaxSessions = 1
    PoolSize = 2
    MaxConn = 2
SPECIFICATION FairServerSpec
INVARIANTS
    Capacity
    SlotInv
PROPERTIES
    SlotFreed
    Stops
    Exits
CHECK_DEADLOCK FALSE
