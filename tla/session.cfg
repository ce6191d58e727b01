CONSTANTS
    small = small
    full = full
    large = large
    wraps = wraps
    Nil = Nil
    Messages = {small, full, large, wraps}
    Length <- Lengths
    MaxPending = 2
    PacketMaxSize = 1024
    SizeLimit = 65536
SPECIFICATION FairSpec
INVARIANTS
    TypeOK
    WriteChain
PROPERTIES
    ImplementsChannel
    Arrives
    BothClose
CHECK_DEADLOCK FALSE
