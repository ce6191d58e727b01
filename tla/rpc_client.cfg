CONSTANTS
    u1 = u1
    w1 = w1
    ctl = ctl
    i1 = i1
    i2 = i2
    Callers = {u1}
    Workers = {w1}
    Control = ctl
    Ids = {i1, i2}
    MaxCalls = 2
SPECIFICATION FairSpec
INVARIANTS
    TypeOK
    ResponseMatchesCall
    DoneAfterCallback
PROPERTIES
    QuietAfterDisconnect
    EveryCallReturns
    DisconnectReturns
CHECK_DEADLOCK FALSE
