CONSTANTS
    Timers = {t1, t2}
    Users = {u1, u2}
SPECIFICATION FairTimerSpec
INVARIANT Survives
PROPERTY Ticks
CHECK_DEADLOCK FALSE
