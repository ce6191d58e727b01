CONSTANTS
    a1 = a1
    s1 = s1
    lt = lt
    ow = ow
    Nil = Nil
    AsyncUsers = {a1}
    SyncUsers = {s1}
    LogThread = lt
    Owner = ow
    Levels = {300, 400}
    MaxLines = 2
    Times = {10, 12, 13}
    MaxTrouble = 1
SPECIFICATION FairSpec
INVARIANT DropsAreFresh
PROPERTIES
    Logged
    DestructorReturns
CHECK_DEADLOCK FALSE
