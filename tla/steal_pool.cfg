CONSTANTS
    s1 = s1
    s2 = s2
    Submitters = {s1, s2}
    PoolSize = 2
    MaxTasks = 3
    Blocking = {1}
    MaxFail = 1
    MaxBackOff = 3
SPECIFICATION FairSpec
PROPERTIES
    ImplementsExecutor
    NoTaskStuck
    JoinsReturn
CHECK_DEADLOCK FALSE
