CONSTANTS
    w1 = w1
    w2 = w2
    w3 = w3
    s1 = s1
    s2 = s2
    Nobody = Nobody
    Workers = {w1, w2, w3}
    Submitters = {s1, s2}
    MaxTasks = 4
    Blocking = {1}
SPECIFICATION FairSpec
PROPERTIES
    ImplementsExecutor
    NoTaskStuck
    JoinsReturn
CHECK_DEADLOCK FALSE
