SPECIFICATION Spec
CONSTANTS
    Workers = {w1, w2}
    NoThread = NoThread
    InitialSem = {0, 1}
CHECK_DEADLOCK FALSE
INVARIANT PullFindsJob
