SPECIFICATION FairSpec
CONSTANTS
    Workers = {w1, w2, w3}
    NoThread = NoThread
    InitialSem = {0, 1}
CHECK_DEADLOCK FALSE
INVARIANT TypeOK
INVARIANT QueueOutlivesUsers
INVARIANT NoLostWakeUp
PROPERTY PromiseKept
PROPERTY JobTaken
PROPERTY MainResumes
PROPERTY Shutdown
