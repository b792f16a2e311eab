SPECIFICATION FairSpec
CONSTANTS
    Servers = {"a", "b"}
    Cells = {"c1", "c2"}
    SessionNodes = {"s1", "s2", "s3"}
    MaxLines = 2
INVARIANTS
    TypeOK
    ListsAgree
    
    ServingIsWhole
    OrderlyExit
    NoUseAfterFree
PROPERTY FreeTerminates
CHECK_DEADLOCK FALSE
