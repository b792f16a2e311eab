SPECIFICATION FairSpec
CONSTANTS
    ReadSize = 2
    DataSize = 4
    MaxBytes = 5
    MaxErrors = 1
INVARIANTS
    TypeOK
    InOrder
    Lossless
    DataBufferFits
    TeardownLosesOneRead
PROPERTY Drained
CHECK_DEADLOCK FALSE
