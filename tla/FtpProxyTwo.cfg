SPECIFICATION Spec
CONSTANTS
    MaxFd = 4
    MaxClients = 2
    MaxTraffic = 1
    SlowPeers = TRUE
    CallsMayFail = TRUE
    DuplicateAdd = "OK"
    ServerAddresses <- MCServers
CHECK_DEADLOCK FALSE
INVARIANT FdOwnership
INVARIANT PolledWhileOwned
INVARIANT NoCommandOrphan
INVARIANT RelayStaysInSession
PROPERTY TeardownsExplained
PROPERTY SessionsKeptApart
