SPECIFICATION Spec
CONSTANTS
    MaxFd = 5
    MaxClients = 1
    MaxTraffic = 3
    SlowPeers = FALSE
    CallsMayFail = FALSE
    DuplicateAdd = "OK"
    ServerAddresses <- MCServers
CHECK_DEADLOCK FALSE
INVARIANT TypeOK
INVARIANT FdOwnership
INVARIANT RelayStaysInSession
INVARIANT PortNamesListener
PROPERTY TeardownJustified
