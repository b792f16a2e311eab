SPECIFICATION FairSpec
CONSTANTS
    MaxFd = 4
    MaxClients = 1
    MaxTraffic = 2
    SlowPeers = FALSE
    CallsMayFail = TRUE
    DuplicateAdd = "OK"
    ServerAddresses <- MCServers
CHECK_DEADLOCK FALSE
PROPERTY CommandFlushed
PROPERTY TeardownCompletes
PROPERTY SessionsKeptApart
