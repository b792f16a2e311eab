SPECIFICATION FairSpec
CONSTANTS
    MaxFd = 4
    MaxClients = 1
    MaxTraffic = 1
    SlowPeers = FALSE
    CallsMayFail = FALSE
    DuplicateAdd = "EEXIST"
    ServerAddresses <- MCServers
CHECK_DEADLOCK FALSE
PROPERTY ClientServed
