SPECIFICATION Spec
CONSTANTS
    MaxFd = 5
    MaxClients = 2
    MaxTraffic = 0
    SlowPeers = FALSE
    CallsMayFail = FALSE
    DuplicateAdd = "OK"
    ServerAddresses <- MCServers
CHECK_DEADLOCK FALSE
PROPERTY TeardownJustified
