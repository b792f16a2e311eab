SPECIFICATION FairSpec
CONSTANTS
    Commands <- MCCommands
    Ulong = 65536
    HostAddress <- MCHostAddress
    Ports <- MCPorts
    LineEnds <- MCLineEnds
INVARIANTS
    TypeOK
    ConnectsWhereMeant
    ServerDialsListener
    ProperCommandConnects
    ServerGetsALine
PROPERTY CommandAnswered
CHECK_DEADLOCK FALSE
