SPECIFICATION FairSpec
CONSTANTS
    Servers = {1, 2}
    Ports = {1, 2}
    MaxEvents = 1
CHECK_DEADLOCK FALSE
INVARIANTS
    RegisteredIsListed
PROPERTIES
    KeepsServers
    DeadAreRemoved
    ScanFinds
