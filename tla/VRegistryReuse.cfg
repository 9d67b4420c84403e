SPECIFICATION Spec
CONSTANTS
    Servers = {1, 2}
    Ports = {1, 2}
    MaxEvents = 0
CHECK_DEADLOCK FALSE
INVARIANTS
    ReusedPortListed
