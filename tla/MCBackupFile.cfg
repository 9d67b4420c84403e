SPECIFICATION Spec
CONSTANTS
    restart = restart
    writeAll = writeAll
    libFunction = libFunction
    safe = safe
    c0 = c0
    c1 = c1
    c2 = c2
    NoFile = NoFile
    Clients <- MCClients
    Contents <- MCContents
INVARIANTS
    BackupIsPristine
PROPERTIES
    ControlledSpec
    LostOnlyOverLeftover
