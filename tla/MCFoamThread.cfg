SPECIFICATION FairSpec
CONSTANTS
    Lines = 2
    PipeSize = 2
    MaxLog = 3
    Quiets = {TRUE, FALSE}
    ServerKill = TRUE
    CtrlC <- OutsideTheLock
CHECK_DEADLOCK FALSE
INVARIANTS
    InOrder
    
    KeyboardReported
PROPERTIES
    LineCopySpec
    RunEnds
    InterruptEnds
