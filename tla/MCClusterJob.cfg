SPECIFICATION FairSpec
CONSTANTS
    ArrayJobs = {TRUE, FALSE}
    Parallels = {TRUE, FALSE}
    MaxStarts = 3
    MaxMessages = 2
CHECK_DEADLOCK FALSE
INVARIANTS
    StoppedIsSuspended
    RaisesOnlyWhenLate
    RunsPrepared
    StopNotLost
PROPERTIES
    StopEnds
    CheckpointWrites
