SPECIFICATION FairSpec
CONSTANTS
    Scenarios <- AllRuns
    Timers = {t1, t2}
    Present <- AllParams
    MaxLines = 2
    NoFile = NoFile
    NoEntry = NoEntry
CHECK_DEADLOCK FALSE
INVARIANTS
    TypeOK
    RestoredAfterRun
    RaisesOnlyWhenLate
    AnswerIsRight
    TriggerChangesKept
PROPERTIES
    StopEndsRun
