SPECIFICATION Spec
CONSTANTS
    Scenarios <- OnlyWrite
    Timers = {t1}
    Present <- AllParams
    MaxLines = 1
    NoFile = NoFile
    NoEntry = NoEntry
CHECK_DEADLOCK FALSE
INVARIANTS
    WriteIsUndone

