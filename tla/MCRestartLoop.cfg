SPECIFICATION Spec
CONSTANTS
    Cases <- AllCases
    MaxTime = 4
    MaxClock = 3
    MinimumSteps = 2
    MaximumRestarts = 4
CHECK_DEADLOCK FALSE
INVARIANTS
    StopsRightly
PROPERTIES
    RestartsOnlyAfterProgress
    KeepsLogs
