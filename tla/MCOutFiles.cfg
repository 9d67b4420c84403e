SPECIFICATION Spec
CONSTANTS
    Names = {p, U}
    maxOpenFiles = 2
    SingleFiles <- BothModes
    MaxTime = 2
    MaxCalls = 2
    MaxReplaced = 1
    Title = Title
CHECK_DEADLOCK FALSE
INVARIANTS
    HandlesBounded
    OneRowPerTime
    NoGaps
PROPERTIES
    DataTablesSpec
