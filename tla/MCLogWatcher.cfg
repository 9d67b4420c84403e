SPECIFICATION FairWatchSpec
CONSTANTS
    Lines = 7
    Logged <- AllLogged
CHECK_DEADLOCK FALSE
INVARIANTS
    Concatenated
PROPERTIES
    WatchEnds
    WatchCopies
