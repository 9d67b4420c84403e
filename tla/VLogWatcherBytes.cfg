SPECIFICATION FairWatchSpec
CONSTANTS
    Lines = 7
    Logged <- UmlautLogged
CHECK_DEADLOCK FALSE
PROPERTIES
    EndsAtEnd
