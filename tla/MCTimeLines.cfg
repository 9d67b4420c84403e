SPECIFICATION Spec
CONSTANT
    Setups <- AllSetups
CHECK_DEADLOCK FALSE
INVARIANTS
    TypeOK
    ValuesAreStored
    TimesAscend
    PointsBounded
PROPERTIES
    ExtremesKept
