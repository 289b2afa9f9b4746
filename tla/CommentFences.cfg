CONSTANTS
    Sources <- AllTokens
SPECIFICATION Spec
CHECK_DEADLOCK FALSE
INVARIANTS
    TypeOK
    LineAccurate
    InterpolationStack
    ReportsAreLocated
PROPERTY
    Terminates
