CONSTANTS
    Libraries <- MCLibraries
    MaxRuns = 3
SPECIFICATION Spec
INVARIANTS
    TypeOK
    Settles
    LeftEventsReported
    NothingEscapes
    ScannersAgree
PROPERTY FreeNamesKept
CHECK_DEADLOCK FALSE
