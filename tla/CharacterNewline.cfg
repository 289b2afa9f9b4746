CONSTANTS
    Sources <- Characters
SPECIFICATION Spec
CHECK_DEADLOCK FALSE
INVARIANT
    LineAccurate
