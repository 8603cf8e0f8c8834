SPECIFICATION Spec
CONSTANTS
    Scenarios <- SingleKeyOnly
    MaxRows = 8
INVARIANTS
    ConstraintsHold
CHECK_DEADLOCK FALSE
