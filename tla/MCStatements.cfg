SPECIFICATION Spec
CONSTANTS
    Scenarios <- MCScenarios
    MaxRows = 8
INVARIANTS
    ConstraintsHold
    IndexesAgree
PROPERTIES
    UndoRestores
    RestartKeepsCatalog
CHECK_DEADLOCK FALSE
