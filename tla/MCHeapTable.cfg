SPECIFICATION Spec
CONSTANTS
    short = short
    long = long
    Dead = Dead
    Torn = Torn
    NoHint = NoHint
    PageSize = 34
    HeaderSize = 12
    SlotSize = 4
    Rows <- MCRows
    RowLen <- MCRowLen
    MaxPages = 2
    MaxStmts = 5
    Scenarios <- Kept
INVARIANTS
    NoOverlap
    ScannedOnce
PROPERTIES
    KeepsRows
    RecoveredRows
CHECK_DEADLOCK FALSE
