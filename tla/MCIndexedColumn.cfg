SPECIFICATION Spec
CONSTANTS
    PageSize = 60
    Values <- MCValues
    Rids <- MCRids
    NoRow = NoRow
    Scenarios <- IntColumn
INVARIANTS
    TreeSound
    IndexAgrees
    UniqueHolds
CHECK_DEADLOCK FALSE
