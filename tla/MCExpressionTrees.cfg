SPECIFICATION Spec
CONSTANTS
    ColumnTypes <- MCColumnTypes
    Indexes <- MCIndexes
    Scale = 10
    Scenarios <- MCScenarios
    Rows <- MCRows
INVARIANTS
    TypeSound
    RewriteSafe
    CheckSurvivesReload
    IndexAgreesWithScan
    LikeExact
CHECK_DEADLOCK FALSE
