SPECIFICATION Spec
CONSTANTS
    s1 = s1
    s2 = s2
    Sessions <- MCSessions
    Scenarios <- PassWork
INVARIANTS
    AsOfExact
    SnapshotExact
    
    SavedVersionsSurvive
CHECK_DEADLOCK FALSE
