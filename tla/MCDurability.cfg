SPECIFICATION Spec
CONSTANTS
    p1 = p1
    p2 = p2
    Pages <- MCPages
    Scenarios <- PassWork
SYMMETRY Symmetry
INVARIANTS
    CommittedExactly
    WriteAhead
PROPERTY LogOutlivesPages
CHECK_DEADLOCK FALSE
