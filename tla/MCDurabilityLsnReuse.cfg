SPECIFICATION Spec
CONSTANTS
    p1 = p1
    p2 = p2
    Pages <- MCPages
    Scenarios <- LsnReuse
INVARIANT CommittedExactly
CHECK_DEADLOCK FALSE
