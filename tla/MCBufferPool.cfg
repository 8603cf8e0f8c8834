SPECIFICATION Spec
CONSTANTS
    f1 = f1
    f2 = f2
    g1 = g1
    g2 = g2
    zero = zero
    empty = empty
    g3 = g3
    Frames <- MCFrames
    Guards <- MCGuards
    Data <- MCData
    FreeList <- MCFreeList
    MaxPages = 3
    Zero = zero
    Empty = empty
    NoFrame = NoFrame
    NoPage = NoPage
    NoGuard = NoGuard
SYMMETRY Symmetry
INVARIANTS
    TableExact
    GuardsPin
    FramesAccounted
    DirtyKnown
PROPERTIES
    Transparent
