SPECIFICATION Spec
CONSTANTS
    BaseCapacity = 1
    GrowthFactor = 11
    ArcModulus = 8
    MaxBlocks = 3
    MaxValues = 4
    MaxArc = 2
    ReallocMoves = FALSE
    NULL = NULL
    None = None
INVARIANTS
    HeapIsSound
PROPERTIES
    ReleaseReturns
    ImplementsHeap
CHECK_DEADLOCK FALSE
