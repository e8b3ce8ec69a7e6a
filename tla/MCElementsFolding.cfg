SPECIFICATION Spec
CONSTANTS
    InitShapes <- MCShapes
    MaxRank = 3
    MaxElements = 6
    MaxViews = 2
    MaxCopies = 1
    MinCount = 3
    MaxThreads = 3
    Disputed = {}
INVARIANTS
    TypeOK
    FoldedRight
    AllEqualRight
    NeverAsserts
CHECK_DEADLOCK FALSE
