CONSTANTS
    NPages = 5
    Regions <- MCRegions
    Sizes = {1, 2}
    Junk = {0}
    Null = Null
    FreeHead = FreeHead
    SwapHead = SwapHead

SPECIFICATION LSpec

INVARIANTS RingsSound IterationInStep

CHECK_DEADLOCK FALSE
