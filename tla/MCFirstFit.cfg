CONSTANTS
    NPages = 8
    Regions <- MCRegions
    Sizes = {1, 2, 3, 4}
    Junk = {1}
    Null = Null
SPECIFICATION Spec
INVARIANTS TypeOK Partition FreeCount ReservedMarksHeads Coalesced FailsOnlyWhenFull
PROPERTIES ImplementsPageAllocator FreeTerminates
