CONSTANTS
    NDrives = 2
    NSectors = 2
    MaxSecs = 2
    Data = {v1}
    Old = Old
    MaxNest = 1
    TestSector = 0
    MediaErrors = TRUE
    Null = Null
SPECIFICATION Spec
INVARIANTS TypeOK CommandsAreHeard OnlyAskedSectors
PROPERTIES ImplementsBlockDevice WriteLands CallsEnd
CHECK_DEADLOCK FALSE
