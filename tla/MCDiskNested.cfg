CONSTANTS
    NDrives = 2
    NSectors = 2
    MaxSecs = 2
    Data = {v1, v2}
    Old = Old
    MaxNest = 2
    TestSector = 0
    MediaErrors = FALSE
    Null = Null
SPECIFICATION Spec
PROPERTIES WriteLands
CHECK_DEADLOCK FALSE
