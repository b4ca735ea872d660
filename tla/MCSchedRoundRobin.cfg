CONSTANTS
    MaxPid = 2
    KPages = 7
    None = None
SPECIFICATION Spec
PROPERTIES RoundRobin
CHECK_DEADLOCK FALSE
