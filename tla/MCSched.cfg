CONSTANTS
    MaxPid = 6
    KPages = 11
    None = None
SPECIFICATION Spec
INVARIANTS TypeOK FamilyTree TableConsistent RunningIsCurrent InterruptsRestored NoOrphans
PROPERTIES ZombiesStayDead ExitLeaves
CHECK_DEADLOCK FALSE
