CONSTANTS
    SECT_SIZE = 2
    PG_SIZE = 4
    W = 64
    HEADER_SECTS = 2
    KERNEL_HEADER = 0
    Layouts <- MCLayouts
    FileSize = 16
    MemSize = 40
    Mapped = 36
    Entries <- MCEntries
    MaxEntries = 2
SPECIFICATION Spec
INVARIANTS KernelIntact RegionsSound
CHECK_DEADLOCK FALSE
