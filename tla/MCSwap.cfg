CONSTANTS
    NUser = 3
    PerTable = 2
    NFrames = 3
    Values = {v1, v2}
    max_swap_offset = 3
    MaxBatch = 2
    MaxOuts = 4
    Null = Null
SPECIFICATION Spec
SYMMETRY ValueSymmetry
INVARIANTS TypeOK FramesAccounted FifoOwnsLinks TlbCoherent DataIntactUntilWrap
PROPERTY ImplementsMemory
