SPECIFICATION Spec
CONSTANTS
    Buffers = {b1, b2}
    ChunkSize = 2
    MemoryLimit = 5
    SpoolLimit = 6
    MaxBytes = 7
SYMMETRY BufferSymmetry
INVARIANTS
    LimitsRespected
    BudgetsExact
    HoldsPrefix
    PrintsPrefix
PROPERTIES
    IsOutputStream
