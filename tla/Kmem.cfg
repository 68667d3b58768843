CONSTANTS
    MAX_ORDER = 2
    MAX_BLOCKS = 3
    Pow2 <- MCPow2
    PAGE_SIZE = 96
    ENTRY = 16
    MIN_CACHE_ORDER = 4
    CACHE_NUM = 2
    HEAP_START = 100
    HEAP_END = 120
    Slot = {s1, s2, s3}
    Sizes <- MCSizes
    Interruptible = FALSE
SPECIFICATION Spec
SYMMETRY Symmetric
INVARIANTS
    NoSharedMemory
    FitsItsMemory
    CachePagesKept
    ChunksConserved
PROPERTY NullMeansFull
