CONSTANTS
    MAX_ORDER = 3
    PAGE_SIZE = 2
    MAX_BLOCKS = 2
    Pow2 <- MCPow2
    BootRegions <- Regions
SPECIFICATION FairSpec
INVARIANTS
    TypeOK
    ReservedExactly
    NoOverlap
    ListConsistent
    HeldIntact
    FreeRunIsBlock
    LostOnlyMaxOrder
PROPERTIES
    CallsReturn
    ImplementsPageAllocator
