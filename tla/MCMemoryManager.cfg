CONSTANTS
    Buff = 13
    BuffSize = 92
    LinkSize = 8
    AllocBit = 32768
    Requests <- MCRequests
SPECIFICATION Spec
INVARIANTS
    TypeOK
    Tiling
    Coalesced
    FreeListExact
    ByteLeftExact
    FullRecovery
    NoFalseFailure
    BoundedWaste
PROPERTY ImplementsAbstractHeap
