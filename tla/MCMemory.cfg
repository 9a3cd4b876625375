SPECIFICATION MCSpec
CONSTANTS
    NULL = NULL
    Maps <- MCMaps
    KernelStart = 1
    KernelEnd = 2
    PageFloor = 5
    MaxAddress = 9
    BlockSizes = {1, 2}
    MaxHeld = 2
    VirtPages = 3
    TableSize = 2
    HEADER_SIZE = 3
    MIN_SIZE = 2
    NUM_SIZES = 6
    HeapSize = 40
    Requests = {1, 4, 9}
    MaxWhole = 1
    Addresses = {0, 1, 2, 3, 4}
INVARIANTS
    
    
    HandlersDecided
PROPERTIES
    FailsOnlyWhenScarce
    InitEnds
CHECK_DEADLOCK FALSE
