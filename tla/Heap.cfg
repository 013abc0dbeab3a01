SPECIFICATION HeapSpec
CONSTANTS
    HeapSize = 14
    PageGranules = 7
    Sizes = {1, 2}
    NIL = NIL
INVARIANT FreeBlocksListed
CHECK_DEADLOCK FALSE
