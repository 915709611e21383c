\* Up to eight records of one or two units, pages of two, indexes of two or three.
SPECIFICATION Spec
CONSTANTS
    Keys = {1, 2, 3, 5}
    Blocks = {1, 2}
    Sizes = {1, 2}
    PARTITIONS = 2
    partition <- Alternate
    MAX_PAGE_BYTES = 2
    MAX_INDEX_BYTES = 2
    FenceBytes <- LongFirst
    None = None
INVARIANTS
    LookupExact
    DependencyOrder
    WalkComplete
    ScanExact
CHECK_DEADLOCK FALSE
