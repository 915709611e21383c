\* A first head of two runs, one publication or compaction more than that each.
SPECIFICATION FairSpec
CONSTANTS
    FirstHead = 1
    MaxBlock = 2
    MaxHeads = 3
    MAX_RUNS = 3
    MaxFaults = 1
    Histories <- ByBlock
    Batches <- MCBatches
    Calls <- MCCalls
    ObjectRequests <- MCObjectRequests
    Sizes = {2}
    MAX_U64 = 3
    Empty = Empty
    BATCH_CONCURRENCY = 1
    MAX_REQUEST = 16
    ShardCost = 2
    TreeCost = 1
    HeadCost = 1
    WalkGets = 2
    Latest = Latest
    None = None
INVARIANTS
    AnswersExact
    BatchOneBlock
    MonotonicReads
    CleanReadFits
    GatewayExact
PROPERTIES
    RecoversFromCollection
CHECK_DEADLOCK FALSE
