SPECIFICATION Spec
CONSTANTS
    Keys = {1, 2, 3, 4}
    group <- TwoGroups
    route <- Routes
    spill <- Spills
    SHARD_KEYS = 2
    MIN_SHARD_KEYS = 1
    HEAVY_GROUP = 2
    MaxBlock = 3
INVARIANTS
    NoFalseNegative
CHECK_DEADLOCK FALSE
