\* One chain, two writers and a collector; MIN_AGE leaves time to commit.
SPECIFICATION Spec
CONSTANTS
    Objects = {a, b}
    Runs <- OneObjectRuns
    Chains = {chain}
    Writers = {w1, w2}
    Collectors = {g1}
    REFRESH_AFTER = 1
    MERGE_DEADLINE = 1
    MIN_AGE = 3
    KEEP_HEADS = 1
    PublishTime = 0
    CommitTime = 0
    Absent = Absent
    MaxTime = 3
    MaxCommits = 2
SYMMETRY Symmetry
INVARIANTS
    HeadObjectsKept
    HeadCopiesKept
PROPERTIES
    PassComplete
CHECK_DEADLOCK FALSE
