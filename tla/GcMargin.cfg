\* The code's proportions, in half hours: re-stamp after 2, deadline 4, delete at 6.
SPECIFICATION Spec
CONSTANTS
    Objects = {a, b}
    Runs <- OneObjectRuns
    Chains = {chain}
    Writers = {w1}
    Collectors = {g1}
    REFRESH_AFTER = 2
    MERGE_DEADLINE = 4
    MIN_AGE = 6
    KEEP_HEADS = 0
    PublishTime = 1
    CommitTime = 1
    Absent = Absent
    MaxTime = 8
    MaxCommits = 2
SYMMETRY Symmetry
INVARIANTS
    HeadObjectsKept
CHECK_DEADLOCK FALSE
