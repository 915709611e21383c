\* A publisher beside two compactors that plan the same merges, all of them fair.
\* The archive starts with ten packages, four in level 0 and six in level 1.
SPECIFICATION GrownSpec
CONSTANTS
    L0_TRIGGER = 2
    MAX_L0_BACKLOG = 3
    FANOUT = 3
    MAX_LEVELS = 2
    CAS_ATTEMPTS = 2
    MaxFaults = 1
    LastBlock = 18
    Compactions = 5
    Packages <- Chain
    Publishers = {w1}
    Compactors = {c1, c2}
    Hashes <- MCHashes
    Inputs <- MCInputs
    None = None
INVARIANTS
    CompactionPossible
    CascadeIsLoop
PROPERTIES
    PublishReturns
    EventuallyPublished
