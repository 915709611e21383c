\* Two publishers with rival packages, a compactor, lost answers and crashes.
SPECIFICATION Spec
CONSTANTS
    L0_TRIGGER = 2
    MAX_L0_BACKLOG = 3
    FANOUT = 2
    MAX_LEVELS = 2
    CAS_ATTEMPTS = 2
    MaxFaults = 2
    LastBlock = 4
    Compactions = 0
    Packages <- ChainAndRivals
    Publishers = {w1, w2}
    Compactors = {c1}
    Hashes <- MCHashes
    Inputs <- MCInputs
    None = None
SYMMETRY Symmetry
INVARIANTS
    HeadDecodes
    HeadDurable
    RunsPartitionHistory
    ChainLinked
    AckedArchived
PROPERTIES
    HeadAdvances
    ImplementsHistory
