\* Files with up to two faults.
SPECIFICATION Spec
CONSTANTS
    Plans <- MCPlans
    MaxFaults = 2
    MAX_U64 = 3
    GENESIS = 100
    None = None
INVARIANTS
    AcceptsPackages
    NothingLostUnnoticed
    PublishableRecords
CHECK_DEADLOCK FALSE
