SPECIFICATION FairSpec
CONSTANTS
    InputSets <- TwoInputs
    IN_FLIGHT = 2
    PAGE = 2
    READ_AHEAD = 2
INVARIANTS
    OkComplete
    BuilderOrdered
    PagesFetchedOnce
PROPERTIES
    MergeReturns
CHECK_DEADLOCK FALSE
