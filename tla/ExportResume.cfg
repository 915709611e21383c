\* Every life of one account over three blocks, with kills and restarts.
SPECIFICATION Spec
CONSTANTS
    Accounts = {a1}
    Slots = {s1}
    Values = {1}
    Codes = {c1}
    EmptyCode = EmptyCode
    NoCode = NoCode
    Epoch = 2
    MaxBlock = 3
    Lasts = {1, 3}
    MaxCrashes = 2
    NoRow = NoRow
INVARIANTS
    StorageExact
    CodeExact
    JournalExact
    RestartGetsThrough
CHECK_DEADLOCK FALSE
