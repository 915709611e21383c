\* Two writers that share objects, a kill and a power failure.
SPECIFICATION Spec
CONSTANTS
    Objects = {a, b}
    Directories = {a, b}
    DirectoryOf <- OwnDirectory
    Writers = {w1, w2}
    Nobody = Nobody
    MaxVersion = 2
    MaxFailures = 2
SYMMETRY WriterSymmetry
INVARIANTS
    HeadObjectsDurableOrTrusted
    NoTornObject
    AckedHeadSurvives
PROPERTIES
    SwapsLinear
CHECK_DEADLOCK FALSE
