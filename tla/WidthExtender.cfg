SPECIFICATION FairSpec
CONSTANTS
    r1 = r1
    r2 = r2
    W = 3
    Readers <- TwoReaders
    MaxCount = 6
INVARIANTS
    ReadLinearizable
    TeardownCause
PROPERTIES
    CatchesUp
