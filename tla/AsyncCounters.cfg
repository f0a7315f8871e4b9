SPECIFICATION FairSpec
CONSTANTS
    r1 = r1
    r2 = r2
    NumCores = 2
    NumSockets = 1
    Readers <- TwoReaders
    MaxNow = 3
INVARIANTS
    SnapshotPair
    NoNegative
    NoBlankStart
    IntervalsOverlap
    TouchCause
PROPERTIES
    GetReturns
