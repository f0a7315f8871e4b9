SPECIFICATION Spec
CONSTANTS
    LineCells = 2
    CacheCells <- SmallCaches
    Size = 96
    WarmUpRound = 2
    Iters <- SomeIters
    L4Factor = 2
    M = 65536
INVARIANTS
    WalkOnPattern
    WarmUpTouchesAll
    CrashCause
