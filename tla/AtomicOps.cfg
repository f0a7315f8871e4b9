SPECIFICATION FairSpec
CONSTANTS
    t1 = t1
    t2 = t2
    Threads <- TwoThreads
    M = 4
    Args <- SomeArgs
INVARIANT
    TypeOK
PROPERTIES
    ImplementsCell
    ExchangeLockFree
