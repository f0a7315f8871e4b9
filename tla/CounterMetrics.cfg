SPECIFICATION Spec
CONSTANTS
    c1 = c1
    c2 = c2
    c3 = c3
    s1 = s1
    s2 = s2
    Cores <- ThreeCores
    Sockets <- TwoSockets
    SocketOf <- Places
    MayDo <- SomeActivities
    Models <- SomeModels
    NominalFrequency = 1
    LinkSpeed = 72
    LinkFlits = 9
    ThreadsPerCore = 1
    MaxTicks = 2
    Modulus = 10000
INVARIANTS
    MetricsExact
    RatiosInRange
    LinksBalance
