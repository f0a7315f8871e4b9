SPECIFICATION Spec
CONSTANTS
    ConLen = 3
    Faults <- AllFaults
INVARIANTS
    SendMeetsReceive
    ShownRight
    CqFits
    CompletionMatches
    BufferQuiet
    NoMutualWait
    Agreement
    AbortCause
PROPERTIES
    EndsOrHangs
    ImplementsBarrier
CHECK_DEADLOCK FALSE
