SPECIFICATION Spec
CONSTANTS
    ConLen = 3
    Faults <- OnlyCreate
PROPERTY
    FailureEndsBoth
CHECK_DEADLOCK FALSE
