SPECIFICATION Spec
CONSTANTS
    ConLen = 3
    Faults <- OnlySegment
INVARIANT
    ConDataIntact
CHECK_DEADLOCK FALSE
