SPECIFICATION Spec
CONSTANTS
    ConLen = 3
    Faults <- NoFaults
PROPERTIES
    CleanRunSucceeds
