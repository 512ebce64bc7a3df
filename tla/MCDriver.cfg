SPECIFICATION Spec
CONSTANTS
    Target <- MCTarget
    MaxFiles = 3
    MaxTargets = 3
    MaxSignals = 2
INVARIANTS
    ExitStatus
    InOrder
PROPERTIES
    Terminates
CHECK_DEADLOCK FALSE
