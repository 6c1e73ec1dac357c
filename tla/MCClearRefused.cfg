SPECIFICATION Spec
CONSTANTS
    Keys <- MCKeys
    MaxKeys = 2
INVARIANTS
    SuccessMeansCleared
CHECK_DEADLOCK FALSE
