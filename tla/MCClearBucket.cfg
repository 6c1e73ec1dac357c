SPECIFICATION Spec
CONSTANTS
    Keys <- MCKeys
    MaxKeys = 2
INVARIANTS
    TypeOK
    SweptInv
    PassesAreEarned
PROPERTIES
    KeepsPromise
CHECK_DEADLOCK FALSE
