SPECIFICATION Spec
CONSTANTS
    r1 = r1
    r2 = r2
    Earlier = Earlier
    Absent = Absent
    Keys <- MCKeys
    Runs <- MCRuns
    Inputs <- MCInputs
INVARIANTS
    TypeOK
    UploadProgress
    NoMixWithFormer
    ExactWhenAlone
PROPERTIES
    ClearsAsPromised
CHECK_DEADLOCK FALSE
