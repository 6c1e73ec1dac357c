SPECIFICATION Spec
CONSTANTS
    r1 = r1
    r2 = r2
    Preexisting = Preexisting
    Foreign = Foreign
    None = None
    Runs <- MCRuns
    Inputs <- MCInputs
INVARIANTS
    LooksUpCreatedVM
CHECK_DEADLOCK FALSE
