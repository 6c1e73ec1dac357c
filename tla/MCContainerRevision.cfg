SPECIFICATION Spec
CONSTANTS
    r1 = r1
    r2 = r2
    Preexisting = Preexisting
    Elsewhere = Elsewhere
    Stranger = Stranger
    None = None
    Runs <- MCRuns
    Inputs <- MCInputs
INVARIANTS
    RequestNamesContainer
CHECK_DEADLOCK FALSE
