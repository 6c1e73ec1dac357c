SPECIFICATION Spec
CONSTANTS
    r1 = r1
    r2 = r2
    r3 = r3
    r4 = r4
    Preexisting = Preexisting
    None = None
    Runs <- MCRuns
    Valid <- MCValid
INVARIANTS
    TypeOK
    OutputIsServedGateway
    NoRollback
PROPERTIES
    DeploysAsPromised
CHECK_DEADLOCK FALSE
