SPECIFICATION Spec
CONSTANTS
    r1 = r1
    r2 = r2
    c1 = c1
    c2 = c2
    NoSha = NoSha
    Preexisting = Preexisting
    None = None
    Runs <- MCRuns
    Commits <- MCCommits
    Inputs <- MCInputs
INVARIANTS
    TypeOK
    CodeOfSameCommit
    OutputsTruthful
PROPERTIES
    DeploysAsPromised
CHECK_DEADLOCK FALSE
