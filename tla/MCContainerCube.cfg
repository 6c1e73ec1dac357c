SPECIFICATION CubeSpec
CONSTANTS
    Word = Word
    Blank = Blank
    Unset = Unset
    Junk = Junk
    Width = 8
    MB = 4
    GB = 8
    Environs <- MCEnvirons
    Nothing = Nothing
    Garbled = Garbled
    CutPoints = {1, 2}
    Capital <- MCCapital
    Workflows <- MCWorkflows
    Scenarios <- MCScenarios
INVARIANTS
    CubeTypeOK
    RefusedUnlessUnderstood
    RequestAsAsked
    ReadAsSet
CHECK_DEADLOCK FALSE
