SPECIFICATION Spec
CONSTANTS
    a1 = a1
    a2 = a2
    a3 = a3
    n1 = n1
    n2 = n2
    Word = Word
    Blank = Blank
    None = None
    Accounts <- MCAccounts
    Names <- MCNames
    Inputs <- MCInputs
INVARIANTS
    TypeOK
    TargetsHaveAccounts
    AccountsAsGiven
    InvokedAsFunction
    SecretsComplete
CHECK_DEADLOCK FALSE
