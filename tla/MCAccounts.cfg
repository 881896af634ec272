SPECIFICATION Spec
CONSTANTS
    Browsers = {b1, b2}
    Handlers = {h1, h2}
    Google = Google
    None = None
    MaxWrong = 1
    MaxRetry = 1
    MaxCalls = 4
    MaxFaults = 2
SYMMETRY Symmetry
INVARIANTS
    TypeOK
    AccountIsProven
    WrongCodesBounded
    CodeIsOnItsWay
CHECK_DEADLOCK FALSE
