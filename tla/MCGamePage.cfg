SPECIFICATION Spec
CONSTANTS
    Allowance = 1
    None = None
    MaxGuesses = 2
    MaxAds = 1
    MaxLoads = 1
    MaxUpsets = 1
    LastDay = 1
INVARIANTS
    TypeOK
    
    RefusedOncePerRead
    WinnerKeepsPrize
PROPERTY
    LateGuesserSees
CHECK_DEADLOCK FALSE
