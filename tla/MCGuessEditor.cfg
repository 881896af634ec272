SPECIFICATION Spec
CONSTANTS
    d1 = d1
    x1 = x1
    Digits <- MCDigits
    OtherKeys <- MCOther
    Counts = {1, 3}
    Countdown = 2
    Null = Null
    Hole = Hole
    None = None
    MaxSubmits = 1
    MaxBlurs = 2
    MaxVisits = 2
    LastDay = 1
INVARIANTS
    TypeOK
    GuessFits
PROPERTIES
    GuessSurvivesLogin
    FrozenWhilePrompted
CHECK_DEADLOCK FALSE
