SPECIFICATION Spec
CONSTANTS
    Tabs = {t1, t2}
    None = None
    Texts <- MCTexts
    MinLength = 2
    MaxLength = 3
    Methods = {"Bank", "ATM"}
    Prize = 1500
    LastDay = 1
    MaxSubmits = 2
    MaxLoads = 1
    MaxFaults = 1
    MaxUpsets = 1
INVARIANTS
    TypeOK
    ShownIsRecorded
    RefusedForCause
PROPERTIES
    TrackerNeverTurnsBack
    SettledIsShown
CHECK_DEADLOCK FALSE
