SPECIFICATION Spec
CONSTANTS
    Tabs = {t1}
    Methods = {"Bank"}
    None = None
    Texts <- MCTexts
    MinLength = 2
    MaxLength = 3
    Prize = 1000
    LastDay = 1
    MaxSubmits = 1
    MaxLoads = 1
    MaxFaults = 0
    MaxUpsets = 1
PROPERTY
    DecisionIsReflected
CHECK_DEADLOCK FALSE
