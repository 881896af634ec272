SPECIFICATION Spec
CONSTANTS
    AdCap = 1
    MaxClicks = 2
    MaxButtons = 4
    MaxFaults = 2
INVARIANTS
    TypeOK
    RewardIsReal
PROPERTIES
    BusyEnds
    GrantIsReported
CHECK_DEADLOCK FALSE
