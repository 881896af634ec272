SPECIFICATION Spec
CONSTANTS
    Accounts = {k1}
    Handlers = {h1, h2}
    Absent = Absent
    FreeAttempts = 5
    DailyAdLimit = 3
    MaxRequests = 8
    MaxFaults = 0
    MaxRestarts = 0
PROPERTY
    RewardUsable
CHECK_DEADLOCK FALSE
