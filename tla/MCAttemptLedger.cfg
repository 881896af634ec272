SPECIFICATION Spec
CONSTANTS
    Accounts = {k1}
    Handlers = {h1, h2, h3}
    Absent = Absent
    FreeAttempts = 2
    DailyAdLimit = 1
    MaxRequests = 5
    MaxFaults = 1
    MaxRestarts = 1
SYMMETRY HandlerSymmetry
INVARIANTS
    TypeOK
    AdCap
    GuessBound
    NeverTurnedAwayEarly
    ExactLedger
    SeedsAreConcurrent
CHECK_DEADLOCK FALSE
