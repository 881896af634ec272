SPECIFICATION Spec
CONSTANTS
    Users = {u1, u2}
    Handlers = {h1, h2}
    c1 = c1
    c2 = c2
    c3 = c3
    Codes <- MCCodes
    Length <- MCLength
    Prizes = {1000, 1500}
    LastDay = 1
    Nobody = Nobody
    NoRow = NoRow
    NoPayout = NoPayout
    MaxRequests = 4
    MaxFaults = 1
SYMMETRY HandlerSymmetry
INVARIANTS
    TypeOK
    WinnerGuessedIt
    SuccessIsTheWinner
    PaidOnlyToWinner
    NoClaimConflict
    AlertedOnce
    RedisAgrees
PROPERTY
    ChallengeSettled
CHECK_DEADLOCK FALSE
