SPECIFICATION Spec
CONSTANTS
    Users = {u1, u2}
    Handlers = {h1, h2}
    c1 = c1
    c2 = c2
    c3 = c3
    Codes <- MCCodes
    Length <- MCLength
    Prizes = {1000}
    LastDay = 0
    Nobody = Nobody
    NoRow = NoRow
    NoPayout = NoPayout
    MaxRequests = 3
    MaxFaults = 0
INVARIANT
    AnnouncedIsSolved
CHECK_DEADLOCK FALSE
