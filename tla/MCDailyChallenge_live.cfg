SPECIFICATION Spec
CONSTANTS
    Users = {u1, u2}
    Handlers = {h1, h2}
    c1 = c1
    c2 = c2
    c3 = c3
    Codes <- MCCodes
    Length <- MCLength
    Prizes = {1000}
    LastDay = 0
    Nobody = Nobody
    NoRow = NoRow
    NoPayout = NoPayout
    MaxRequests = 4
    MaxFaults = 1
PROPERTIES
    RequestsAnswered
    AnnouncedGetsSolved
    ImplementsPrizeAward
CHECK_DEADLOCK FALSE
