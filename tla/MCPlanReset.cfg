CONSTANTS
    c1 = c1  c2 = c2
    u1 = u1  u2 = u2
    None = None
    Conns = {c1, c2}
    Users = {u1, u2}
    Customers = {u1}
    Days <- Dates
    Rates = {0, 2}
    Budgets <- Slices
    Plans <- TwoPlans
    Expirations <- Entered
    ChanCap = 2
SPECIFICATION FairSpec
INVARIANTS
    OverchargedOnlyByRetry
    LostOnlyByOverlap
    MischargedOnlyByLeftover
    DailyWithinTraffic
    PeriodFollowsReset
PROPERTIES
    ResetWithinExpiration
    ResetHappens
CHECK_DEADLOCK FALSE
