CONSTANTS
    MaxUp = 2
    MaxDown = 1
    Paths <- AllPaths
    a1 = a1  a2 = a2
    torn = torn
    g1 = g1  g2 = g2
    nobody = nobody
    Clients = {a1, a2}
    Torn = torn
    Calls = {g1, g2}
    Nobody = nobody
    q1 = q1  q2 = q2
    RulePorts = {q1, q2}
    Metered <- Served
    MaxBytes = 2
    MaxStops = 1
SPECIFICATION PathSpec
INVARIANTS
    InOrder
    NothingLost
    DeliveredIsCharged
    AnsweredOnlyByRace
    HeaderRoundTrip
    ObservedUnlessFault
PROPERTIES
    ConnectionsEnd
CHECK_DEADLOCK FALSE
