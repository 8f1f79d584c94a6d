CONSTANTS
    p1 = p1
    s1 = s1  s2 = s2
    None = None
    Peers = {p1}
    Sessions = {s1, s2}
    Kinds = {"forwarder", "proxy"}
SPECIFICATION FairSpec
INVARIANTS
    LostOnlyByEviction
    EntriesOpen
    CloseLeavesNone
PROPERTIES
    CloseReturns
    SilentPeersGo
CHECK_DEADLOCK FALSE
