CONSTANTS
    r1 = r1
    p1 = p1  p2 = p2
    direct = direct  v1 = v1
    d1 = d1
    ip4 = ip4
    k1 = k1  k2 = k2
    h1 = h1
    None = None
    Requests = {r1}
    Ports = {p1, p2}
    Vias = {direct, v1}
    Direct = direct
    Dsts = {d1}
    Ips = {ip4}
    RuleIds = {k1, k2}
    ChainIds = {h1}
    Ops <- AllOps
    Lossy = FALSE
    MaxCrashes = 1
SPECIFICATION FairSpec
INVARIANTS
    ServedAsRecorded
PROPERTIES
    RestartsUnlessShared
CHECK_DEADLOCK FALSE
