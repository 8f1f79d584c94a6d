CONSTANTS
    r1 = r1  r2 = r2
    p1 = p1  p2 = p2  p3 = p3
    direct = direct
    d1 = d1
    ip4 = ip4  ip6 = ip6
    k1 = k1  k2 = k2
    h1 = h1  h2 = h2
    None = None
    Requests = {r1, r2}
    Ports = {p1, p2, p3}
    Vias = {direct}
    Direct = direct
    Dsts = {d1}
    Ips = {ip4, ip6}
    RuleIds = {k1, k2}
    ChainIds = {h1, h2}
    Ops <- RowOps
    Lossy = TRUE
    MaxCrashes = 1
SPECIFICATION Spec
CONSTRAINT InSlice
SYMMETRY Symmetry
INVARIANTS
    NoStrayListener
    EveryRowServed
    SharedOnlyByFault
