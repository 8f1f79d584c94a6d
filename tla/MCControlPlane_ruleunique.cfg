CONSTANTS
    r1 = r1
    p1 = p1  p2 = p2
    direct = direct
    d1 = d1
    ip4 = ip4
    k1 = k1  k2 = k2
    None = None
    Requests = {r1}
    Ports = {p1, p2}
    Vias = {direct}
    Direct = direct
    Dsts = {d1}
    Ips = {ip4}
    RuleIds = {k1, k2}
    ChainIds = {}
    Ops <- RuleOps
    Lossy = FALSE
    MaxCrashes = 0
SPECIFICATION Spec
SYMMETRY Symmetry
INVARIANTS
    RuleUnique
