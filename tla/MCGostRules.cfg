CONSTANTS
    r1 = r1  r2 = r2
    i1 = i1  i2 = i2
    p1 = p1  p2 = p2
    c1 = c1
    direct = direct  chain = chain
    d1 = d1
    None = None
    Requests = {r1, r2}
    RuleIds = {i1, i2}
    Ports = {p1, p2}
    ChainPorts = {c1}
    Vias = {direct, chain}
    Direct = direct
    TlsVias = {chain}
    Dsts = {d1}
    Asked <- TwoRows
    Tables <- OneRule
    Budgets <- Slices
SPECIFICATION FairSpec
INVARIANTS
    HalvesOnlyByFault
    ServedAsRecorded
PROPERTIES
    RelayEnds
CHECK_DEADLOCK FALSE
