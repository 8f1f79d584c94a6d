CONSTANTS
    t1 = t1  t2 = t2
    p1 = p1
    c1 = c1  c2 = c2  c3 = c3
    u1 = u1  u2 = u2
    None = None
    Threads = {t1, t2}
    Ports = {p1}
    Conns = {c1, c2, c3}
    Udps = {u1, u2}
    EnableUdp = TRUE
    Serial = FALSE
SPECIFICATION Spec
VIEW View
SYMMETRY Symmetry
INVARIANTS
    UdpOrphanOnlyByRace
    SpinOnlyByOverlap
    TcpOrphanOnlyByTwinDelete
PROPERTIES
    DeletedPortIsFree
    StoreNeverReplaces
