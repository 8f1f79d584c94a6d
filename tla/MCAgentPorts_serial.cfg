CONSTANTS
    t1 = t1  t2 = t2
    p1 = p1  p2 = p2
    c1 = c1  c2 = c2  c3 = c3
    u1 = u1
    None = None
    Threads = {t1, t2}
    Ports = {p1, p2}
    Conns = {c1, c2, c3}
    Udps = {u1}
    EnableUdp = FALSE
    Serial = TRUE
SPECIFICATION FairSpec
PROPERTIES
    RequestsReturn
    ImplementsRegistry
