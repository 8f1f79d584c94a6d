CONSTANTS
    p1 = p1
    c1 = c1  c2 = c2
    None = None
    Peers = {p1}
    Conns = {c1, c2}
    Modes = {"chain", "header"}
    Backlog = 1
    QueueSize = 1
    MaxRefused = 1
SPECIFICATION FairListenerSpec
INVARIANTS
    EntriesServed
PROPERTIES
    IdleConnsClose
    ClosePortEnds
CHECK_DEADLOCK FALSE
