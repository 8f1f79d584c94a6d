CONSTANTS
    c1 = c1  c2 = c2
    u1 = u1  u2 = u2
    boss = boss
    s1 = s1
    Callers = {c1, c2}
    People = {u1, u2}
    Boss = boss
    Sites = {s1}
    PageSize = 1
    MaxRows = 3
    MaxClock = 2
SPECIFICATION SliceSpec
SYMMETRY Symmetry
INVARIANTS
    DanglingOnlyByLapse
    AccessFollowsAdding
    MissedOnlyByDeleteOrTie
CHECK_DEADLOCK FALSE
