SPECIFICATION Spec
CONSTANTS
    c1 = c1
    c2 = c2
    p1 = p1
    NoDeadline = NoDeadline
    Nobody = Nobody
    Conns = {c1, c2}
    Pids = {p1}
    Deadlines = {1}
    ReuseAfter = 1
    PsMayFail = FALSE
    MaxDisturbances = 1
    MaxClock = 6
    Grace = 1
    KillTTL = 2
SYMMETRY Sym
INVARIANTS
    EndsOnTime
    OnlySessionsEnd
PROPERTIES
    RecordsAndRequestsStay
CHECK_DEADLOCK FALSE
