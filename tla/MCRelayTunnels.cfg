SPECIFICATION MCSpec
CONSTANTS
    t1 = t1
    t2 = t2
    c = c
    NoDeadline = NoDeadline
    Absent = Absent
    Tokens = {t1, t2}
    Connections = {c}
    Conn <- ConnOf
    DeadlineOf <- Deadlines
    Exp <- Expiries
    KillDir = TRUE
    MaxNow = 3
    MaxPresents = 3
    MaxAsks = 1
    MaxDrops = 1
    MaxFails = 1
    Bastions = {b}
    Clients = {c1, c2, c3}
    SlowClosing = FALSE
    LateClock = TRUE
    MaxChanges = 3
    MaxFaults = 1
    MaxExpiries = 1
INVARIANTS
    TunnelsAndClientsAreTracked
PROPERTIES
    TerminateCloses
    TheListIsFollowed
CHECK_DEADLOCK FALSE
