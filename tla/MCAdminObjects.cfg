SPECIFICATION ObjectsSpec
CONSTANTS
    t1 = t1
    t2 = t2
    root = root
    i1 = i1
    i2 = i2
    hub = hub
    ra = ra
    rb = rb
    base = base
    fence = fence
    Null = Null
    Requests = {r1, r2}
    Tags = {t1, t2}
    Identities = {root, i1, i2}
    Bastions = {hub}
    RoleIds = {ra, rb}
    Boundaries = {base, fence}
    Founding = root
    Ops <- SomeOps
    StartRows <- Start
    MaxRequests = 4
SYMMETRY Symmetry
INVARIANTS
    NothingDangles
PROPERTIES
    ChangesAreEditsAndAudited
CHECK_DEADLOCK FALSE
