SPECIFICATION Spec
CONSTANTS
    i1 = i1
    v1 = v1
    v2 = v2
    k1 = k1
    k2 = k2
    s1 = s1
    s2 = s2
    s3 = s3
    ra = ra
    rb = rb
    tok = tok
    None = None
    Requests = {r1, r2, r3}
    Identities = {i1}
    Invitations = {v1, v2}
    Keys = {k1, k2, s1, s2, s3}
    Roles = {ra, rb}
    Tokens = {tok}
    Ops <- SomeOps
    StartRows <- Start
SYMMETRY Symmetry
INVARIANTS
    ProofsCountOnce
PROPERTIES
    SessionsOnlyNarrow
CHECK_DEADLOCK FALSE
