SPECIFICATION MCSpec
CONSTANTS
    j1 = j1
    j2 = j2
    h1 = h1
    Jobs = {j1, j2}
    Hosts = {h1}
    Rotation = 7
    Staging = 2
    Back = 1
    RunEvery = 3
    RunTime = 1
    RefreshEvery = 1
    HostLifetime = 7
    MaxClock = 16
    Systems = {"linux", "macos", "windows"}
    Lines = {"PermitRootLogin no"}
    MaxKeys = 3
    MaxInvitations = 2
    FollowAdvice = FALSE
    r1 = r1
    r2 = r2
    r3 = r3
    Signings = {r1, r2, r3}
    SigningKeys = {"user", "host"}
    Nobody = Nobody
    MaxBatch = 2
    Attempts = 2
SYMMETRY JobSymmetry
INVARIANTS
    OneWindowAlwaysSigns
    UserSignersTrusted
    
    SerialsAreExact
