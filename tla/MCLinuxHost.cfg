SPECIFICATION HostSpec
CONSTANTS
    s1 = s1
    s2 = s2
    NoId = NoId
    None = None
    Sessions = {s1, NoId}
    Deadline = 1
    HookTime = 1
    KillTTL = 2
    LogindMayFail = TRUE
    MaxAge = 1
    MaxRequests = 1
    MaxFailures = 1
    MaxClock = 3
INVARIANTS
    
    RegistryFollowsTheHost
PROPERTIES
    GivenUpOnlyForNobody
CHECK_DEADLOCK FALSE
