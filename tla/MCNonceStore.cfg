SPECIFICATION MCSpec
CONSTANTS
    n1 = n1
    n2 = n2
    Nonces <- TwoNonces
    Signatures <- ThreeSignatures
    Threads = {t1, t2}
    Window = 2
    Skew = 1
    StartClock = 1
    MaxClock = 5
    i1 = i1
    i2 = i2
    Issuers <- TwoIssuers
    Leavers <- OneLeaver
    Keys <- TenantKeys
    Grace = 0
    Ttl = 2
    Lifespan = 4
    MinForced = 3
    None = None
    MaxDelay = 1
    MaxDate = 6
    MaxFails = 1
    MaxIssuers = 1
    MaxEntries = 2
    Callers = {"get", "report"}
    Managed = {"report"}
    MaxSignatures = 3
    MaxFaults = 2
SYMMETRY Alike
INVARIANTS
    RejectsOnlyReplays
    KeysAreFound
    CallsAreExact
PROPERTIES
    AcceptedOnceWhileFresh
    RestartReplayIsNarrow
