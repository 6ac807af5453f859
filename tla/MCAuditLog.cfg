SPECIFICATION MCSpec
CONSTANTS
    Requests = {r1, r2}
    Readers = {rd}
    Rows = {rowA, rowB}
    NoOne = NoOne
    MaxWrites = 2
    MaxLimit = 2
    root = root
    sub = sub
    n1 = n1
    n2 = n2
    None = None
    TenantIds = {root, sub}
    Root = root
    TenantRequests = {1, 2, 3}
    Ops <- TenantOps
    First = "first"
    Starts <- MCStarts
    PoolSize = 2
    Backends = {"file", "server"}
    MaxFaults = 1
    MaxSplits = 0
INVARIANTS
    NoHoles
    ReadersMissNothing
    AllOrNothing
    TenantsAndLogsAgree
PROPERTIES
    EveryRequestEnds
    ImplementsTrail
CHECK_DEADLOCK FALSE
