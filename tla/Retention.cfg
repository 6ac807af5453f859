SPECIFICATION FairSpec
CONSTANTS
    None = None
    Runs = {p, q}
    Names = {old}
    AuditDays = 1
    ActivityDays = 0
    BatchSize = 1
    Sessions = {s1}
    Skew = 0
    MaxNow = 2
    MaxEntries = 2
    MaxCrashes = 1
INVARIANTS
    WholeEntries
    DeletionsAreRecorded
PROPERTIES
    NothingGoesEarly
    ExpiredGoes
