SPECIFICATION MCSpec
CONSTANTS
    alice = alice
    root = root
    mallory = mallory
    ls = ls
    cat = cat
    shell = shell
    pty = pty
    Self = Self
    None = None
    Unbounded = Unbounded
    Denied = Denied
    Users = {alice, root}
    UnixUsername = alice
    Commands = {ls, cat}
    Capabilities = {shell, pty}
    Shell = shell
    Permissions <- AllEntries
    BoundaryCount = 1
    MaxEntries = 3
    ann = ann
    bob = bob
    i1 = i1
    i2 = i2
    ra = ra
    t1 = t1
    Admins = {ann, bob}
    Active = {ann}
    Bounded = {bob}
    Account <- OneAccount
    Tools <- EditTools
    Identities = {i1, i2}
    Roles = {ra}
    Tags = {t1}
    Names = {"one", "two 2"}
    Spaced = {"two 2"}
    Stem = "two"
    Axis = {ls}
    StartNames <- EditNames
    StartLists <- EditLists
    Typed <- OnStdin
    NewTypes = {"tag"}
    Null = Null
    MaxEdits = 2
    MaxWrites = 2
INVARIANTS
    ChecksAreExact
    
PROPERTIES
    SavesAreTheEdit
CHECK_DEADLOCK FALSE
