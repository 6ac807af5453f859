SPECIFICATION RegistrySpec
CONSTANTS
    Procs = {p, q, r}
    Urls = {a, b}
    Names = {x, y, z}
    Subcommands = {"login", "tui", "ssh", "accept", "ctx"}
    Nothing = Nothing
    MaxKeys = 3
SYMMETRY Alike
INVARIANTS
    RegistryIsSound
PROPERTIES
    KeysStayWithTheirTenant
CHECK_DEADLOCK FALSE
