SPECIFICATION MCSpec
CONSTANTS
    shell = shell
    script = script
    c1 = c1
    c2 = c2
    None = None
    Processes = {shell, script}
    Line <- MCLine
    Launchers = {script}
    Logons <- MCLogons
    Mortal = {shell}
    Contexts = {"work"}
    Commands = {c1, c2}
    Keys = {1, 2}
    TTL = 1
    MaxAncestors = 2
    Platforms = {"posix", "windows"}
    MaxClock = 1
    Calls = {"a", "b"}
    MaxSessions = 3
    MaxRestarts = 1
    NoSession = NoSession
INVARIANTS
    LatestSessionCounts
PROPERTIES
    
    LoginGetsItsName
CHECK_DEADLOCK FALSE
