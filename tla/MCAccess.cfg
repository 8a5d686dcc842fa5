SPECIFICATION LiveSpec
CONSTANTS
    u = u
    s1 = s1
    s2 = s2
    s3 = s3
    w1 = w1
    w2 = w2
    v = v
    ev = ev
    Users = {u}
    Ids = {s1, s2, s3}
    Owner <- Owners
    Procs = {1, 2}
    MaxSessions = 1
    MaxTokens = 3
    Appears <- Together
    None = none
    Workspaces = {w1, w2}
    Tabs <- MCTabs
    Viewers = {v}
    Evictor = ev
INVARIANTS
    SessionCap
    ListedCanRefresh
    EvictionFindsAll
    SavedIsShown
PROPERTIES
    OnlineIsShown
CHECK_DEADLOCK FALSE
