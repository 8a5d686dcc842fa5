SPECIFICATION ChatSpec
CONSTANTS
    m1 = m1
    m2 = m2
    g1 = g1
    f1 = f1
    c1 = c1
    c2 = c2
    a = a
    b = b
    w1 = w1
    w2 = w2
    guest = guest
    key = key
    reader = reader
    Messages = {m1, m2, g1}
    Files = {f1}
    Channels = {c1, c2}
    Parent <- Parents
    Workers = {w1, w2}
    MaxAttempts = 2
    MaxResets = 1
    MaxFaults = 2
    None = none
    Users = {a, b}
    Guest = guest
    Author <- Authors
    Key <- Keys
    Procs = {1, 2}
    MaxVersions = 2
    Appears <- Together
    MessageIds = {1, 2, 3, 4}
    Readers = {reader}
    Asked <- AskedLimits
    DefaultLimit = 2
    MaxLimit = 3
INVARIANTS
    PagesCoverHistory
    JobTellsRow
    EventsTellRows
    FilesAgree
PROPERTIES
    IndexSettles
CHECK_DEADLOCK FALSE
