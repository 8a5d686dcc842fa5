SPECIFICATION Spec
CONSTANTS
    c1 = c1
    c2 = c2
    k1 = k1
    r1 = r1
    Clients = {c1, c2}
    Keys = {k1}
    KeyOf <- OneKey
    Rooms = {r1}
    MaxEvent = 2
    RoomOf <- OneRoom
    SendBuf = 1
    MaxDrops = 1
    ReplayLimit = 1
    MaxFaults = 0
SYMMETRY Tabs
INVARIANTS
    ReplayFillsGap
CHECK_DEADLOCK FALSE
