SPECIFICATION LiveSpec
CONSTANTS
    c1 = c1
    c2 = c2
    k1 = k1
    r1 = r1
    Clients = {c1}
    Keys = {k1}
    KeyOf <- OneKey
    Rooms = {r1}
    MaxEvent = 2
    RoomOf <- OneRoom
    SendBuf = 2
    MaxDrops = 2
    ReplayLimit = 1
    MaxFaults = 1
INVARIANTS
    RoomsAreLive
    SlowClientEvicted
    NoGapAfterRestore
PROPERTIES
    RemovedConnectionEnds
CHECK_DEADLOCK FALSE
