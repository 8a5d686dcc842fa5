SPECIFICATION LiveSpec
CONSTANTS
    host = host
    v = v
    east = east
    west = west
    Nodes = {1, 2, 3}
    Users = {host, v}
    Presenters = {host}
    MaxRooms = 2
    Hash = 0
    WebinarEdges = 1
    Situations <- Kept
    None = none
INVARIANTS
    OnlyPlacementRelays
    PresentersMeet
PROPERTIES
    StaysPlaced
    EdgeIsFed
CHECK_DEADLOCK FALSE
