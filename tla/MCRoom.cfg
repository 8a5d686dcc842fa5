SPECIFICATION LiveSpec
CONSTANTS
    p = p
    v = v
    far = far
    c1 = c1
    c2 = c2
    c3 = c3
    c4 = c4
    mic = mic
    cam = cam
    farMic = farMic
    farCam = farCam
    o1 = o1
    Users = {p, v}
    Conns = {c1, c2, c3, c4}
    Owner <- Owners
    Viewing = {c3}
    Plain = {mic, farMic}
    Streams = {cam, farCam}
    Src <- Sources
    Layers = {"f", "q"}
    Remote <- Tracks
    Observers = {o1}
    Appears <- Together
    Relay = relay
    None = none
    MaxPresenters = 1
    MaxViewers = 1
    MaxTracks = 1
INVARIANTS
    Fanout
    RecordedLayerIsSent
    NoOrphanConnection
PROPERTIES
    DeadConnectionEnds
CHECK_DEADLOCK FALSE
