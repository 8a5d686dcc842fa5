SPECIFICATION LiveSpec
CONSTANTS
    rec1 = rec1
    rec2 = rec2
    server = server
    extra = extra
    cleaner1 = cleaner1
    cleaner2 = cleaner2
    Recordings = {rec1}
    Workers = {server}
    ServerWorkers = {server}
    Cleaners = {cleaner1, cleaner2}
    NumArtifacts = 2
    MaxAttempts = 2
    MaxFaults = 2
INVARIANTS
    MediaIsKept
    HoldKeepsRecording
PROPERTIES
    OutcomeIsFinal
    RoomCloseEndsRecording
    ProcessingSettles
CHECK_DEADLOCK FALSE
