SPECIFICATION Spec
CONSTANTS
    rec1 = rec1
    rec2 = rec2
    server = server
    extra = extra
    cleaner1 = cleaner1
    cleaner2 = cleaner2
    Recordings = {rec1}
    Workers = {server, extra}
    ServerWorkers = {server}
    Cleaners = {cleaner1}
    NumArtifacts = 2
    MaxAttempts = 2
    MaxFaults = 0
PROPERTY MovesForward
CHECK_DEADLOCK FALSE
