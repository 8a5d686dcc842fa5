SPECIFICATION LiveSpec
CONSTANTS
    Events = {e1, e2}
    Workers = {w1, w2}
    MaxAttempts = 2
    BatchSize = 2
    MaxFaults = 1
INVARIANTS
    LeaseExclusive
    SentWasClaimed
PROPERTIES
    ImplementsQueue
    EventuallySettled
CHECK_DEADLOCK FALSE
