SPECIFICATION Spec
CONSTANTS
    Item = {m1}
    Value = {v1}
    Run = {}
    NONE = NONE
    SeenLimit = 2
    BufferLimit = 8
    MaxFailures = 1
    MaxEvents = 2
    MaxFaults = 3
    Emits <- SomeData
    Faults = {"drop", "close", "fail", "slow", "poll", "refresh", "other"}
INVARIANT
    NothingLost
PROPERTY
    KeepsPromise
CHECK_DEADLOCK FALSE
