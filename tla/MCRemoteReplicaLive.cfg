SPECIFICATION FairSpec
CONSTANTS
    Item = {m1}
    Value = {v1}
    Run = {}
    NONE = NONE
    SeenLimit = 2
    BufferLimit = 8
    MaxFailures = 1
    MaxEvents = 2
    MaxFaults = 2
    Emits <- SomeData
    Faults = {"drop", "refresh", "repeat"}
PROPERTY
    CatchesUp
CHECK_DEADLOCK FALSE
