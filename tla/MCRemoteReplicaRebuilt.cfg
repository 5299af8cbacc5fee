SPECIFICATION FairSpec
CONSTANTS
    Item = {m1}
    Value = {v1}
    Run = {}
    NONE = NONE
    SeenLimit = 2
    BufferLimit = 8
    MaxFailures = 1
    MaxEvents = 2
    MaxFaults = 1
    Emits <- SomeData
    Faults = {"close"}
PROPERTY
    Rebuilt
CHECK_DEADLOCK FALSE
