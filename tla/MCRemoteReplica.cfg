SPECIFICATION FairSpec
CONSTANTS
    Item = {m1}
    Value = {v1}
    Run = {}
    NONE = NONE
    SeenLimit = 2
    BufferLimit = 2
    MaxFailures = 1
    MaxEvents = 2
    MaxFaults = 2
    Emits <- SomeData
    Faults = {"drop", "skip", "repeat", "garble", "fail", "slow", "refresh"}
INVARIANTS
    TypeOK
    ShowsThePast
PROPERTY
    RecoveryEnds
CHECK_DEADLOCK FALSE
