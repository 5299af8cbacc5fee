SPECIFICATION FairSpec
CONSTANTS
    MaxRecordBytes = 6
    MaxRemembered = 1
    LineEnds <- AllLineEnds
    MaxFailures = 2
    MaxEvents = 2
    MaxFaults = 2
    Faults <- AllFaults
INVARIANTS
    TypeOK
    HandsCloudsMessages
    InOrder
    OneConnection
    OneNoticePerLoss
    FallsBack
PROPERTIES
    SilentAfterStop
    CatchesUp
CHECK_DEADLOCK FALSE
