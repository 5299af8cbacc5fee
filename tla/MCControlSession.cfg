SPECIFICATION Spec
CONSTANTS
    Workspaces = {w1, w2}
    Sessions = {s1, s2}
    Calls = {c1, c2}
    NONE = NONE
    MaxOpen = 3
    MaxGeneration = 4
SYMMETRY Symmetry
INVARIANTS
    TypeOK
    OneOperation
    NoOrphans
    SelectedIsServed
    ListOfWorkspace
    OneRenewal
PROPERTIES
    RetryAfterRenewal
    Fenced
CHECK_DEADLOCK FALSE
