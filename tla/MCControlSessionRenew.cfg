SPECIFICATION Spec
CONSTANTS
    Workspaces = {w1, w2}
    Sessions = {s1, s2}
    Calls = {c1, c2}
    NONE = NONE
    MaxOpen = 5
    MaxGeneration = 3
SYMMETRY Symmetry
INVARIANT
    OfferedRenewalRenews
CHECK_DEADLOCK FALSE
