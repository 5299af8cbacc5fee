SPECIFICATION Spec
CONSTANTS
    Key = {k1, k2}
    Scope = {s1, s2}
    Account = {a1, a2}
    Owner = a1
    SessionsOf <- OneOwner
    Call = {c1, c2}
    Faults = {"reject"}
    Limit = 1
    MaxGeneration = 2
    NONE = NONE
SYMMETRY Symmetry
INVARIANTS
    TypeOK
    ReloadLosesNothing
    OpenIsRetained
    RefusedNeverRuns
    HandlesOfScope
CHECK_DEADLOCK FALSE
