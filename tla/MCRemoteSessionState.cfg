SPECIFICATION Spec
CONSTANTS
    Item = {m1, m2}
    Value = {v1, v2}
    Run = {r1, r2}
    NONE = NONE
    SeenLimit = 1
    MaxSequence = 3
SYMMETRY Symmetry
INVARIANTS
    TypeOK
    OrderListsItems
    FollowsSession
