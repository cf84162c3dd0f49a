SPECIFICATION Spec
CONSTANTS
    app1 = app1
    app2 = app2
    e1 = e1
    e2 = e2
    e3 = e3
    e4 = e4
    e5 = e5
    NoEvent = NoEvent
    Writers = {app2}
    Events = {e1, e2, e3, e4, e5}
    Faults = {"skip", "tear", "misread"}
SYMMETRY EventSymmetry
INVARIANTS
    TypeOK
    ChainVerifies
    RestartsAfterTear
    LossBounded
CHECK_DEADLOCK FALSE
