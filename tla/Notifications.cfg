SPECIFICATION Spec
CONSTANTS
    r1 = r1
    r2 = r2
    r3 = r3
    u1 = u1
    u2 = u2
    w1 = w1
    Nil = Nil
    Users = {u1, u2}
    Requests = {r1, r2, r3}
    Inputs <- AllInputs
    MaxRows = 3
    Walks = {w1}
    Limits = {0, 2}
    DefaultLimit = 20
    MaxLimit = 100
INVARIANTS
    TypeOK
    ReadOnce
    TrueCountReported
PROPERTIES
    WalkComplete
SYMMETRY Symmetry
CHECK_DEADLOCK FALSE
