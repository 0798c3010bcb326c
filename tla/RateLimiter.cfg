SPECIFICATION Spec
CONSTANTS
    k1 = k1
    k2 = k2
    Keys = {k1, k2}
    Limit = 2
    Window = 2
    MaxTime = 6
    Nil = Nil
INVARIANTS
    SlidingBound
PROPERTIES
    CleanupUnseen
CHECK_DEADLOCK FALSE
