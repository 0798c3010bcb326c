SPECIFICATION FairSpec
CONSTANTS
    c1 = c1
    c2 = c2
    k1 = k1
    Nil = Nil
    Calls = {c1, c2}
    Timed = {c1}
    Ops <- EveryKind
    Keys = {k1}
    MaxRetries = 3
    BaseDelay = 3
    MaxDelay = 4
    Width = 4
INVARIANTS
    TypeOK
    AppliedOnce
    AnswerIsTrue
    SleepsDouble
PROPERTIES
    EveryCallReturns
CHECK_DEADLOCK FALSE
