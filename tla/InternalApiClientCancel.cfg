SPECIFICATION FairSpec
CONSTANTS
    c1 = c1
    c2 = c2
    k1 = k1
    Nil = Nil
    Calls = {c1}
    Timed = {c1}
    Ops <- OnePut
    Keys = {k1}
    MaxRetries = 1
    BaseDelay = 3
    MaxDelay = 4
    Width = 4
PROPERTIES
    NoRetryAfterCancel
CHECK_DEADLOCK FALSE
