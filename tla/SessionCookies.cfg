SPECIFICATION Spec
CONSTANTS
    a = a
    b = b
    t1 = t1
    t2 = t2
    t3 = t3
    x1 = x1
    x2 = x2
    x3 = x3
    Nil = Nil
    Tabs = {a, b}
    Tokens = {t1, t2, t3}
    CsrfTokens = {x1, x2}
INVARIANTS
    TypeOK
    KnownWhenHandled
    OnlyDeniedGivenUp
PROPERTIES
    CsrfSurvives
SYMMETRY Symmetry
CHECK_DEADLOCK FALSE
