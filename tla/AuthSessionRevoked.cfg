SPECIFICATION Spec
CONSTANTS
    r1 = r1
    r2 = r2
    r3 = r3
    t1 = t1
    t2 = t2
    t3 = t3
    u1 = u1
    u2 = u2
    Nil = Nil
    Requests = {r1, r2}
    Kinds = {"validate", "fresh"}
    Tokens = {t1}
    Users = {u1}
    MaxTime = 0
    MaxAge = 1
    IdleTimeout = 1
    IdentityCacheTTL = 1
    RoleCacheTTL = 1
    DenyRolesOnError = FALSE
    NilProviders = {}
    MaxCsrf = 0
    MaxVersion = 0
    MaxProvider = 0
INVARIANTS
    RevokedIsForgotten
SYMMETRY Symmetry
CHECK_DEADLOCK FALSE
