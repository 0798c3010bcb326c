SPECIFICATION MCSpec
CONSTANTS
    r1 = r1
    r2 = r2
    r3 = r3
    t1 = t1
    t2 = t2
    t3 = t3
    u1 = u1
    u2 = u2
    Nil = Nil
    Requests = {r1, r2}
    Kinds = {"validate", "fresh", "ensure", "refresh"}
    Tokens = {t1, t2}
    Users = {u1}
    MaxTime = 2
    MaxAge = 2
    IdleTimeout = 2
    IdentityCacheTTL = 1
    RoleCacheTTL = 1
    DenyRolesOnError = TRUE
    NilProviders = {1}
    MaxCsrf = 1
    MaxVersion = 1
    MaxProvider = 2
INVARIANTS
    TypeOK
    UserSessionsExact
    OneValidation
    FollowersAreLed
    EndedSessionsExpire
    FreshSeesTheEnd
    StaleRolesExpire
SYMMETRY Symmetry
CHECK_DEADLOCK FALSE
