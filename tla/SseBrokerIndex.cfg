SPECIFICATION Spec
CONSTANTS
    c1 = c1
    c2 = c2
    c3 = c3
    s1 = s1
    s2 = s2
    s3 = s3
    u1 = u1
    u2 = u2
    p1 = p1
    p2 = p2
    home = home
    f1 = f1
    Clients = {c1, c2, c3}
    Primary = {c1, c2}
    ExternalId <- BorrowedOne
    Sessions = {s1, s2}
    NoSession = NoSession
    Users = {u1, u2, NoUser}
    NoUser = NoUser
    Grants <- SharedGrants
    Renames <- AnyRename
    Pages = {}
    NoPage = NoPage
    Fragments = {}
    NoFilter = NoFilter
    FragmentsOn <- NoPages
    Calls <- NoCalls
    Publishers = {}
    MaxEvents = 0
    MaxID = 4
    BufSize = 1
    Nil = Nil
INVARIANTS
    SessionIndexExact
    UserIndexCovers
PROPERTIES
    NoIDReuse
SYMMETRY ClientSymmetry
CHECK_DEADLOCK FALSE
