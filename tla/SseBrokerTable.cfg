SPECIFICATION FairSpec
CONSTANTS
    c1 = c1
    c2 = c2
    c3 = c3
    s1 = s1
    s2 = s2
    s3 = s3
    u1 = u1
    u2 = u2
    p1 = p1
    p2 = p2
    home = home
    f1 = f1
    Clients = {c1, c2}
    Primary = {}
    ExternalId <- BorrowedPair
    Sessions = {s1, s2, s3}
    NoSession = NoSession
    Users = {u1, u2}
    NoUser = NoUser
    Grants <- OwnGrants
    Renames <- NoRenames
    Pages = {home}
    NoPage = NoPage
    Fragments = {f1}
    NoFilter = NoFilter
    FragmentsOn <- HomeShowsNothing
    Calls <- TableCalls
    Publishers = {p1}
    MaxEvents = 2
    MaxID = 2
    BufSize = 1
    Nil = Nil
INVARIANTS
    NoSendOnClosed
    UserScopedDelivery
    PerPublisherOrder
PROPERTIES
    EveryPublishReturns
    ImplementsTable
CHECK_DEADLOCK FALSE
