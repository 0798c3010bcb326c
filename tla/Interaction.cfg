SPECIFICATION Spec
CONSTANTS
    q1 = q1
    q2 = q2
    t1 = t1
    t2 = t2
    Save = Save
    Gone = Gone
    Search = Search
    NoTab = NoTab
    NoAction = NoAction
    NoInput = NoInput
    Routes <- AllRoutes
    Param = "{id}"
    Numbers = {"7"}
    Fragments <- AllFragments
    PageContent = "page-content"
    Navbar = "navbar-content"
    Rank <- Ranks
    Components <- Registered
    Invalidates <- InvalidatesOf
    Dominates <- DominatesOf
    GlobalFragments = {"badge"}
    Tabs = {t1, t2}
    Requests = {q1, q2}
    Inputs <- AllInputs
    Paths <- AllPaths
    Actions = {Save, Search, Gone}
    Roles = {"staff"}
    Requires <- NeededRoles
    Known = {Save, Search}
    Registry = {Save, Search}
    Layout <- LayoutOf
    Custom = {"badge"}
    MaxSession = 1
    MaxDropped = 1
INVARIANTS
    TypeOK
    PlanCovers
    EveryTabRefreshed
    OnlyAllowed
SYMMETRY Symmetry
CHECK_DEADLOCK FALSE
