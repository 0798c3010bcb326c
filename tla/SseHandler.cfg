SPECIFICATION FairSpec
CONSTANTS
    b1 = b1
    b2 = b2
    N = 3
    Brokers = {b1, b2}
    BrokerOf <- OneOfThree
    DomBroker = b1
    BufSize = 2
    MaxEvents <- TwoAndOne
    HasReferer = TRUE
    Heartbeat = TRUE
INVARIANTS
    InOrder
    NothingLeft
    HooksPaired
PROPERTIES
    PageNotRegressed
    TornDown
    EventuallyWritten
CHECK_DEADLOCK FALSE
