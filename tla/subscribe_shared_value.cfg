CONSTANTS
    p1 = p1
    p2 = p2
    ns1 = ns1
    t1 = t1
    t2 = t2
    Publishers = {p1}
    Namespaces = {ns1}
    Topics = {t1, t2}
    Messages = {1, 2}
    MaxPublishes = 2
    MaxInFlight = 2
    Oversize = {}
    Faults = {}
    Multithreading = FALSE
    Mentions <- Unrelated
    NoContext = NoContext
    FreshBytes = FreshBytes
    NsZero = NsZero
    NoData = NoData
    Server = Server
    Free = Free
CHECK_DEADLOCK FALSE
SPECIFICATION SpecAll
INVARIANT NodeHoldsItsData
