\* A subscriber that cannot reach the message bus.
CONSTANTS
    w1 = w1
    w2 = w2
    ns1 = ns1
    t1 = t1
    t2 = t2
    small = small
    Publishers = {w1, w2}
    Namespaces = {ns1}
    Namespace = ns1
    Topics = {t1, t2}
    PubTopics <- TwoTopics
    Messages = {small}
    Oversize = {}
    Faults = {"malloc"}
    AppFaults = {"msgbus"}
    DirectionSize = 4
    PublishDataSize = 62464
    RsizeMax = 61440
    Multithreading = FALSE
    NoContext = NoContext
    FreshBytes = FreshBytes
    NsZero = NsZero
    NoData = NoData
    Server = Server
    Free = Free
SPECIFICATION AppSpec
CHECK_DEADLOCK FALSE
PROPERTY ContextDestroyed
