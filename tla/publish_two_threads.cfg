CONSTANTS
    p1 = p1
    p2 = p2
    ns1 = ns1
    t1 = t1
    t2 = t2
    small = small
    large = large
    Publishers = {p1, p2}
    Namespaces = {ns1}
    Topics = {t1, t2}
    Messages = {small}
    Oversize = {}
    Faults = {"malloc", "namespace", "node"}
    Multithreading = FALSE
    NoContext = NoContext
    FreshBytes = FreshBytes
    NsZero = NsZero
    NoData = NoData
    Server = Server
    Free = Free
SPECIFICATION FairSpec
INVARIANTS
    TypeOK
    WriteExclusive
    LockNotOrphaned
    ContextNamesNode
    
PROPERTIES
    RegistrySpec
    PublishReturns
