\* Every kind of fault, up to four of them.
CONSTANTS
    t1 = t1
    t2 = t2
    Topics = {t1, t2}
    MaxRequests = 2
    Faults = {"cut", "outage", "crash", "expire", "lapse", "refuse"}
    MaxFaults = 4
SPECIFICATION FairSpec
CHECK_DEADLOCK FALSE
INVARIANTS TypeOK NoDuplicateItems RequestsBounded ItemsAgree
PROPERTIES ReconnectsUnlessGivenUp GivenUpForGood ViewsSpec
