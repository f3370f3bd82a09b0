\* The server cannot be reached for a while.
CONSTANTS
    t1 = t1
    t2 = t2
    Topics = {t1}
    MaxRequests = 2
    Faults = {"outage"}
    MaxFaults = 1
SPECIFICATION FairSpec
CHECK_DEADLOCK FALSE
PROPERTY Reconnects
