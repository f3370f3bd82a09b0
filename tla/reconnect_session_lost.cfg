\* The server is restarted.
CONSTANTS
    t1 = t1
    t2 = t2
    Topics = {t1}
    MaxRequests = 2
    Faults = {"crash"}
    MaxFaults = 1
SPECIFICATION FairSpec
CHECK_DEADLOCK FALSE
PROPERTY Resubscribes
