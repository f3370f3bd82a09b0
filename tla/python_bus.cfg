\* Three calls of subscribe, four notifications, and everything that can fail.
CONSTANTS
    s1 = s1
    s2 = s2
    s3 = s3
    Subscriptions = {s1, s2, s3}
    MaxMessages = 4
    BusFaults = {"server", "client", "subscribe", "decode"}
    NoQueue = NoQueue
\* The application may have no more calls to make.
CHECK_DEADLOCK FALSE
SPECIFICATION BusFairSpec
INVARIANTS NothingLost HandledInOrder
PROPERTY MessagesHandled
