CONSTANTS
    n1 = n1
    s1 = s1
    q1 = q1
    w1 = w1
    w2 = w2
    Event = {s1}
    Quiet = {}
    Subscription = {s1}
    Worker = {w1, w2}
    MaxAttempts = 3
    MaxApprovals = 1
    NoEvent = NoEvent
SPECIFICATION FairSpec
PROPERTIES
    EventsSettle
CHECK_DEADLOCK FALSE
