CONSTANTS
    n1 = n1
    s1 = s1
    q1 = q1
    w1 = w1
    w2 = w2
    Event = {n1}
    Quiet = {}
    Subscription = {}
    Worker = {w1, w2}
    MaxAttempts = 2
    MaxApprovals = 1
    NoEvent = NoEvent
SPECIFICATION Spec
INVARIANT
    FailedMeansRefused
CHECK_DEADLOCK FALSE
