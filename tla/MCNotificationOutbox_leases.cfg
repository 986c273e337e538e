CONSTANTS
    n1 = n1
    s1 = s1
    q1 = q1
    w1 = w1
    w2 = w2
    Event = {s1, q1}
    Quiet = {q1}
    Subscription = {s1}
    Worker = {w1, w2}
    MaxAttempts = 3
    MaxApprovals = 1
    NoEvent = NoEvent
SPECIFICATION Spec
INVARIANTS
    TypeOK
    RetriesBounded
    DuplicatesExplained
    NoConcurrentSends
    SubscriptionFollowsMessage
PROPERTIES
    LiveLeaseIsRespected
SYMMETRY Symmetry
CHECK_DEADLOCK FALSE
