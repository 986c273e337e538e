CONSTANTS
    o1 = o1
    o2 = o2
    g1 = g1
    g2 = g2
    k1 = k1
    v1 = v1
    c1 = c1
    c2 = c2
    Order = {o1}
    GatewayAttempt = {g1, g2}
    CardAttempt = {k1}
    OrderOf <- AllForFirst
    Variant = {v1}
    Need <- OneEach
    InitialStock <- One
    MaxStock = 1
    Callback = {c1, c2}
    NoAttempt = NoAttempt
SPECIFICATION Spec
SYMMETRY Symmetry
INVARIANTS
    PaidOrderIsBacked
    CapturedMoneyAccounted
    OpenReconciliationResolvable
    ExpiredOrderIsClosed
PROPERTY
    HandsOver
