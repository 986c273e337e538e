CONSTANTS
    i1 = i1
    i2 = i2
    r1 = r1
    r2 = r2
    p1 = p1
    p2 = p2
    s1 = s1
    s2 = s2
    a1 = a1
    a2 = a2
    b1 = b1
    b2 = b2
    k1 = k1
    f1 = f1
    f2 = f2
    f3 = f3
    f4 = f4
    q1 = q1
    q2 = q2
    Item = {i1, i2}
    Sold <- TwoAndOne
    Return = {r1, r2}
    Wanted <- AllOrOne
    Supplied = {i1}
    InitialStock <- SoldOut
    MaxMoved = 0
    Clerk = {k1}
    NoReturn = NoReturn
    Payable = {p1, p2}
    PayableOf <- Payables
    Price <- Prices
    Settlement = {s1, s2}
    Application = {a1, a2}
    Keeper = {b1, b2}
    NoOne = NoOne
    Amount = 3
    Refund = {f1, f2, f3, f4}
    AmountOf <- Refunds
    Request = {q1, q2}
    NoRefund = NoRefund
SPECIFICATION MCSpec
SYMMETRY Symmetry
CHECK_DEADLOCK FALSE
INVARIANTS
    LedgerTypeOK
    SettlementsAddUp
    CreditsAddUp
    RefundsTypeOK
    TotalsMatchRefunds
    StatusFollowsRefunds
PROPERTIES
    PaidIsFinal
    CreditsKeepAllowance
    RefundsKeepAllowance
