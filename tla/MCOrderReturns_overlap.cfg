CONSTANTS
    i1 = i1
    i2 = i2
    r1 = r1
    r2 = r2
    r3 = r3
    k1 = k1
    k2 = k2
    Item = {i1, i2}
    Sold <- TwoAndOne
    Return = {r1, r2, r3}
    Wanted <- AllOrOne
    Supplied = {i1}
    InitialStock <- SoldOut
    MaxMoved = 1
    Clerk = {k1, k2}
    NoReturn = NoReturn
SPECIFICATION ReturnsSpec
SYMMETRY Symmetry
INVARIANTS
    QuantitiesMatchReturns
    ReturnedUnitsGoSomewhere
PROPERTIES
    ReturnsKeepAllowance
