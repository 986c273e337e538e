CONSTANTS
    c1 = c1
    c2 = c2
    e1 = e1
    t1 = t1
    Creation = {c1, c2}
    Editor = {e1}
    Tracker = {t1}
    Manual = Manual
    Panel = Panel
    None = None
SPECIFICATION FulfillmentSpec
SYMMETRY Symmetry
CHECK_DEADLOCK FALSE
INVARIANTS
    FulfillmentTypeOK
    OrderFollowsShipment
    ParcelAndStateAgree
    OneParcel
    ParcelTraced
PROPERTIES
    ParcelNeverReplaced
    MovesForward
