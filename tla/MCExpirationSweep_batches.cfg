CONSTANTS
    o1 = o1
    o2 = o2
    o3 = o3
    o4 = o4
    Order = {o1, o2, o3, o4}
    Deadline <- Deadlines
    Take = 2
SPECIFICATION Spec
PROPERTIES
    SweepReachesDueOrders
