CONSTANTS
    o1 = o1
    o2 = o2
    c1 = c1
    c2 = c2
    NoOrder = NoOrder
    Orders <- TwoOrders
    TokenOrders <- SecondOrder
    PlusOrders <- FirstOrder
    AppleOrders <- SecondOrder
    Pack = 1
    Price = 1
    Opening = 1
    Calls <- TwoCalls
    MaxTries = 2
    MaxAborts = 1
SPECIFICATION Spec
CHECK_DEADLOCK FALSE
INVARIANT ExtendedOnce
