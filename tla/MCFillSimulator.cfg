\* Two orders on one token, a book of two ticks.
CONSTANTS
    o1 = o1
    o2 = o2
    Orders <- MCOrders
    Assets = {a1}
    Ticks = {1, 2}
    Depths = {0, 2}
    OrderSizes = {3}
    PrintSizes = {1, 3}
    WalkAwayTicks = 0
    NoPrice = NoPrice
SPECIFICATION Spec
SYMMETRY MCSymmetry
INVARIANTS QueuePosition
PROPERTIES GoneStaysGone BestExecution
