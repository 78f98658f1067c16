SPECIFICATION FairSpec
CONSTANTS
    Orders = {1, 2, 3, 4}
    Fleet = 2
    MinFill = 90
    StockCapacity = 2
    Capacities = {2, 4}
    LastDay = 2
    Plans <- MCPlans
INVARIANTS TypeOK OverflowRelieved 
PROPERTIES UrgentLeaves ShownIsSent HeldRouteLeaves
