SPECIFICATION Spec
CONSTANTS
    N = 3
    v1 = v1
    v2 = v2
    none = none
    at = at
    near = near
    far = far
    village = village
    nowhere = nowhere
    Vehicles = {v1, v2}
    NoVehicle = none
    Capacity <- MCCapacity
    Distance <- MCDistance
    Names = {village}
    Nowhere = nowhere
    NoWeight = none
    MaxDrops = 2
    StockCapacity = 2
    UrgentBonus = 100
    Inputs <- MCInputs
INVARIANTS TypeOK OverflowPushesUrgent NothingTrimmed 
PROPERTIES ImplementsPlacement
CHECK_DEADLOCK FALSE
