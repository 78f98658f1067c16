SPECIFICATION DispatchSpec
CONSTANTS
    Vehicles = {v1, v2}
    NoVehicle = NoVehicle
    Users = {u1}
    MaxOrder = 2
    MaxRun = 1
    MaxRoutes = 1
    Weightless = {}
SYMMETRY Symmetry
PROPERTY DepartedOrdersAreNotReleased
CHECK_DEADLOCK FALSE
