SPECIFICATION Spec
CONSTANTS
    Vehicles = {v1, v2}
    NoVehicle = NoVehicle
    Users = {u1}
    MaxOrder = 2
    MaxRun = 2
    MaxRoutes = 1
    Weightless = {2}
SYMMETRY Symmetry
INVARIANTS
    TypeOK
    PlanStatusSound
    BusyVehicleHasRoute
    QueueOnlyUndispatched
