SPECIFICATION Spec
CONSTANTS
    Vehicles = {v1, v2}
    NoVehicle = NoVehicle
    Users = {}
    MaxOrder = 2
    MaxRun = 1
    MaxRoutes = 2
    Weightless = {}
SYMMETRY Symmetry
INVARIANTS NoOrderStranded OneRoutePerVehicle PlannedIsOnOffer
PROPERTIES ClosedRoutesKept DeliveredIsFinal
