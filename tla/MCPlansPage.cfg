SPECIFICATION MCSpec
CONSTANTS
    PlanTabs = {t1}
    WarehouseTabs = {w1}
    DashTabs = {d1}
    NoTab = NoTab
    Handlers = {h1}
    Patient = TRUE
    Vehicles = {v1}
    MaxRun = 2
INVARIANTS TypeOK
PROPERTIES RouteActionsHitShown GeneratedIsShown
