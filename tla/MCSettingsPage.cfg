SPECIFICATION MCSpec
CONSTANTS
    FleetJobs = {f1}
    Threads = {t1, t2}
    Types = {1, 2}
    MaxVehicle = 3
    Seed <- MCSeed
    FormCodes <- MCCodes
    Targets = {0, 2}
    Env <- MCEnv
    Forms <- MCForms
    Today = 1
    LastDay = 2
INVARIANTS TypeOK InForceIsWhole
PROPERTIES SyncReachesTarget
