SPECIFICATION FairSpec
CONSTANTS
    Users = {u1, u2}
    Threads = {t1, t2}
    Restorers = {t1}
    Keep = 2
    Torn = Torn
    MaxVersion = 1
    MaxTime = 1
INVARIANTS TypeOK FlagMeansGenerating
PROPERTIES RestoreGivesSelected OverwrittenIsSaved FlagIsCleared
