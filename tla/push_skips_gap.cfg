SPECIFICATION Spec
CONSTANTS
    t1 = t1
    t2 = t2
    Tabs = {t1}
    MaxPts = 2
    PageLimit = 1
    MaxWrites = 2
INVARIANTS
    SyncFillsGaps
