SPECIFICATION TabsSpec
CONSTANTS
    t1 = t1
    t2 = t2
    Tabs = {t1, t2}
    MaxPts = 3
    PageLimit = 2
    MaxWrites = 3
SYMMETRY SwapTabs
CONSTRAINT Unharmed
INVARIANTS
    SyncTypeOK
    
    SyncedIsComplete
