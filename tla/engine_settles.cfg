SPECIFICATION FairSpec
CONSTANTS
    p1 = p1
    p2 = p2
    t1 = t1
    t2 = t2
    None = None
    Cmds = {1, 2}
    Passes = {p1}
    Tabs = {t1}
    TabOf <- OnePass
    Rebuildable = {1}
    MaxAttempts = 1
    MaxRepairAttempts = 2
PROPERTIES
    
    AckedConverges
