SPECIFICATION Spec
CONSTANTS
    p1 = p1
    p2 = p2
    t1 = t1
    t2 = t2
    None = None
    Cmds = {1}
    Passes = {p1, p2}
    Tabs = {t1}
    TabOf <- SameTab
    Rebuildable = {1}
    MaxAttempts = 1
    MaxRepairAttempts = 1
INVARIANTS
    NoRowStranded
