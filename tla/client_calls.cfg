SPECIFICATION ClientSpec
CONSTANTS
    p1 = p1
    p2 = p2
    o1 = o1
    o2 = o2
    t1 = t1
    None = None
    Cmds = {1}
    Passes = {p1}
    Tabs = {t1}
    TabOf <- OneTab
    Ops = {o1, o2}
    OpTab <- OpsInTab
    Calls <- SenderAndUser
    Rebuildable = {1}
    MaxAttempts = 1
    MaxRepairAttempts = 1
INVARIANTS
    ClientTypeOK
    NothingLost
    
PROPERTIES
    ClientImplementsQueue
