SPECIFICATION TabsSpec
CONSTANTS
    p1 = p1
    p2 = p2
    p3 = p3
    t1 = t1
    t2 = t2
    None = None
    Cmds = {1}
    Passes = {p1, p2, p3}
    Tabs = {t1, t2}
    TabOf <- TwoAndOne
    Rebuildable = {}
    MaxAttempts = 2
    MaxRepairAttempts = 1
SYMMETRY Swaps
INVARIANTS
    TypeOK
    AckedOffWire
    RetiredIsDelivered
    StolenOnlyExpired
    
    
    ChannelMutex
PROPERTIES
    ImplementsQueue
