SPECIFICATION PartsSpec
CONSTANTS
    Size = 4
    MaxPiece = 2
    PartSize = 2
    Retries = 2
    MaxLate = 1
    Members = {"m1", "m2"}
    Calls = {"c1", "c2"}
    MaxChanges = 2
    PageSize = 1
    MaxPages = 2
    MaxMessages = 2
    MaxPuts = 2
    LastRow = 3
    LastCommand = 1
    LastSmid = 1
    MaxWraps = 2
    Named = {"ann", "bob"}
    MaxTokens = 2
    Peers = {"a", "b"}
    Sweeps = {"s1", "s2"}
    MaxEdits = 3
    SweepPage = 1
    Rooms = {"a", "b"}
    RoomWindow = 1
    MaxPosts = 2
    MaxCalls = 2
    MaxLinks = 2
    Listeners = {"l1", "l2"}
    HistoryLimit = 2
    MaxEvents = 3
    Asked = {"c1", "c2"}
    MaxUrls = 2
    MaxHandles = 4
    Sends = {"x", "y"}
    MaxReads = 2
    MaxWrites = 4
    MaxShown = 2
    MaxRowIds = 3
    MaxSeen = 2
    MaxQueue = 2
    MaxTold = 3
    MaxLog = 2
    MaxSends = 1
    MaxIds = 3
    MaxJobs = 2
    Window = 2
CONSTRAINTS
    PartsUnharmed
    OneChangesFirst
    TwoOnlyRead
CHECK_DEADLOCK FALSE
INVARIANTS
    PartsTypeOK
    UploadIsWhole
    CollectionsConverge
    
    UpgradeIsSafe
    SameMessage
    HostIsTold
    TimelineIsOrderly
    
    
PROPERTIES
    UploadEndsHere
    NothingErased
