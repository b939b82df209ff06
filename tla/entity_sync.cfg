SPECIFICATION FairSpec
CONSTANTS
    u1 = u1
    u2 = u2
    All = All
    Boot = Boot
    Refresh = Refresh
    Users = {u1, u2}
    Peers = {u1}
    MaxVersion = 2
    MaxJobs = 1
    SeenWindow = 1
CONSTRAINTS
    Unharmed
    TwoKinds
INVARIANTS
    EntityTypeOK
    AnnouncedIsOwed
    CursorIsHonest
PROPERTIES
    AnnouncedArrives
