SPECIFICATION Spec
CONSTANTS
    h1 = h1
    h2 = h2
    r1 = r1
    r2 = r2
    g1 = g1
    Hosts = {h1, h2}
    Replays = {r1}
    Pings = {g1}
    MaxAttempts = 2
    AutoRefresh = TRUE
SYMMETRY SwapTasks
INVARIANTS
    ConnTypeOK
    ReadinessFollowsConnection
    DialsWithinBudget
    DisconnectIsFinal
    ReconnectingUnlessCut
    LinkIsWatched
