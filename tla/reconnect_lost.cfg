SPECIFICATION Spec
CONSTANTS
    h1 = h1
    h2 = h2
    r1 = r1
    r2 = r2
    g1 = g1
    Hosts = {h1}
    Replays = {r1}
    Pings = {}
    MaxAttempts = 2
    AutoRefresh = FALSE
INVARIANTS
    ReconnectingIsTrying
