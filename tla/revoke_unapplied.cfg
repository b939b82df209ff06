SPECIFICATION InboundSpec
CONSTANTS
    MaxWraps = 2
    Named = {}
    MaxTokens = 0
CHECK_DEADLOCK FALSE
INVARIANTS
    RevokesApplied
