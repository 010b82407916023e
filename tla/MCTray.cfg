SPECIFICATION FairSpec
CONSTANTS
    open = open
    gated = gated
    None = None
    Logins = {open, gated}
    Gated = {gated}
    MaxOps = 4
INVARIANTS
    MenuFresh
PROPERTIES
    MenuFollows
    CopiesCleared
CHECK_DEADLOCK FALSE
