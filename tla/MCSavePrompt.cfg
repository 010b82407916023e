SPECIFICATION FairSpec
CONSTANTS
    t1 = t1
    u1 = u1
    u2 = u2
    p1 = p1
    p2 = p2
    None = None
    Tabs = {t1}
    Users = {u1, u2}
    Passwords = {p1, p2}
    Stored <- MCStored
    Submitted <- MCSubmitted
    MaxTasks = 3
    MaxOps = 4
INVARIANTS
    AnswersOwn
    UpdatesOwnEntry
    DeferredReoffered
PROPERTIES
    PromptSettles
CHECK_DEADLOCK FALSE
