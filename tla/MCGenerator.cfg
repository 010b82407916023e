SPECIFICATION Spec
CONSTANTS
    login = login
    signup = signup
    lower = lower
    Root = Root
    None = None
    Torn = Torn
    Forms = {login, signup}
    Registration = {signup}
    Groups = {lower}
    MIN_LENGTH = 1
    MAX_LENGTH = 1
    DefaultLength = 1
    TTL = 1
    MaxNow = 2
    MaxOps = 5
    MaxFields = 3
    MaxFaults = 2
    MaxPending = 2
INVARIANTS
    HistoryDecrypts
    GeneratedIsShown
    RevealedWasChosen
    IconsSpareLogins
PROPERTIES
    ImplementsHistory
CHECK_DEADLOCK FALSE
