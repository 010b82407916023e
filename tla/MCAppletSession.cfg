SPECIFICATION Spec
CONSTANTS
    RunModes = {"window", "applet"}
    MaxOps = 3
    MaxPending = 2
INVARIANTS
    VaultShownOnlyUnlocked
    ListSettles
    DeepLinkNotLost
    PreferenceKept
CHECK_DEADLOCK FALSE
