SPECIFICATION TraySpec
CONSTANTS
    MaxSleep = 2
    ProbeInterval = 2
    Timeouts = {0, 3, 5}
    MaxTime = 9
INVARIANT LocksUnattended
