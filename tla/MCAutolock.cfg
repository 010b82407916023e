SPECIFICATION TimerSpec
CONSTANTS
  MaxSleep = 2
  Timeouts = {0, 1, 2, 3, 5}
  MaxTime = 9
INVARIANT LocksInTime
