CONSTANTS
  Hours = 3
  Minutes = 3
  Seconds = 3
  N = 2
  Windows <- SomeWindows
  Period = 2
  MaxWait = 2
SPECIFICATION Spec
INVARIANTS WindowTests StopsInTime StartsInTime
