CONSTANTS
  Second = 2
  Settings <- SmallSettings
SPECIFICATION Spec
INVARIANTS KilledIfSlow StartupHeeded
CHECK_DEADLOCK FALSE
