CONSTANTS
  MsgLimit = 3
  MaxReports = 6
  MaxRaces = 1
SPECIFICATION FairSpec
PROPERTY HalvesTaken
INVARIANTS HalvesNearby NothingStranded
CHECK_DEADLOCK FALSE
