CONSTANTS
  Limit = 10
  Buffer = 2
SPECIFICATION PingFairSpec
PROPERTY HangEnds
INVARIANT HangNoticed
