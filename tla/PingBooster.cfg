CONSTANTS
  Values <- MCValues
  Default = 1
  NoPair = NoPair
SPECIFICATION BoosterSpec
INVARIANTS PeriodsPaired MenuTruth
PROPERTY Restored
