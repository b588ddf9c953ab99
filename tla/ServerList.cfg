CONSTANTS
  a1 = a1
  a2 = a2
  a3 = a3
  t1 = t1
  None = None
  Addr <- MCAddr
  Threads <- MCThreads
  MaxMsgs = 1
  MaxServers = 3
  Loaded = 2
SYMMETRY Symmetry
SPECIFICATION Spec
INVARIANTS TypeOK ListOwned RowsMatch SelectedValid FaultHasCause
PROPERTY DeleteHitsShown
CHECK_DEADLOCK FALSE
