CONSTANTS
  Threads = {t1}
  Procs = {p1, p2}
  NoProc = NoProc
  NoThread = NoThread
  Limit = 10
SPECIFICATION FairSpec
INVARIANTS TypeOK CounterInv StatusTruth ProcessOwned HandleValid OneLateSetting GivesUp
PROPERTIES Supervises StopCompletes CrashRecovery
