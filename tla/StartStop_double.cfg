CONSTANTS
  Threads = {t1, t2}
  Procs = {p1, p2}
  NoProc = NoProc
  NoThread = NoThread
  Limit = 2
SPECIFICATION Spec
INVARIANT OneMonitor
