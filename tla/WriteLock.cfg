CONSTANTS
  Procs = {p1, p2}
  NoProc = NoProc
  MaxAttempts = 2
  MaxCrashes = 2
  Stalls = FALSE
SPECIFICATION FairSpec
PROPERTIES ImplementsMutex DeadOwnerReclaimed
CHECK_DEADLOCK FALSE
