CONSTANTS
  Procs = {p1, p2, p3}
  NoProc = NoProc
  MaxAttempts = 1
  MaxCrashes = 1
  Stalls = FALSE
SPECIFICATION Spec
INVARIANTS MutualExclusion
CHECK_DEADLOCK FALSE
