CONSTANTS
  Procs = {p1, p2, p3}
  NoProc = NoProc
  MaxCrashes = 3
  Hosts = {{p1, p2}, {p3}}
SPECIFICATION FairSpec
INVARIANTS DriverExclusion
PROPERTIES DeadDriverReclaimed
CHECK_DEADLOCK FALSE
