CONSTANTS
  Procs = {p1, p2}
  NoProc = NoProc
  a = a
  b = b
  x = x
  y = y
  G = G
  H = H
  Ops = {a, b}
  Paths = {"p"}
  Bytes = {x, y}
  Torn = Torn
  Absent = Absent
  None = None
  Baselines = {H, G}
  MaxMonth = 2
  MaxFaults = 1
  MaxSubmits = 3
  ConcurrentDiscard = FALSE
  Inputs <- MixedInputs
SPECIFICATION Spec
SYMMETRY ProcSymmetry
INVARIANTS CommittedOperationsReplay AcknowledgedIsDurable
PROPERTIES ImplementsLog AppendOnly
CHECK_DEADLOCK FALSE
