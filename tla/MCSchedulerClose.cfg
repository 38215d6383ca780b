SPECIFICATION Spec
CONSTANTS
  t1 = t1
  t2 = t2
  Tasks = {t1}
  Order <- OneTask
  WaveOf <- SingleWave
  TaskBudget <- Units
  Limit = 1
  Unfit <- Nobody
  FindingsReadBack = TRUE
  Policy <- Allowed
  Slots = 1
  MaxBoots = 1
  MaxFaults = 1
  MaxCancels = 1
CHECK_DEADLOCK FALSE
INVARIANTS TerminalLeaseIsFinal
