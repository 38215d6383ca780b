SPECIFICATION Spec
CONSTANTS
  t1 = t1
  t2 = t2
  Tasks = {t1, t2}
  Order <- TwoTasks
  WaveOf <- TwoWaves
  TaskBudget <- Units
  Limit = 1
  Unfit <- Nobody
  FindingsReadBack = TRUE
  Policy <- AnyOutcome
  Slots = 1
  MaxBoots = 2
  MaxFaults = 0
  MaxCancels = 0
CHECK_DEADLOCK FALSE
INVARIANTS WaveOrder
 
