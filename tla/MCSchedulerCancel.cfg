SPECIFICATION FairSpec
CONSTANTS
  t1 = t1
  t2 = t2
  Tasks = {t1, t2}
  Order <- TwoTasks
  WaveOf <- OneWave
  TaskBudget <- Units
  Limit = 3
  Unfit <- Nobody
  FindingsReadBack = TRUE
  Policy <- Allowed
  Slots = 2
  MaxBoots = 1
  MaxFaults = 1
  MaxCancels = 1
CHECK_DEADLOCK FALSE
 
PROPERTIES DriveReturns
