SPECIFICATION Spec
CONSTANTS
  t1 = t1
  t2 = t2
  Tasks = {t1, t2}
  Order <- TwoTasks
  WaveOf <- OneWave
  TaskBudget <- Budgets
  Limit = 3
  Unfit <- Nobody
  FindingsReadBack = TRUE
  Policy <- Allowed
  Slots = 2
  MaxBoots = 2
  MaxFaults = 1
  MaxCancels = 0
CHECK_DEADLOCK FALSE
INVARIANTS TaskBudgetKept AttemptsAreRetries IntegratedWasValidated
PROPERTIES CompletedWorkKept
