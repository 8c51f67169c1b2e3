SPECIFICATION Spec
CONSTANTS
  j1 = j1
  j2 = j2
  w1 = w1
  r1 = r1
  Jobs = {j1,j2}
  Workers = {w1}
  Requests = {r1}
  NoJob = NoJob
  Backend = "thread_pool"
  BatchEnabled = TRUE
  Visibility = 1
  TimeLimit = 1
  StaleAfter = 2
  Budget <- PoolBudget
SYMMETRY AnySymmetry
INVARIANT ProcessingIsAttended
PROPERTY LifecycleSpec
CHECK_DEADLOCK FALSE
