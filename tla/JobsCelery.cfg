SPECIFICATION FairSpec
CONSTANTS
  j1 = j1
  w1 = w1
  w2 = w2
  r1 = r1
  Jobs = {j1}
  Workers = {w1,w2}
  Requests = {r1}
  NoJob = NoJob
  Backend = "celery"
  BatchEnabled = FALSE
  Visibility = 1
  TimeLimit = 1
  StaleAfter = 2
  Budget <- CeleryBudget
INVARIANT TypeOK
INVARIANT PendingIsCarried
INVARIANT StaleSparesLiveRuns
PROPERTY LifecycleSpec
PROPERTY SettledStays
PROPERTY NoJobStuckProcessing
PROPERTY PendingIsServed
CHECK_DEADLOCK FALSE
