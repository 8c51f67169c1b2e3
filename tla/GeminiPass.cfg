SPECIFICATION FairBatchSpec
CONSTANTS
  j1 = j1
  w1 = w1
  r1 = r1
  p1 = p1
  p2 = p2
  b1 = b1
  Jobs = {j1}
  Workers = {w1}
  Requests = {r1}
  Passes = {p1, p2}
  Batches = {b1}
  NoJob = NoJob
  NoBatch = NoBatch
  Backend = "celery"
  BatchEnabled = TRUE
  Visibility = 1
  TimeLimit = 1
  StaleAfter = 1
  StuckAfter = 1
  FallbackAfter = 2
  StepLimit = 1
  Budget <- JobBudget
  TickBudget = 1
INVARIANT BatchTypeOK
INVARIANT BatchPendingIsCarried
INVARIANT WaitingJobsAreNotRun
PROPERTY LiveRunIsNotRequeued
PROPERTY NoJobWaitsForEver
CHECK_DEADLOCK FALSE
