SPECIFICATION FairSpec
CONSTANTS
  f1 = f1
  w1 = w1
  w2 = w2
  r1 = r1
  Files = {f1}
  Workers = {w1, w2}
  Requests = {r1}
  NoFile = NoFile
  StaleHeartbeat = 1
  LostPending = 2
  MaxResumes = 1
  MaxQueue = 2
  Allowed <- Losses
  Budget = 3
PROPERTY LinkSettles
CHECK_DEADLOCK FALSE
