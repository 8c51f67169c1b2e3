SPECIFICATION FairSpec
CONSTANTS
  Files = {f}
  Reviewers = {a, b}
  Workers = {v, w}
  NoFile = NoFile
  MaxQueue = 2
  Allowed <- Spendable
  Budget = 4
CHECK_DEADLOCK FALSE
INVARIANTS
  SkippedTypeOK
  NoFileForgotten
  IngestedTwiceOnlyByRace
  ReclassifyHasThemAlone
PROPERTY RefetchSettles
