CONSTANTS
  Records = {r1, r2}
  Keys = {k1, k2}
  Fields = {f}
  Reviewers = {a, b}
  Imports = {i, j}
  NoRow = NoRow
  NoValue = NoValue
  NoRecord = NoRecord
  MaxVersion = 3
  Allowed <- Everything
  Budget = 4
SYMMETRY Symmetric
SPECIFICATION Spec
CHECK_DEADLOCK FALSE
INVARIANTS
  RecordsTypeOK
  AuditTrailReplays
  ReviewIsOfWhatWasSeen
  CorrectionsShown
  OneRecordPerKey
  ReviewsSurvive
