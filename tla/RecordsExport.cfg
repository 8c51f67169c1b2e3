CONSTANTS
  Records = {r1}
  Keys = {k1}
  Fields = {f, g}
  Reviewers = {a}
  Imports = {i}
  NoRow = NoRow
  NoValue = NoValue
  NoRecord = NoRecord
  MaxVersion = 3
  Allowed <- ScriptRace
  Budget = 4
SYMMETRY Symmetric
SPECIFICATION Spec
CHECK_DEADLOCK FALSE
INVARIANT ExportMatchesRecord
