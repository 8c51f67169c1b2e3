SPECIFICATION Spec
CONSTANTS
  j1 = j1
  j2 = j2
  j3 = j3
  d1 = d1
  d2 = d2
  b = b
  s1 = s1
  s2 = s2
  Jobs = {j1,j2,j3}
  Documents = {d1,d2}
  DocumentOf <- ThreePages
  Batch = b
  Sessions = {s1}
  Reopens = 0
INVARIANT NoBatchLeftProcessing
