SPECIFICATION Spec
CONSTANTS
  Key <- MCKeySmall
  Value = {v1, v2}
  All = 1
  NoData = NoData
  N = 2
  hash <- MCHash
  MaxElems = 5
  MemoryFails = TRUE
INVARIANTS
  SizeIsExact
