SPECIFICATION Spec
CONSTANTS
  Key <- MCKey
  Value = {v1, v2}
  All = 1
  NoData = NoData
  N = 2
  hash <- MCHash
  MaxElems = 5
  MemoryFails = FALSE
INVARIANTS
  TypeOK
  ListsSorted
  EntriesPlaced
  SizesAgree
  KeysFit
PROPERTIES
  ImplementsKVStore
