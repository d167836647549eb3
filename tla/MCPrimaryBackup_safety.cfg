SPECIFICATION Spec
CONSTANTS
  Client = {c1, c2}
  Key = {k1}
  Value = {v1, v2}
  v1 = v1
  v2 = v2
  NULL = NULL
  Request <- PutsAndDels
  MaxStarts <- Twice
  SharedDir = TRUE
SYMMETRY Symmetry
CHECK_DEADLOCK FALSE
INVARIANTS
  TypeOK
  SyncedAgree
