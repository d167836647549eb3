SPECIFICATION FairLinkedSpec
CONSTANTS
  Client = {c1, c2}
  Key = {k1}
  Value = {v1, v2}
  v1 = v1
  v2 = v2
  NULL = NULL
  Request <- AllRequests
  MaxStarts <- Once
  SharedDir = FALSE
CHECK_DEADLOCK FALSE
PROPERTIES
  ImplementsFailoverMap
  RequestAnswered
