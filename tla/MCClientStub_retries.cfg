SPECIFICATION FairSpec
CONSTANTS
  MaxRuns = 3
  NULL = NULL
CHECK_DEADLOCK FALSE
INVARIANTS
  TypeOK
  NeverOnFreed
  ConnectedToPrimario
  OncePerRun
  NoNeedlessSwitch
PROPERTIES
  RequestEnds
