SPECIFICATION FairSpec
CONSTANTS
  Thread = {t1, t2}
  Key = {k1}
  MaxStarts = 3
  Main = Main
  NoOne = NoOne
  NoMsg = NoMsg
CHECK_DEADLOCK FALSE
INVARIANTS
  TypeOK
  ParamsOwned
  ClientSpinServed
  OncePerRun
  HandOverOutcome
PROPERTIES
  SpinEnds
