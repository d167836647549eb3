SPECIFICATION Spec
CONSTANTS
  Thread = {t1}
  Key = {k1}
  MaxStarts = 1
  Main = Main
  NoOne = NoOne
  NoMsg = NoMsg
CHECK_DEADLOCK FALSE
INVARIANTS
  ReportedSent
