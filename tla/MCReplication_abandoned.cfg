SPECIFICATION Spec
CONSTANTS
  Thread = {t1, t2, t3}
  Key = {k1, k2}
  MaxStarts = 4
  Main = Main
  NoOne = NoOne
  NoMsg = NoMsg
SYMMETRY Symmetry
CONSTRAINT StaleHellos
CHECK_DEADLOCK FALSE
INVARIANTS
  SpinNotAbandoned
