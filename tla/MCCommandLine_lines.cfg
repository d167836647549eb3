SPECIFICATION Spec
CONSTANTS
  Line <- Lines
  SIZE = 9
  EndOfFile = TRUE
INVARIANTS TypeOK RunsTheLine
CHECK_DEADLOCK FALSE
