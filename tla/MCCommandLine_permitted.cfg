SPECIFICATION Spec
CONSTANTS
  Line <- Lines
  SIZE = 9
  EndOfFile = FALSE
INVARIANT RunsPermittedLine
CHECK_DEADLOCK FALSE
