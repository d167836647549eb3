SPECIFICATION FairSpec
CONSTANTS
  Client = {c1, c2}
  listening_socket = listening_socket
  stdin_fd = stdin_fd
  NCLIENTS = 4
CHECK_DEADLOCK FALSE
INVARIANTS
  TypeOK
  ArrayMatches
  EventsAreOwn
PROPERTIES
  RequestServed
