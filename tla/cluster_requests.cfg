SPECIFICATION Spec
CONSTANTS
  Clients = {c1}
  Pids = {p1, p2}
  Listener = listener
  None = none
  Fds = {3, 4, 5, 6}
  MxType = "poll"
  Faults = {}
  CgiTimeout = 1
  NoFd = 0
  ListenFd = 3
  KeepAlive = 1
  MaxSegs = 3
  MaxUnits = 3
SYMMETRY Symmetry
INVARIANTS
  TypeOK
PROPERTIES
  CloseIsJustified
  ImplementsService
\* the server stops after SIGINT
CHECK_DEADLOCK FALSE
