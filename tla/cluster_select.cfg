SPECIFICATION Spec
CONSTANTS
  Clients = {c1, c2}
  Pids = {p1}
  Listener = listener
  None = none
  Fds = {3, 4, 5, 6}
  MxType = "select"
  Faults = {"alloc"}
  CgiTimeout = 1
  NoFd = 0
  ListenFd = 3
  KeepAlive = 1
  MaxSegs = 1
  MaxUnits = 1
SYMMETRY Symmetry
INVARIANTS
  NoDanglingCallback
  WatchedFdsAreOpen
\* the server stops after SIGINT
CHECK_DEADLOCK FALSE
