SPECIFICATION FairSpec
CONSTANTS
  Clients = {c1}
  Pids = {p1}
  Listener = listener
  None = none
  Fds = {3, 4, 5, 6}
  MxType = "epoll"
  Faults = {}
  CgiTimeout = 1
  NoFd = 0
  ListenFd = 3
  KeepAlive = 1
  MaxSegs = 2
  MaxUnits = 2
PROPERTIES
  EveryRequestEnds
  EveryChildEnds
  InterruptStops
\* the server stops after SIGINT
CHECK_DEADLOCK FALSE
