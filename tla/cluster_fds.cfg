SPECIFICATION FairSpec
CONSTANTS
  Clients = {c1, c2}
  Pids = {}
  Listener = listener
  None = none
  Fds = {3, 4}
  MxType = "select"
  Faults = {}
  CgiTimeout = 1
  NoFd = 0
  ListenFd = 3
  KeepAlive = 1
  MaxSegs = 1
  MaxUnits = 1
PROPERTIES
  EveryConnectionIsAccepted
\* the server stops after SIGINT
CHECK_DEADLOCK FALSE
