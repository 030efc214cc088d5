SPECIFICATION Spec
CONSTANTS
  Sessions = {s1, s2}
  Paths = {p1}
  None = None
  BodyLimit = 3
  ChunkSize = 2
  MaxRequests = 3
INVARIANTS
  CreatedFilesStay
\* every request was sent
CHECK_DEADLOCK FALSE
