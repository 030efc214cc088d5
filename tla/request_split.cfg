SPECIFICATION FairSpec
CONSTANTS
  Scripts <- TwoGets
  Pipelining = FALSE
  FinalLine = FALSE
  FilesFail = FALSE
  SplitChunkEnds = TRUE
  LineLimit = 5
  SectionLimit = 6
  MaxHeaders = 3
  IntRange = 8
  SizeRange = 16
  BodyLimit = 2
PROPERTIES
  BuildReturns
\* the client stops sending
CHECK_DEADLOCK FALSE
