SPECIFICATION FairSpec
CONSTANTS
  Scripts <- ClientScripts
  Pipelining = TRUE
  FinalLine = FALSE
  FilesFail = TRUE
  SplitChunkEnds = FALSE
  LineLimit = 5
  SectionLimit = 6
  MaxHeaders = 3
  IntRange = 8
  SizeRange = 16
  BodyLimit = 2
INVARIANTS
  TypeOK
  AnswersAreRight
  RequestsStartWhereTheLastEnded
  InPlaceIfWellWritten
  BodyWithinLimit
PROPERTIES
  BuildReturns
  CompleteRequestIsAnswered
\* the client stops sending
CHECK_DEADLOCK FALSE
