SPECIFICATION FairSpec
CONSTANTS
  Sessions = {s1, s2}
  Paths = {p1}
  None = None
  BodyLimit = 3
  ChunkSize = 2
  MaxRequests = 4
INVARIANTS
  TypeOK
  OneWriterPerFile
  UnfinishedFilesAreInUpload
  StoredFilesStay
PROPERTIES
  UnchangedFilesAreSentAsAnnounced
  DownloadsEnd
\* every request was sent
CHECK_DEADLOCK FALSE
