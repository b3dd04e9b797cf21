SPECIFICATION UploadSpec
CONSTANTS
  Key = {}
  Hive = {}
  Chunk = {}
  Upload <- MCTranscripts
  Persistent = TRUE
  SaveFaults = {"late_error"}
  NoKey = NoKey
  NoHive = NoHive
  NoChunk = NoChunk
  NoDocument = NoDocument
  Command <- MCCommand
  File <- MCFile
  Convertible <- MCConvertible
  Oversized <- MCOversized
  Paths <- MCPaths
  NoFile = NoFile
  Empty = Empty
  NoAuthor = NoAuthor
  NoRequest = NoRequest
  NoAnswer = NoAnswer
INVARIANTS
  UploadTypeOK
  UploadedDurable
  FileStoredOnce
  CreatedReportedOnce
PROPERTIES
  CommandsEnd
