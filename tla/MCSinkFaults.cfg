SPECIFICATION Spec
CONSTANTS
  Key <- MCKey
  Hive <- MCOneHive
  Chunk <- MCFewChunks
  Upload <- MCUpload
  Persistent = TRUE
  SaveFaults = {"error", "late_error", "short"}
  NoKey = NoKey
  NoHive = NoHive
  NoChunk = NoChunk
  NoDocument = NoDocument
INVARIANTS
  LogUnambiguous
  Provenance
PROPERTY
  ReadableAppendOnly
CHECK_DEADLOCK FALSE
