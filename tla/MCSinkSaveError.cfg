SPECIFICATION Spec
CONSTANTS
  Key <- MCKey
  Hive <- MCOneHive
  Chunk <- MCFewChunks
  Upload <- MCUpload
  Persistent = TRUE
  SaveFaults = {"error"}
  NoKey = NoKey
  NoHive = NoHive
  NoChunk = NoChunk
  NoDocument = NoDocument
INVARIANT AckedDurable
