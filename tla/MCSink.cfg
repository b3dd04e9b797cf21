SPECIFICATION Spec
CONSTANTS
  Key <- MCKey
  Hive <- MCHive
  Chunk <- MCChunks
  Upload <- MCUpload
  Persistent = TRUE
  SaveFaults = {"late_error"}
  NoKey = NoKey
  NoHive = NoHive
  NoChunk = NoChunk
  NoDocument = NoDocument
INVARIANTS
  TypeOK
  AckedDurable
  ConfirmedDurable
  AckedUnambiguous
  FinalAckedAssembled
  HighWaterHonest
PROPERTIES
  HighWaterMonotonic
  CreatedOnce
  ImplementsDurableLog
