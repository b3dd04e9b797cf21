SPECIFICATION ReadSpec
CONSTANTS
  Key <- MCKey
  Hive <- MCHive
  Chunk <- MCChunks
  Upload <- MCUpload
  Persistent = TRUE
  SaveFaults = {"late_error"}
  NoKey = NoKey
  NoHive = NoHive
  NoChunk = NoChunk
  NoDocument = NoDocument
  Token = {"t1"}
  Lifetime = 0
  LastTick = 1
  Stamp <- MCStamp
  IdRank <- MCIdRank
  Limit = 4
  MaxLimit = 3
VIEW WithoutAnswers
INVARIANTS
  ReadTypeOK
  RefusedStaysRefused
  ShownDurable
  MissesOnlyLate
  PagedAll
  WindowRight
