CONSTANTS
  Values <- MCValues
  StaleValues = {0, 1}
  BufferSize = 5
  MaxFrame = 4
  MaxDataBytes = 64
  MaxRecv = 3
  Frames <- MCFrames
  DefaultFrame = 0
  SyncValue <- MCSyncValue
  Sources <- MCSources
  ChecksumEvaluator <- MCChecksum
  CallbackMayThrow = FALSE
  AnyLength = 4
  LongLength = 12
SPECIFICATION FairSpec
INVARIANTS TypeOK FailureStatsSound
PROPERTIES ScanShrinks UpdateReturns
