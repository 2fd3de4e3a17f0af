CONSTANTS
  Values <- MCValues
  StaleValues = {0}
  BufferSize = 6
  MaxFrame = 3
  MaxDataBytes = 64
  MaxRecv = 3
  Frames <- OneFrame
  DefaultFrame = 0
  SyncValue <- MCSyncValue
  Sources <- NoiseSources
  ChecksumEvaluator <- MCChecksum
  CallbackMayThrow = FALSE
SPECIFICATION FairSpec
PROPERTY EveryMessageHandled
