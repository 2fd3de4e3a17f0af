CONSTANTS
  Values <- MCValues
  StaleValues = {0}
  BufferSize = 6
  MaxFrame = 3
  MaxDataBytes = 64
  MaxRecv = 6
  Frames <- OneFrame
  DefaultFrame = 0
  SyncValue <- MCSyncValue
  Sources <- TwoMessageSources
  ChecksumEvaluator <- MCChecksum
  CallbackMayThrow = FALSE
SPECIFICATION Spec
PROPERTY RemovalKeepsTheRest
