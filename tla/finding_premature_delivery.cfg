CONSTANTS
  Values <- MCValues
  StaleValues = {0}
  BufferSize = 12
  MaxFrame = 3
  MaxDataBytes = 64
  MaxRecv = 3
  Frames <- OneFrame
  DefaultFrame = 0
  SyncValue <- MCSyncValue
  Sources <- MidStreamSources
  ChecksumEvaluator <- MCChecksum
  CallbackMayThrow = FALSE
SPECIFICATION Spec
INVARIANT DeliveredWereReceived
