CONSTANTS
  Values <- MCValues
  StaleValues = {1}
  BufferSize = 50
  MaxFrame = 8
  MaxDataBytes = 64
  MaxRecv = 8
  Frames <- MCFrames
  DefaultFrame = 0
  SyncValue <- MCSyncValue
  Sources <- MCSources
  ChecksumEvaluator <- MCChecksum
  CallbackMayThrow = TRUE
  MaxDatagrams = 3
  MaxMessages = 2
SPECIFICATION FairSpec
INVARIANTS PassedAreWhole BufferHoldsLatestBytes FieldsHoldLatest DeliveredWereReceived RedeliveredUntilHandled
PROPERTIES ImplementsFrameStream EveryMessageHandled
