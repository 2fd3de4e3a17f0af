CONSTANTS
  Values <- MCValues
  StaleValues = {0}
  BufferSize = 32
  MaxFrame = 8
  MaxDataBytes = 64
  MaxRecv = 16
  Frames <- MCFrames
  DefaultFrame = 0
  SyncValue <- MCSyncValue
  Sources <- NothingSent
  ChecksumEvaluator <- MCChecksum
  ChecksumGenerator <- MCGenerator
  CallbackMayThrow = FALSE
  FieldData <- MCFieldData
  MaxSends = 2
SPECIFICATION FairLinkSpec
PROPERTIES LinkImplementsQueue SentAreHandled
