CONSTANTS
  Updaters = {u}
  Senders = {s}
  Users = {w}
  Managers = {}
  Transceivers = {x}
  Frames <- MCFrames
  UnknownFrame = 9
  Data = {a}
  MaxCalls = 4
  CallbackSends = FALSE
  DeviceAnswers = TRUE
  BlockingRecv = TRUE
  FatalErrors = FALSE
SPECIFICATION FairSpec
PROPERTY SendReturns
CHECK_DEADLOCK FALSE
