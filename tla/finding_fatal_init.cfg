CONSTANTS
  Updaters = {u}
  Senders = {s}
  Users = {}
  Managers = {m}
  Transceivers = {x}
  Frames <- MCFrames
  UnknownFrame = 9
  Data = {a}
  MaxCalls = 3
  CallbackSends = FALSE
  DeviceAnswers = FALSE
  BlockingRecv = FALSE
  FatalErrors = TRUE
SPECIFICATION Spec
INVARIANT NoLockLeftBehind
CHECK_DEADLOCK FALSE
