CONSTANTS
  Updaters = {u}
  Senders = {s}
  Users = {w}
  Managers = {m}
  Transceivers = {x, y}
  Frames <- MCFrames
  UnknownFrame = 9
  Data = {a}
  MaxCalls = 5
  CallbackSends = TRUE
  DeviceAnswers = FALSE
  BlockingRecv = FALSE
  FatalErrors = TRUE
SPECIFICATION FairSpec
INVARIANTS TypeOK LocksMatchSections TransceiverUsedWhileOpen EmptyOnlyWhileStoring SentFieldsWereHeld
PROPERTY EveryCallEnds
CHECK_DEADLOCK FALSE
