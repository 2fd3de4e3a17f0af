CONSTANTS
  maxQueueSize = 1
  BufSize = 2
  MaxBytes = 3
  MaxPacket = 3
SPECIFICATION FairSpec
INVARIANTS TypeOK ForwardedInOrder LostOnlyUnsent UsedWhileOpen
PROPERTY StopsAfterInterrupt
CHECK_DEADLOCK FALSE
