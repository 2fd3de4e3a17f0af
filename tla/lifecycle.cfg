CONSTANTS
  KindOf <- MCKindOf
  Programs <- MCPrograms
  NodeObjects <- MCNodeObjects
  MaxFds = 4
  MaxCalls = 4
  MaxForeign = 1
SPECIFICATION FairSpec
INVARIANTS TypeOK UsesOwnFiles OnlyPairsRob LeaksBoundedByFailures OpenIffInstalled
PROPERTY NodeConnects
CHECK_DEADLOCK FALSE
