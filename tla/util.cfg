CONSTANTS
  Base = 4
  MaxDataBytes = 4
  Calls <- MCCalls
SPECIFICATION Spec
INVARIANTS TypeOK SearchesAreExact DeletesOnlyTheField FramesAreBuilt FieldsAreExact ValuesArrive
PROPERTY CallsEnd
CHECK_DEADLOCK FALSE
