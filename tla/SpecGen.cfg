CONSTANTS
  Capacity = 1
  MaxOutput = 3
  MaxRevisions = 1
SPECIFICATION FairSpec
INVARIANTS
  TypeOK
  ErrorsAreTold
  NoneLeftBehind
PROPERTIES
  CallEnds
CHECK_DEADLOCK FALSE
