CONSTANTS
  Ladder = 2
  BaseModel = 1
  Models = {1, 3}
  MaxRetries = 1
  MaxAgents = 2
  MaxAttempts = 3
  MaxPlans = 1
SPECIFICATION Spec
INVARIANTS
  TypeOK
  WorkIsThere
  NothingFromStale
PROPERTIES
  NeverWeaker
CHECK_DEADLOCK FALSE
