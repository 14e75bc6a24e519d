CONSTANTS
  Ladder = 2
  BaseModel = 1
  Models = {1}
  MaxRetries = 1
  MaxAgents = 2
  MaxAttempts = 3
  MaxPlans = 0
SPECIFICATION Spec
INVARIANTS
  SplitWhenAsked
CHECK_DEADLOCK FALSE
