CONSTANTS
  a = a
  b = b
  c = c
  d = d
  NoTask = NoTask
  Task <- ForkTask
  Deps <- ForkDeps
  Files <- ForkFiles
  Subtasks <- ForkSubtasks
  Verified = {a}
  MaxConcurrency = 2
  MaxRetries = 1
  MaxSessions = 2
  Signals = TRUE
  Crashes = TRUE
  ResetsOfOne = TRUE
SPECIFICATION Spec
INVARIANTS
  TypeOK
  StartedAfterDeps
  CancelledForCause
  BudgetKept
  
  StuckOnlyWhenBlocked
  IInv
  InFlightApart
PROPERTIES
  OutcomesAreFinal
  WorkIsKept
  ImplementsLifecycle
CHECK_DEADLOCK FALSE
