CONSTANTS
  a = a
  b = b
  c = c
  d = d
  NoTask = NoTask
  Task <- JoinTask
  Deps <- JoinDeps
  Files <- JoinFiles
  Subtasks <- JoinSubtasks
  Verified = {a}
  MaxConcurrency = 2
  MaxRetries = 1
  MaxSessions = 1
  Signals = TRUE
  Crashes = FALSE
  ResetsOfOne = FALSE
SPECIFICATION FairSpec
INVARIANTS
  NoDeadlock
PROPERTIES
  RunEnds
CHECK_DEADLOCK FALSE
