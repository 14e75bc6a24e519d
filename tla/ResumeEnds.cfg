CONSTANTS
  a = a
  b = b
  c = c
  d = d
  NoTask = NoTask
  Task <- VeeTask
  Deps <- VeeDeps
  Files <- VeeFiles
  Subtasks <- VeeSubtasks
  Verified = {}
  MaxConcurrency = 2
  MaxRetries = 0
  MaxSessions = 2
  Signals = TRUE
  Crashes = FALSE
  ResetsOfOne = FALSE
SPECIFICATION FairSpec
PROPERTIES
  RunEnds
CHECK_DEADLOCK FALSE
