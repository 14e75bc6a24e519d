CONSTANTS
  Task = {a, b}
  a = a
  b = b
  dev = dev
  main = main
  Verified = {a}
  Start = dev
  Main = main
  None = None
  Detached = Detached
  MaxCommits = 2
  MaxMerges = 2
  MaxSessions = 1
  Signals = FALSE
  Crashes = FALSE
SPECIFICATION Spec
INVARIANTS
  MergedStaysMerged
CHECK_DEADLOCK FALSE
