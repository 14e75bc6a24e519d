CONSTANTS
  Task = {a, b}
  a = a
  b = b
  dev = dev
  main = main
  Verified = {a}
  Start = dev
  Main = main
  None = None
  Detached = Detached
  MaxCommits = 2
  MaxMerges = 2
  MaxSessions = 2
  Signals = TRUE
  Crashes = TRUE
SPECIFICATION Spec
INVARIANTS
  TypeOK
  SuccessHasLanded
  CleanBase
  MergeInv
PROPERTIES
  BranchKeepsWork
CHECK_DEADLOCK FALSE
