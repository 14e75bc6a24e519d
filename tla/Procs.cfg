CONSTANTS
  verify = verify
  git = git
  resolver = resolver
  agent = agent
  NoJob = NoJob
  Verify <- OneVerify
  Git <- OneGit
  MergeAgent <- OneResolver
  Agent <- OneAgent
  Shapes <- TidyShapes
SPECIFICATION FairSpec
INVARIANTS
  TypeOK
  RunningIsTracked
  SweptAreGone
  KilledIsCancelled
  AgentsLeaveNothing
  ExitLeavesNoLeader
PROPERTIES
  VerifyEnds
  ShutdownEnds
CONSTRAINT TwoCommands
CHECK_DEADLOCK FALSE
