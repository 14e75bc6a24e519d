CONSTANTS
  verify = verify
  git = git
  resolver = resolver
  agent = agent
  NoJob = NoJob
  Verify <- OneVerify
  Git <- NoOne
  MergeAgent <- NoOne
  Agent <- OneAgent
  Shapes <- TidyShapes
SPECIFICATION Spec
INVARIANTS
  EverySpawnRegisters
CHECK_DEADLOCK FALSE
