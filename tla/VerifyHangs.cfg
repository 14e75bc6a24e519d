CONSTANTS
  verify = verify
  git = git
  resolver = resolver
  agent = agent
  NoJob = NoJob
  Verify <- OneVerify
  Git <- NoOne
  MergeAgent <- NoOne
  Agent <- NoOne
  Shapes <- BackgroundShapes
SPECIFICATION FairSpec
PROPERTIES
  VerifyEnds
CHECK_DEADLOCK FALSE
