CONSTANTS
  a = a
  b = b
  c = c
  p = p
  q = q
  NoSpec = NoSpec
  Id <- Ids
  Def = {1, 2}
  Specs <- UserSpecs
  MaxFresh = 1
SPECIFICATION Spec
INVARIANTS
  TypeOK
  CompletedAsPlanned
  OneProject
  OutcomesFitDeps
  GraphIsSound
  UnresolvedAreCyclic
CHECK_DEADLOCK FALSE
