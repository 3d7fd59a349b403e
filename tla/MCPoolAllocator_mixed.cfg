SPECIFICATION Spec
\* LinearLimit is 10 in the code: here find bisects from 2 objects on
CONSTANTS
  NObjs = 4
  PoolSize = 20
  Pool = 12
  SizeMax = 63
  Requests <- MixedRequests
  LinearLimit = 2
  HasDestr = TRUE
INVARIANTS
  WithinPool
  ObjectsDisjoint
  ObjectsAligned
  FindExact
PROPERTY ImplementsArena
CHECK_DEADLOCK FALSE
