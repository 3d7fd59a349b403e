SPECIFICATION Spec
CONSTANTS
  Params <- BothParams
  Parent <- BothBases
  Kinds <- BothKinds
  NodeSize <- Sizes
  PtrSize = 8
  NodeNObjs = 4
  NodePoolSize = 104
  NodePool = 1000
  RawNObjs = 3
  RawPoolSize = 40
  RawPool = 500
  SizeMax = 65535
  LinearLimit = 10
  StrLens = {0, 2}
  MaxList = 2
  Strangers <- Null
  Throwing = {"M"}
  Counted = {"TreeNode"}
  MaxFailures = 1
  MaxArrays = 1
CONSTRAINT OfOneLibrary
INVARIANTS
  HeapIsRight
  BlocksAccounted
  CountCoversRoot
PROPERTY ImplementsStore
CHECK_DEADLOCK FALSE
