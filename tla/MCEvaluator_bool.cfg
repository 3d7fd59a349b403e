SPECIFICATION Spec
CONSTANTS
  Types <- AbcTypes
  Makers <- AbcMakers
  AstClasses <- AbcClasses
  Prints <- AbcPrints
  Trees <- AllTrees
  Modes <- TypeMaker
  MaxNodes = 6
  MaxBlocks = 1
INVARIANT TypeCheckDecides
CHECK_DEADLOCK FALSE
