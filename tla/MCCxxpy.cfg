SPECIFICATION Spec
CONSTANTS
  Types <- CxxpyTypes
  Makers <- CxxpyMakers
  AstClasses <- CxxpyClasses
  Prints <- CxxpyPrints
  Trees <- CxxpyTrees
  Modes <- NodeMaker
  MaxNodes = 20
  MaxBlocks = 20
INVARIANTS
  OutcomeIsTyping
  CastsAreSafe
  AstIsTree
  PrintsItself
CHECK_DEADLOCK FALSE
