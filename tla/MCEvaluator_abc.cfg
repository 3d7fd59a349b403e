SPECIFICATION Spec
CONSTANTS
  Types <- AbcTypes
  Makers <- AbcMakers
  AstClasses <- AbcClasses
  Prints <- AbcPrints
  Trees <- AllTrees
  Modes <- BothMakers
  MaxNodes = 6
  MaxBlocks = 1
INVARIANTS
  StackIsSound
  OutcomeIsTyping
  PrintsItself
PROPERTY UsesStore
CHECK_DEADLOCK FALSE
