SPECIFICATION Spec
CONSTANTS
  Words <- AllWords
  CommandLines <- NestedLines
  Modules <- InSourceTree
  BadInputs <- NotParsed
  IllTyped <- IllTypedAbc
INVARIANTS OptionsAreOwn
CHECK_DEADLOCK FALSE
