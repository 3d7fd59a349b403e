SPECIFICATION Spec
CONSTANTS
  Words <- AllWords
  CommandLines <- PlainLines
  Modules <- InSourceTree
  BadInputs <- NotParsed
  IllTyped <- IllTypedAbc
INVARIANTS TypeOK ActsAsAsked ZeroMeansAll
CHECK_DEADLOCK FALSE
