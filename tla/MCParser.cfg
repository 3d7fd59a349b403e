SPECIFICATION Spec
CONSTANTS
  Idents <- MCIdents
  Names <- MCNames
  Strs <- MCStrs
  Nums <- MCNums
  BigNums <- MCBigNums
  MaxLexemes = 22
  MaxNodes = 14
INVARIANTS
  StateIsSound
  AcceptsGrammar
  ErrorsAreExact
  AstSaysInput
  AstIsTree
PROPERTIES
  Terminates
CHECK_DEADLOCK FALSE
