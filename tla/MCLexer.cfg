SPECIFICATION SourceSpec
CONSTANTS
  Blanks <- MCBlanks
  Marks <- MCMarks
  Uppers <- MCUppers
  Lowers <- MCLowers
  Digits <- MCDigits
  Quotes <- MCQuotes
  Controls <- MCControls
  NL = "newline"
  Hash = "#"
  Backslash = "backslash"
  ListWord <- MCListWord
  Texts <- MCTexts
  DumpWidth = 2
  Trees <- MCTrees
  Nul = "nul"
  Space = "_"
  IndentSteps <- MCIndentSteps
INVARIANTS
  StaysInInput
  ReadsText
  RefusesRightly
  PositionsExact
  ErrorsAreShown
  ReadsBack
  LayoutFollowsLevels
PROPERTIES
  Terminates
CHECK_DEADLOCK FALSE
