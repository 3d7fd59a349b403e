SPECIFICATION SourceSpec
CONSTANTS
  Blanks <- MCBlanks
  Marks <- MCMarks
  Uppers <- MCUppers
  Lowers <- MCLowers
  Digits <- MCDigits
  Quotes <- MCQuotes
  Controls <- MCControls
  NL = "newline"
  Hash = "#"
  Backslash = "backslash"
  ListWord <- MCListWord
  Texts <- NoTexts
  DumpWidth = 2
  Trees <- QuotedTrees
  Nul = "nul"
  Space = "_"
  IndentSteps <- MCIndentSteps
INVARIANT PrettySaysInput
CHECK_DEADLOCK FALSE
