SPECIFICATION FindSpec
CONSTANTS
  Tables <- MCTables
  OtherNames <- MCOtherNames
INVARIANT FindDecides
CHECK_DEADLOCK FALSE
