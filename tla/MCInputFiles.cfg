SPECIFICATION Spec
CONSTANTS
  Regulars <- MCRegulars
  Devices <- MCDevices
  Missing <- MCMissing
  MaxSize = 8
  Inc = 4
  Chunk = 2
  Longest = 10
  MaxInputs = 2
INVARIANTS
  StaysInBuffer
  HoldsInput
  RefusedAreLarge
  DescriptorsRight
PROPERTIES
  Terminates
CHECK_DEADLOCK FALSE
