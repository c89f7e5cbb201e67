SPECIFICATION Spec
CHECK_DEADLOCK FALSE
CONSTANTS
  MaxTokens = 7
  MaxFields = 4
  MaxLines = 5
  MaxBlocks = 5
  MaxFilesInDir = 3
  SizeBits = 8
INVARIANTS
  CapacityIsPowerOfTwo
  ScrubsWindow
  MasksByField
  BlocksInherit
  OperatorWins
  OwnLogsFound
