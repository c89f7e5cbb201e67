SPECIFICATION FairSpec
CONSTANTS
  MaxFiles    = 3
  MaxLines    = 2
  MaxRestarts = 1
INVARIANTS
  LinesInOrder
PROPERTIES
  LinesArrive
