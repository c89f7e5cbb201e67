SPECIFICATION FairSpec
CONSTANTS
  Adapters  = {a1, a2, a3}
  Capacity  = 2
  WaitBound = 2
  BatchSize = 3
PROPERTIES
  SettlesAtRest
  RowsCommitted
  CollectorEnds
