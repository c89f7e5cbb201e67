SPECIFICATION Spec
CONSTANTS
  MaxRows     = 3
  MaxTime     = 3
  MaxFailures = 2
  MaxCrashes  = 1
INVARIANTS
  LossIsCounted
  RowsWrittenReal
  PurgeIsExact
PROPERTIES
  WholeOrNothing
