SPECIFICATION Spec
CONSTANTS
  Adapters    = {m1, e1}
  MessageLogs = {m1}
  Main        = main
  NoEvent     = NoEvent
  Capacity    = 2
  WaitBound   = 1
  BatchSize   = 2
  MaxLines    = 2
  MaxErrors   = 1
INVARIANTS
  IInv
  EveryLineAccounted
  LogOrder
  ShutdownLosesNothing
PROPERTIES
  DropMeansBehind
