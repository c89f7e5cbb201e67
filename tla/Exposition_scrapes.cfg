SPECIFICATION FairSpec
CONSTANTS
  Main = main
  Writers = {main, other}
  Series = {msgs, lines, depth, secret}
  Gauges = {depth}
  Secret = {secret}
  Mirrored = {lines}
  MaxSeries = 1
  MaxUpdates = 2
  MaxSource = 1
  Clients = {c1, c2}
  NoClient = NoClient
  CloseWakes = FALSE
  MaxLeavers = 1
INVARIANTS
  IInv
  UpdatesAccounted
  PageIsCurrent
PROPERTIES
  CountersNeverFall
  StopReturns
  ClientsServed
