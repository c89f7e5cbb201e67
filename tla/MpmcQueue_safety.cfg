SPECIFICATION Spec
CONSTANTS
  Producers = {p1, p2}
  Consumers = {c1, c2}
  Values    = {v1, v2}
  NoValue   = NoValue
  Capacity  = 2
  MaxPush   = 4
SYMMETRY Symmetry
INVARIANTS
  OneOwnerPerCell
  IInv
PROPERTIES
  EmptyMeansDrained
  FullMeansFull
  ImplementsFifo
