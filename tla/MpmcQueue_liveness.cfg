SPECIFICATION FairSpec
CONSTANTS
  Producers = {p1, p2}
  Consumers = {c1, c2}
  Values    = {v1}
  NoValue   = NoValue
  Capacity  = 2
  MaxPush   = 3
PROPERTIES
  PushReturns
  EverythingTaken
