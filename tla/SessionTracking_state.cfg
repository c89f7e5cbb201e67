SPECIFICATION Spec
CONSTANTS
  stale_multiple = 2
  Attached   = {"message_log", "event_log"}
  HeartBtInt = 1
  MaxLines   = 6
  MaxNow     = 5
INVARIANTS
  StateFollowsEngine
