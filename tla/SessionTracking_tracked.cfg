SPECIFICATION Spec
CONSTANTS
  stale_multiple = 1
  Attached   = {"message_log", "event_log"}
  HeartBtInt = 1
  MaxLines   = 7
  MaxNow     = 3
INVARIANTS
  InStepStateFollows
  CountersAgree
  StaleMeansSilent
