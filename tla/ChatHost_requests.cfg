SPECIFICATION Spec
CONSTANTS
  r1 = r1
  r2 = r2
  r3 = r3
  ann = ann
  bob = bob
  Requests = {r1, r2, r3}
  UserOf <- TwoUsers
  max_tool_rounds = 2
  max_messages = 3
  CallCounts  = {0, 1}
  MaxResets   = 1
  MaxFailures = 1
SYMMETRY Symmetry
INVARIANTS
  OwnMessagesOnly
  AuditComplete
  ResetForgets
  TurnsStayWhole
