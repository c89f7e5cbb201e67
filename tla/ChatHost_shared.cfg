SPECIFICATION Spec
CONSTANTS
  r1 = r1
  r2 = r2
  r3 = r3
  ann = ann
  bob = bob
  Requests = {r1, r2}
  UserOf <- OneUser
  max_tool_rounds = 2
  max_messages = 3
  CallCounts  = {0, 2}
  MaxResets   = 0
  MaxFailures = 0
INVARIANTS
  NeverSeparated
