SPECIFICATION Spec
CONSTANTS
  u1 = u1
  u2 = u2
  r1 = r1
  r2 = r2
  r3 = r3
  p1 = p1
  p2 = p2
  i1 = i1
  i2 = i2
  None = None
  Users <- OneUser
  Requests <- TwoRequests
  Processes <- OneProcess
  Sent <- OneSent
  MaxFaults = 0
INVARIANT DeclineHonest
CHECK_DEADLOCK FALSE
