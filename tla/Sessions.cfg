SPECIFICATION Spec
CONSTANTS
  r1 = r1
  r2 = r2
  r3 = r3
  p1 = p1
  p2 = p2
  First = First
  None = None
  Requests <- ThreeRequests
  Passwords <- TwoPasswords
  MaxAttempts = 2
  MaxUses = 2
  MaxFaults = 1
SYMMETRY MCSymmetry
INVARIANTS
  TokenUsedOnce
  EndedSessionStaysEnded
  LimitsHold
  CounterExpires
  DeletedNotListed
CHECK_DEADLOCK FALSE
