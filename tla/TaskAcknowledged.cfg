SPECIFICATION Spec
CONSTANTS
  r1 = r1
  r2 = r2
  r3 = r3
  None = None
  Initial = Initial
  Requests <- TwoRequests
  MaxAborts = 1
  MaxRejections = 0
  MaxCrashes = 0
INVARIANT AcknowledgedUpdateStored
CHECK_DEADLOCK FALSE
