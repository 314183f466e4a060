SPECIFICATION Spec
CONSTANTS
  r1 = r1
  r2 = r2
  r3 = r3
  u1 = u1
  u2 = u2
  First = First
  None = None
  Requests <- MCRequests
  Users <- MCUsers
  Fields <- MCFields
  Defaults <- MCDefaults
  Changes <- MCChanges
  MaxFaults = 1
SYMMETRY MCSymmetry
INVARIANTS
  CreationAccounted
  UpdatesKept
  FlagAnswersAgree
CHECK_DEADLOCK FALSE
