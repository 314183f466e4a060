SPECIFICATION Spec
CONSTANTS
  r1 = r1
  r2 = r2
  r3 = r3
  None = None
  Initial = Initial
  Requests <- ThreeRequests
  MaxAborts = 2
  MaxRejections = 1
  MaxCrashes = 1
INVARIANT CompletionsLogged
INVARIANT AnswersHonest
INVARIANT FilesAgree
PROPERTY NoLostUpdate
PROPERTY DeletedIsFinal
SYMMETRY MCSymmetry
CHECK_DEADLOCK FALSE
