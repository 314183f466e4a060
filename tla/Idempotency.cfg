SPECIFICATION KeySpec
CONSTANTS
  q1 = q1
  q2 = q2
  q3 = q3
  q4 = q4
  b1 = b1
  b2 = b2
  NoRequest = NoRequest
  KeyRequests <- MCRequests
  Bodies <- MCBodies
  Body <- MCBody
  MaxIncidents = 2
INVARIANT OneResourceUndisturbed
INVARIANT ReplayIsGenuine
INVARIANT ReservationHasHolder
PROPERTY StoredResponseKept
SYMMETRY MCSymmetry
CHECK_DEADLOCK FALSE
