SPECIFICATION CatalogSpec
CONSTANTS
  r1 = r1
  r2 = r2
  r3 = r3
  p1 = p1
  p2 = p2
  admin = admin
  member = member
  None = None
  Requests <- MCRequests
  Processes <- MCProcesses
  Users <- MCUsers
  Admins <- MCAdmins
  Owner = member
  Mixes <- MCMixes
  MaxTask = 3
  Existing <- MCExisting
  PageSize = 1
  Queries <- MCQueries
  MaxFaults = 1
SYMMETRY MCSymmetry
INVARIANTS
  WalkComplete
  PagesArePrivate
  ReadsFresh
  CreationAtomic
CHECK_DEADLOCK FALSE
