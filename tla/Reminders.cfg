SPECIFICATION Spec
CONSTANTS
  t1 = t1
  t2 = t2
  p1 = p1
  p2 = p2
  None = None
  Tasks <- MCTasks
  Addressed <- MCAddressed
  Processes <- MCProcesses
  Slots = {1}
  Workers = 2
  MaxFaults = 1
  MaxStops = 1
INVARIANTS
  DuplicateAccounted
  MarkedMeansSent
  JobsNotCut
PROPERTIES
  EventuallyReminded
