SPECIFICATION Spec
CONSTANTS
  j1 = j1
  w1 = w1
  w2 = w2
  h1 = h1
  h2 = h2
  NoWorker = NoWorker
  Jobs <- MCJobs
  Workers <- MCWorkers
  Hooks <- MCHooks
  MaxJobAttempts = 2
  MaxStalledCount = 1
  MaxPostFaults = 1
  MaxCallFaults = 1
  MaxLosses = 1
  MaxAdds = 2
INVARIANT ProcessedMeansReceived
INVARIANT FailuresIsolated
INVARIANT OutcomeAgreesWithLog
SYMMETRY MCSymmetry
CHECK_DEADLOCK FALSE
