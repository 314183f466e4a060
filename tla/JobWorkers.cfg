SPECIFICATION FairSpec
CONSTANTS
  j1 = j1
  w1 = w1
  w2 = w2
  NoWorker = NoWorker
  Jobs <- MCJobs
  Workers <- MCWorkers
  MaxJobAttempts = 3
  MaxStalledCount = 1
  MaxEffectFaults = 3
  MaxCallFaults = 2
  MaxLosses = 2
  MaxAdds = 2
INVARIANT RepeatsAccounted
INVARIANT CompletedMeansDone
INVARIANT DeadLetterAgrees
PROPERTY EveryJobEnds
CHECK_DEADLOCK FALSE
