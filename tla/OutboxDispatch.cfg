SPECIFICATION FairSpec
CONSTANTS
  r1 = r1
  r2 = r2
  r3 = r3
  n1 = n1
  n2 = n2
  Runs <- MCRuns
  Nodes <- MCNodes
  Host <- MCHost
  NumEvents = 2
  Limit = 1
  MaxAttempts = 2
  MaxRedisFaults = 1
  MaxMongoFaults = 1
  MaxCrashes = 1
INVARIANT ClaimExclusive
INVARIANT StrandedBound
PROPERTY ImplementsContract
PROPERTY SettlesEventually
CHECK_DEADLOCK FALSE
