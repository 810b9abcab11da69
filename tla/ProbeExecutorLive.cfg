SPECIFICATION FairSpec
CONSTANTS
  Workers = {w1, w2}
  Concurrency = 1
  Threshold = 1
  HasDeadline = TRUE
  MaxRetries = 1
  MaxFaults = 1
  w1 = w1
  w2 = w2
PROPERTY EveryRunReturns
