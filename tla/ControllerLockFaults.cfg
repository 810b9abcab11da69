\* Late, failing and dying holders.
SPECIFICATION FairSpec
CONSTANTS
  Runs = {r1}
  Probes = {p1}
  Backfills = {b1}
  Proxies = {x1}
  None = None
  Lease = 4
  LongLease = 3
  Beat = 1
  ProbeBeat = 2
  Prepare = 1
  Stop = 1
  Answer = 1
  Faults = TRUE
CHECK_DEADLOCK FALSE
INVARIANT SteadyHolds
PROPERTIES LeaseChangesHands LosersStop EndedIsFreed
