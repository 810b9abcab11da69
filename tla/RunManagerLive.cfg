\* Retries and recovery across outages; every run ends unless the process hangs.
SPECIFICATION FairSpec
CONSTANTS
  Runs = {r1}
  Emails = {e1, e2}
  Workers = {w1, w2}
  FailEvery = 2
  HasDeadline = FALSE
  MaxFaults = 2
  MaxRestarts = 1
  None = None
CONSTRAINT TwoMisfortunes
ACTION_CONSTRAINT ChoosesFirst
CHECK_DEADLOCK FALSE
INVARIANT CompletedIsAccounted
PROPERTY EveryRunEnds
