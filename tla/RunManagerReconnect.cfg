\* Starts, crashes and shutdowns, and recovery after an outage.
SPECIFICATION Spec
CONSTANTS
  Runs = {r1, r2}
  Emails = {e1}
  Workers = {w1}
  FailEvery = 2
  HasDeadline = TRUE
  MaxFaults = 1
  MaxRestarts = 1
  None = None
SYMMETRY AllSymmetry
CHECK_DEADLOCK FALSE
INVARIANTS ConsumedHasAccount NothingLeftBehind
PROPERTIES LedgerSpec PoolSpec
