SPECIFICATION Spec
CONSTANTS
  Workers = {w1, w2, w3}
  Concurrency = 2
  Threshold = 2
  HasDeadline = FALSE
  MaxRetries = 0
  MaxFaults = 1
  w1 = w1
  w2 = w2
  w3 = w3
SYMMETRY Symmetry
INVARIANTS CountsMatch SlotsBounded BreakerExact NothingLeft
