SPECIFICATION LifeSpec
CONSTANTS
  Proxies = {p1, p2, p3}
  RetryCount = 1
  MaxRotations = 1
  MaxTroubles = 3
  MaxRuns = 2
  p1 = p1
  p2 = p2
  p3 = p3
SYMMETRY ProxySymmetry
PROPERTY KeepsContract
INVARIANT BackfillKept
