\* One connection whose queue never fills, and a short history.
SPECIFICATION Spec
CONSTANTS
  Tasks = {t1, t2}
  Threads = {h1}
  Connections = {c1}
  QueueSize = 2
  HistorySize = 2
  None = None
SYMMETRY Symmetry
CHECK_DEADLOCK FALSE
INVARIANT FinishedIsTold
