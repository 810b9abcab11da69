\* Slots, cancellations, retries and the end of the service; nobody listens.
SPECIFICATION FairSpec
CONSTANTS
  Tasks = {t1, t2}
  Threads = {h1, h2}
  Connections = {}
  QueueSize = 1
  HistorySize = 1
  None = None
CHECK_DEADLOCK FALSE
INVARIANTS SlotsExact WorkedOn
PROPERTIES LifecycleSpec EveryTaskEnds
