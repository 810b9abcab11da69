\* Two jobs on one slot, of callers that may reclaim a link and one that may not.
SPECIFICATION ManagerFairSpec
CONSTANTS
  Jobs = {j1, j2}
  Requests <- MCRequests
  Internal <- MCInternal
  Permits = 1
  MaxQueued = 2
  MaxPerDevice = 1
  MaxTotal = 2
  MaxPrompts = 1
  MaxInputs = 1
CHECK_DEADLOCK FALSE
INVARIANTS PermitsExact OneOwnerPerLink
PROPERTIES NeverReopens EveryJobEnds
