\* A run that registers, a bulk job, plan checks and what the pages do meanwhile.
SPECIFICATION Spec
CONSTANTS
  m1 = m1
  None = None
  Masters = {m1, m2}
  Limit = 2
  MaxRequests = 4
  Workers = {w1, w2}
  Manual = {x1}
  Target = 2
  LoginAttempts = 2
  BrowserSlots = 2
  Runs = {r1, r2}
  Checks = {c1, c2}
  Proxies = {p1}
  Pool <- MCPool
  Stocked <- MCStocked
  Members <- MCMembers
SYMMETRY Symmetric
CONSTRAINT FirstIsThere
CHECK_DEADLOCK FALSE
INVARIANTS WithinTarget CountsAddUp TakenOnce ChecksApart TokenKept
PROPERTY StoresWhatExists
