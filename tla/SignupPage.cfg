SPECIFICATION Spec
CONSTANTS
  MaxAttempts = 2
  MaxTroubles = 1
INVARIANTS
  FreshCode
  StoredAccountExists
  FullSuccessIsUsable
PROPERTY KeepsContract
