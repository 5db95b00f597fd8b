SPECIFICATION DashboardSpec
CONSTANTS
  Accounts = {deployer}
  Owner = deployer
  MaxEvents = 2
  MaxBlocks = 1
  MaxRestarts = 0
  Requests = {r1, r2, r3}
  SmallDelay = 1
  LargeDelay = 1
  SmallExpiry = 2
  LargeExpiry = 2
  FailureExpiry = 3
  MaxTime = 3
INVARIANTS
  DashboardTypeOK
  ScenariosNotMixed
PROPERTY Spec
SYMMETRY RequestSymmetry
CHECK_DEADLOCK FALSE
