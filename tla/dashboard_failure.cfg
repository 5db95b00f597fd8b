SPECIFICATION DashboardSpec
CONSTANTS
  Accounts = {deployer}
  Owner = deployer
  MaxEvents = 0
  MaxBlocks = 0
  MaxRestarts = 0
  Requests = {r1, r2}
  SmallDelay = 1
  LargeDelay = 2
  SmallExpiry = 2
  LargeExpiry = 3
  FailureExpiry = 4
  MaxTime = 5
PROPERTY FailurePersists
CHECK_DEADLOCK FALSE
