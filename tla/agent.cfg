SPECIFICATION AgentFairSpec
CONSTANTS
  Accounts = {deployer, other}
  Owner = deployer
  MaxEvents = 2
  MaxBlocks = 3
  MaxRestarts = 1
  DryRun = FALSE
  ReportingEnabled = TRUE
  MaxErrors = 1
INVARIANTS
  AgentTypeOK
  HandedIsMinedPrefix
  InformedWhenCaughtUp
  MetricsConsistent
  RecoveriesAnswerEvents
  TransfersFunded
  SuccessMeansSent
  TradesBoundedByReplays
PROPERTIES
  StreamSpec
  IdleAgain
  FirstIncidentAttempted
  EventsAreDelivered
CHECK_DEADLOCK FALSE
