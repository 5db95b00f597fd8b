SPECIFICATION Spec
CONSTANTS
  Procs = {p1}
  Names = {n1}
  Contents = {c1, c2}
  OtherContent = c0
  Type = "changeset"
  SkipConfirmation = FALSE
  MaxActive = 1
  MaxBlock = 3
  MaxCommands = 2
INVARIANT DeletePreparesAll
CHECK_DEADLOCK FALSE
