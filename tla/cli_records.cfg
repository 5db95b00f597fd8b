SPECIFICATION Spec
CONSTANTS
  Configs = {"regular", "offline", "changeset", "session", "init", "update", "settings"}
  Procs = {p1, p2}
  OneProc = {p0}
  Names = {n1, n2}
  Contents = {c1, c2}
  OtherContent = c0
  Workflows = {w1, w2}
  Mine = mine
  Other = other
  Nobody = nobody
  Rotates = TRUE
  cacheDuration = 1
  FirstInstall = 1
  MaxCommands = 3
  MaxRuns = 3
  MaxInits = 2
  MaxMinted = 3
  MaxVersion = 2
  MaxTime = 3
  MaxDirs = 3
INVARIANTS TypeOK SessionKept ChecksAreFresh SettingsAreJustified
PROPERTIES ChecksMatchContract PauseNotUndone SuccessMeansDone KeptUnlessAgreed
SYMMETRY RecordSymmetry
CHECK_DEADLOCK FALSE
