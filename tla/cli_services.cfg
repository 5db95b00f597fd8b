SPECIFICATION Spec
CONSTANTS
  Configs = {"build", "link", "linkMsig", "secrets", "secretsMsig", "login", "simulate"}
  Procs = {p1, p2}
  OneProc = {p0}
  Names = {n1, n2}
  Contents = {c1, c2}
  OtherContent = c0
  Accounts = {a1, a2}
  NoAccount = none
  Keys = {k1, k2}
  Tabs = {t1}
  Chains = {h1, h2}
  Supported = {h1}
  Forwarders = {f1, f2}
  Official = f1
  NoForwarder = NoForwarder
  NoChain = NoChain
  HasConfig = TRUE
  Attempts = 2
  MaxRetries = 3
  MaxCommands = 3
  MaxRuns = 3
  MaxRequests = 2
  MaxLinks = 3
  MaxClock = 2
  MaxRounds = 5
  MaxReloads = 2
  MaxExperimental = 2
  MaxTriggers = 2
  MaxEdits = 1
INVARIANTS TypeOK RegisteredIsStored SoloDeployIsFresh CheckedIsAccepted PostedWasAllowlisted PreparedHasBundle SuccessMeansDone CodeMeetsVerifier SimulatedAsAsked
PROPERTIES OwnershipJustified
SYMMETRY ServiceSymmetry
CHECK_DEADLOCK FALSE
