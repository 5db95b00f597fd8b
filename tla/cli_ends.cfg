SPECIFICATION FairSpec
CONSTANTS
  Configs = {"build", "link", "secrets", "login", "simulate"}
  Procs = {p1, p2}
  OneProc = {p0}
  Names = {n1, n2}
  Contents = {c1, c2}
  OtherContent = c0
  Accounts = {a1, a2}
  NoAccount = none
  Keys = {k1}
  Tabs = {t1}
  Chains = {h1, h2}
  Supported = {h1}
  Forwarders = {f1, f2}
  Official = f1
  NoForwarder = NoForwarder
  NoChain = NoChain
  HasConfig = TRUE
  Attempts = 2
  MaxRetries = 3
  MaxCommands = 2
  MaxRuns = 2
  MaxRequests = 1
  MaxLinks = 2
  MaxClock = 1
  MaxRounds = 5
  MaxReloads = 0
  MaxExperimental = 0
  MaxTriggers = 1
  MaxEdits = 1
PROPERTY CommandsEnd
CHECK_DEADLOCK FALSE
