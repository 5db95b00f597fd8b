SPECIFICATION Spec
CONSTANTS
  Users = {alice, bob}
  Enclaves = {enclave}
  Shielded = {shielded}
  Tickets = {ticket1}
  ZeroTicket = zeroTicket
  Hashes = {hash1, hash2}
  ZeroHash = zeroHash
  MinTimeout = 1
  MaxTimeout = 2
  MaxPremiumBps = 1
  Timeouts = {0, 1, 2}
  Premiums = {1, 2}
  Amounts = {1}
  MaxTime = 2
  MaxRequests = 2
  MaxVersion = 2
  MaxPool = 1
INVARIANT ResultTellsFill
CHECK_DEADLOCK FALSE
