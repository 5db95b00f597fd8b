SPECIFICATION Spec
CONSTANTS
  Tabs = {t1}
  MaxRetries = 1
  MaxRounds = 2
  MaxReloads = 1
PROPERTY LoginEnds
CHECK_DEADLOCK FALSE
