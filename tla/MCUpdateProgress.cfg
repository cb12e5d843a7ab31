SPECIFICATION FairSpec
CONSTANTS
  a = a
  b = b
  c = c
  k1 = k1
  k2 = k2
  Version = {1, 2}
  Block = {a, b, c}
  Body <- ProgressBodies
  NoBody = NoBody
  NoManifest = NoManifest
  Conn = {k1, k2}
  NoConn = NoConn
  Window = 2
  RetryMax = 2
  Budgets <- ProgressBudgets
PROPERTIES NoDowngrade EveryRunEnds IdIsReleased
CHECK_DEADLOCK FALSE
