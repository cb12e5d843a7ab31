SPECIFICATION FairSpec
CONSTANTS
  Item = {c1, c2, c3, c4}
  NoItem = NoItem
  Worker = {w1, w2, w3}
  Capacity = 2
INVARIANTS TypeOK NoLostWakeup
PROPERTIES ImplementsWorkQueue EveryConnectionServed ShutdownReleasesWorkers
CHECK_DEADLOCK FALSE
