SPECIFICATION ManifestFairSpec
CONSTANTS
  w1 = w1
  Reader = {w1}
  Version = {1, 2}
  DataLen = 2
  ReadLen = 10
  MaxEntries = 4
  Content <- Packages
  Conf <- Confs
  NoFile = NoFile
  MaxEdits = 2
  MaxSignals = 2
  MaxCopies = 1
INVARIANTS SnapshotIsWhole LoadIsAccurate
PROPERTY SignalIsHonoured
CHECK_DEADLOCK FALSE
