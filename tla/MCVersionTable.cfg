SPECIFICATION FairSpec
CONSTANTS
  a = a
  b = b
  c = c
  Client = {a, b}
  Id = {a, b, c}
  NoOne = NoOne
  NoFile = NoFile
  Version = {1, 2}
  MaxLines = 4
  Tables <- SoundTables
  Runs = 3
  Faults = 2
INVARIANTS TypeOK TableNeverTorn OwnRowIsStable
PROPERTIES ImplementsVersionRows EveryClientEnds
CHECK_DEADLOCK FALSE
