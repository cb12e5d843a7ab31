SPECIFICATION FairSpec
CONSTANTS
  w1 = w1
  w2 = w2
  Reader = {w1, w2}
  Acceptor = Acceptor
  Reloader = Reloader
  Main = Main
  Thread = {w1, w2, Acceptor, Reloader, Main}
  MaxAccepts = 1
  Version = {1, 2}
  DataLen = 2
  ReadLen = 10
  MaxEntries = 4
  Content <- Packages
  Conf <- Confs
  NoFile = NoFile
  MaxEdits = 0
  MaxSignals = 1
  MaxCopies = 1
  QueueCap = 2
  RingCap = 2
  MaxCalls = 6
INVARIANTS TypeOK WrittenInOrder DropsReported RecentIsTail JoinedLogsKept LogsBeforeStopKept
PROPERTY ShutdownEnds
CHECK_DEADLOCK FALSE
