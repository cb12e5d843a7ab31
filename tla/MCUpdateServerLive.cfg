SPECIFICATION FairSpec
CONSTANTS
  c1 = c1
  c2 = c2
  c3 = c3
  x = x
  y = y
  Conn = {c1, c2}
  NoConn = NoConn
  Silent = {}
  Id = {x, y}
  NoId = NoId
  IdOf <- IdOf2
  Workers = 2
  Capacity = 1
  Slots = 1
PROPERTIES ShutdownCompletes AcceptedIsSettled
CHECK_DEADLOCK FALSE
