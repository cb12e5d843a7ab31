SPECIFICATION Spec
CONSTANTS
  c1 = c1
  c2 = c2
  c3 = c3
  x = x
  y = y
  Conn = {c1, c2, c3}
  NoConn = NoConn
  Silent = {}
  Id = {x, y}
  NoId = NoId
  IdOf <- IdOf3
  Workers = 2
  Capacity = 1
  Slots = 2
SYMMETRY Alike
INVARIANTS TypeOK RegistryIsSessions NothingLeftBehind
CHECK_DEADLOCK FALSE
