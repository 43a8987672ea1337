CONSTANTS
  w1 = w1
  w2 = w2
  Worker = {w1, w2}
  Socket = socket
  Fd = {1, 2}
  MaxFiles = 2
  MaxConns = 2
  Peer <- Peers
  Capacity = 2
  MaxArrivals = 4
SPECIFICATION EngineSpec
SYMMETRY Workers
INVARIANTS
  TablesAgree
  ExitCloses
  DatagramsExact
  NoneUnnoticed
PROPERTIES
  BoundIsKept
CHECK_DEADLOCK FALSE
