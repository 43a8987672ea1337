CONSTANTS
  p1 = p1
  p2 = p2
  p3 = p3
  w1 = w1
  w2 = w2
  Worker = {w1, w2}
  Socket = socket
  NoThread = none
  NoPacket = none
  Packet = {p1, p2, p3}
  PktLen <- Lens
  Low = {p2, p3}
  Room = 1
  WarningSize = 1
  ReadMin = 1
  ReadMax = 2
  Opened = {"accept", "connect"}
  Ops = {"write", "linger"}
  MaxFlips = 0
  MaxInput = 0
SYMMETRY TwoWorkers
SPECIFICATION Spec
INVARIANTS
  StreamIntact
  BacklogExact
CHECK_DEADLOCK FALSE
