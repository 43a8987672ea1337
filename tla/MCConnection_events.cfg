CONSTANTS
  p1 = p1
  p2 = p2
  p3 = p3
  w1 = w1
  w2 = w2
  Worker = {w1}
  Socket = socket
  NoThread = none
  NoPacket = none
  Packet = {p1}
  PktLen <- Four
  Low = {}
  Room = 2
  WarningSize = 1
  ReadMin = 1
  ReadMax = 2
  Opened = {"accept"}
  Ops = {"write", "pause", "close"}
  MaxFlips = 2
  MaxInput = 2

SPECIFICATION LiveSpec
PROPERTIES
  FlushGoesOn
  InputIsRead
CHECK_DEADLOCK FALSE
