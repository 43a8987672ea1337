CONSTANTS
  Fd = {1, 3}
  Sent <- Streams
  Base = 2
  QueueSize = 2
  HashSize = 2
  MaxChunk = 14
  MaxFails = 1
  MaxCloses = 1
  SeriBase = 4
  MaxCookie = 4
  MaxDepth = 3
  Width = 8
  Service = {s1, s2}
  MaxGen = 3
  MaxDeletes = 1
SPECIFICATION LibSpec
INVARIANTS
  
  NoPacketLost
  RoundTrip
  CutIsSeen
  ReadsAsTable
  QueryIsCurrent
PROPERTIES
  SubscribersCatchUp
CHECK_DEADLOCK FALSE
