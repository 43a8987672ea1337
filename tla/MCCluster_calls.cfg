CONSTANTS
  a = a
  b = b
  Node = {a, b}
  Fd <- Fds
  Host <- Hosts
  Address <- Known
  Nil = nil
  MaxSession <- Calls
  MaxConns = 3
  MaxBreaks = 1
  Name = {n1, n2}
  Service = {s1, s2}
SPECIFICATION ClusterSpec
INVARIANTS
  ConnectionsKnown
  CallsPending
  NamesLeadBack
  NothingMisread
PROPERTY
  CallsEnd
CHECK_DEADLOCK FALSE
