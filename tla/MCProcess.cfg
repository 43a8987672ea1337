SPECIFICATION ProcessSpec
CONSTANTS
  Worker = {w1, w2}
  External = {ext}
  Service = {a, b}
  None = None
  Exits = TRUE
  Killer = {k}
  Name = {m, n}
  MaxId = 2
  Proc = {1, 2, 3}
CHECK_DEADLOCK FALSE
INVARIANTS
  SleepCountExact
  NamesOfLive
  ExitKillsAll
  OneDaemon
PROPERTIES
  SleepersAreWoken
  ExitDrains
