SPECIFICATION LiveSpec
CONSTANTS
  a = a
  b = b
  Service <- One
  NoId = NoId
  Script <- ForkScript
  MaxSession = 1
  MaxForks = 2
  MaxEvents = 2
CHECK_DEADLOCK FALSE
PROPERTY
  ForksRun
