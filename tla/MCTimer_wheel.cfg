SPECIFICATION Spec
CONSTANTS
  TIME_NEAR = 2
  TIME_LEVEL = 2
  Delay = {0, 1, 3, 6, 15}
  MaxTimers = 2
  MaxTicks = 34
  MaxLag = 1
CHECK_DEADLOCK FALSE
INVARIANTS
  WheelExact
PROPERTY
  ImplementsAlarm
