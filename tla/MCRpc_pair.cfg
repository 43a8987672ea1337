SPECIFICATION Spec
CONSTANTS
  a = a
  b = b
  Service <- Pair
  NoId = NoId
  Script <- PairScript
  MaxSession = 2
  MaxForks = 1
  MaxEvents = 0
CHECK_DEADLOCK FALSE
INVARIANTS
  OnePlacePerCoroutine
  AnswersAreAwaited
  PoolIsClean
