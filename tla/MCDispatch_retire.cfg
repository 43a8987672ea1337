SPECIFICATION Spec
CONSTANTS
  w1 = w1
  w2 = w2
  ext = ext
  Worker <- MCWorker
  External <- MCExternal
  Weight <- MCWeight
  Service = {a, b}
  NoId = NoId
  MaxMsgs = 2
INVARIANT
  RetireIsScheduled
