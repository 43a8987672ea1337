SPECIFICATION LiveSpec
CONSTANTS
  w1 = w1
  w2 = w2
  ext = ext
  Worker <- MCOneWorker
  External <- MCExternal
  Weight <- MCOneWeight
  Service = {a, b}
  NoId = NoId
  MaxMsgs = 2
PROPERTY
  EveryMessageTaken
