SPECIFICATION KeysSpec
CONSTANTS
  FirstKeys <- MCFirstKeys
  OtherKeys <- MCOtherKeys
  NoKey = NoKey
  Workers = {w1, w2}
  NoWorker = NoWorker
  MaxJobs = 2
  MaxDbFaults = 0
PROPERTY NoStaleKeyMarks
CHECK_DEADLOCK FALSE
