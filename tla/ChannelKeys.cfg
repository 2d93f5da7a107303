SPECIFICATION KeysLiveSpec
CONSTANTS
  FirstKeys <- MCFirstKeys
  OtherKeys <- MCOtherKeys
  NoKey = NoKey
  Workers = {w1, w2}
  NoWorker = NoWorker
  MaxJobs = 2
  MaxDbFaults = 1
INVARIANT AbilitiesAgree
PROPERTIES KeyMarksKept CacheFollows
CHECK_DEADLOCK FALSE
