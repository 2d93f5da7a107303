SPECIFICATION SceneSpec
CONSTANTS
  Runners = {r1, r2}
  Nobody = Nobody
  NTasks = 2
  Legacy = 1
  TTL = 2
  MaxStall = 1
  MaxCrashes = 1
  MaxFaults = 1
INVARIANTS RunningIsFound OneRunnerPerTask TimelyMeansOneHandler
PROPERTIES OutcomeIsFinal EveryTaskEnds
