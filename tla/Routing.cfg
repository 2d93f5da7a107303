SPECIFICATION RoutingSpec
CONSTANTS
  Requests = {q1, q2}
  Threshold = 2
  Cooldown = 3
  LongCooldown = 4
  MaxStall = 2
  Nodes = {m, n}
  Master = m
  MaxChanges = 1
  MaxMishaps = 1
INVARIANTS SingleProbe SameVersionSameSource
PROPERTIES RunsOnlyWhenUsable CircuitMoves MasterFollows
