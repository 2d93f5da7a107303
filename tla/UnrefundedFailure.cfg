SPECIFICATION TaskSpec
CONSTANTS
  Tasks = {t1}
  Kinds = {"suno", "video", "live", "mj"}
  Pollers = {p1, p2}
  Users = {u1}
  Pre = 2
  Actual = 3
  MaxFaults = 1
  MaxReads = 1
INVARIANTS FailedTaskIsRefunded
CHECK_DEADLOCK FALSE
