SPECIFICATION AnswersSpec
CONSTANTS
  Capacity = 1
  MaxLines = 3
  Panics = {"scanner", "handler", "ping"}
  Pipelines <- MCPipelines
  MaxPieces = 3
  MaxTools = 2
  Faults = {"malformed", "failed", "cut"}
  Quirks = {}
  Tasks = {t1}
  Kinds = {"suno", "video", "live", "mj"}
  Pollers = {p1, p2}
  Users = {u1}
  Pre = 2
  Actual = 3
  MaxFaults = 1
  MaxReads = 1
INVARIANTS GoodEndIsComplete StreamWellFormed AnswerComplete TaskBillHolds
PROPERTIES HandlerReturns UnfinishedEnds
CHECK_DEADLOCK FALSE
