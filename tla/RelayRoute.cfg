SPECIFICATION Spec
CONSTANTS
  Requests = {q1, q2}
  Channels = {c1, c2}
  Keys <- MCKeys
  Policies <- MCPolicies
  Streamed = {q1}
  TotalAttempts = 3
  TTL = 2
  Slack = 0
  MaxFaults = 1
INVARIANT UpstreamWithinCapacity
PROPERTIES AnswerIsFinal AttemptsBounded
