SPECIFICATION FairSpec
CONSTANTS
  RunIds = {r1}
  ActivityIds = {a1, a2, a3, a4, a5, a6}
  CallIds = {c1, c2, c3}
  Requests = {q1}
  None = None
  Times = {0, 1}
  Versions = {1, 4}
  Usages <- MCUsages
  LimitChoices <- MCLiveLimits
  MAX_MODEL_ITERATIONS = 3
  MAX_TOOL_CALLS = 3
  MAX_TOKENS = 2
  MAX_COST_MICROUSD = 2
  MAX_CALL_COST = 2
  MaxEvents = 24
  MaxCalls = 1
  MAX_EVENT_QUERY_LIMIT = 14
  ClockMayStepBack = TRUE
INVARIANT
  OnlyRequestsRefused
PROPERTY
  Terminates
