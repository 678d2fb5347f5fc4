SPECIFICATION Spec
CONSTANTS
  RunIds = {r1}
  ActivityIds = {a1, a2, a3, a4}
  CallIds = {c1, c2}
  Requests = {q1}
  None = None
  Times = {0, 1}
  Versions = {1, 4}
  Usages <- MCUsages
  LimitChoices <- MCLimitChoices
  MAX_MODEL_ITERATIONS = 2
  MAX_TOOL_CALLS = 2
  MAX_TOKENS = 2
  MAX_COST_MICROUSD = 2
  MAX_CALL_COST = 2
  MaxEvents = 16
  MaxCalls = 2
  MAX_EVENT_QUERY_LIMIT = 8
  ClockMayStepBack = FALSE
INVARIANT
  BudgetStopCommitsRunFailed
