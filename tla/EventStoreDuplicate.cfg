SPECIFICATION Spec
CONSTANTS
  r1 = r1  r2 = r2  a1 = a1  c1 = c1  q1 = q1
  e1 = e1  e2 = e2  e3 = e3  e4 = e4  e5 = e5  e6 = e6  e7 = e7
  RunIds = {r1, r2}
  ActivityIds = {a1}
  CallIds = {c1}
  Requests = {q1}
  None = None
  Times = {0}
  Versions = {1, 2}
  Usages = {}
  LimitChoices <- MCLimitChoices
  MAX_MODEL_ITERATIONS = 1
  MAX_TOOL_CALLS = 1
  MAX_TOKENS = 1
  MAX_COST_MICROUSD = 1
  MAX_CALL_COST = 1
  MaxEvents = 4
  Workers = {w1, w2}
  EventIds = {e1, e2, e3, e4, e5, e6, e7}
  Offers <- MCRaces
  Cursors = {1}
  PageLimits = {1}
PROPERTY
  DuplicateIsConflict
