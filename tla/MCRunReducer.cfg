SPECIFICATION Spec
CONSTANTS
  RunIds = {r1, r2}
  ActivityIds = {a1, a2}
  CallIds = {c1, c2}
  Requests = {q1, q2}
  None = None
  Times = {0, 1}
  Versions = {1, 2, 4}
  Usages <- MCUsages
  LimitChoices <- MCLimitChoices
  MAX_MODEL_ITERATIONS = 2
  MAX_TOOL_CALLS = 2
  MAX_TOKENS = 2
  MAX_COST_MICROUSD = 2
  MAX_CALL_COST = 2
  MaxEvents = 9
SYMMETRY Symmetry
INVARIANTS
  OnlyExcessIsRefused
  Serial
  EvidenceOfSameActivity
  WithinBudget
PROPERTY
  ProjectionOnlyForward
CHECK_DEADLOCK FALSE
