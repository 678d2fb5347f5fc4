SPECIFICATION SurroundingsSpec
SYMMETRY Symmetry
CONSTANTS
  Rates = {0, 1, 3, 5}
  TokenCounts = {0, 1, 4, 7}
  MaxCalls = 3
  TOKENS_PER_MILLION = 5
  r1 = r1  r2 = r2  r3 = r3  a1 = a1  a2 = a2  c1 = c1  q1 = q1
  RunIds = {r1, r2, r3}
  ActivityIds = {a1}
  CallIds = {c1}
  Requests = {q1}
  None = None
  Times = {0}
  Versions = {1, 2}
  Usages = {}
  LimitChoices <- MCLimitChoices
  MAX_MODEL_ITERATIONS = 1
  MAX_TOOL_CALLS = 1
  MAX_TOKENS = 1
  MAX_COST_MICROUSD = 1
  MAX_CALL_COST = 1
  Unparsable = Unparsable
  Setups = {s1, s2, s3}
  Builds = {b1, b2}
  Creators = {u1, u2}
  Appends = {t1, t2}
  Activities = {x1}
  MaxTime = 3
  Reads = {n1, n2}
  PoolSize = 1
  MaxCancels = 2
  Artifacts = {a1, a2}
  Histories <- MCHistories
  MAX_INSPECT_EVENTS = 5
  DEFAULT_EVENT_QUERY_LIMIT = 2
  QueryLimits = {1, 3}
  QueryStarts = {0, 2, 7}
  PageFaults = {"none", "empty", "hole", "long"}
  RunOrder <- MCRunOrder
  Scripts <- MCScripts
  StartChoices <- MCStarts
  DamageChoices <- MCDamage
  ScanLimits = {1, 2}
  max_events = 5
  Timeout = 1
  Inodes = {1, 2, 3}
  FirstInode <- MCFirstInode
  Providers = {"p", "q"}
  MaxChanges = 1
INVARIANTS
  ReadsAreJoined
  InspectionIsOnePrefix
  ScanMissesNoRun
  RecordsAreCommitted
  NeverBelowTheCost
PROPERTIES
  DatabaseIsWhole
  ConfigurationIsWhole
CHECK_DEADLOCK FALSE
