SPECIFICATION RunSpec
SYMMETRY Symmetry
CONSTANTS
  ToolNames = {"a.b", "a_b", "c.d"}
  ProviderIds = {p1, p2, p3}
  Sizes = {1}
  ResultSizes = {1, 4}
  FixedChars = 1
  max_context_chars = 7
  max_tool_result_bytes = 3
  EnvelopeChars = 2
  MAX_MODEL_MESSAGES = 512
  MAX_MODEL_INPUT_CHARS = 11
  MaxInteractions = 4
  MaxCalls = 2
  Nothing = Nothing
  Conforming = {"a_b"}
  Normalized <- MCNormalized
  Hashed <- MCHashed
  MaxAttempt = 1
  Adapters = {"chat", "responses", "anthropic"}
  Offered <- MCOffered
CHECK_DEADLOCK FALSE
INVARIANTS
  ShowsTheNewestThatFit
  RequestsAreComplete
  HistoryReachesTheProvider
