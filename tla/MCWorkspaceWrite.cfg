SPECIFICATION FairSpec
CONSTANTS
  c1 = c1  c2 = c2  p1 = p1  p2 = p2
  Processes = {p1, p2}
  Calls = {c1, c2}
  NoFile = NoFile
  ToolNames = {"workspace.write", "workspace.read", "workspace.list", "mail.send", "unknown"}
  Registered <- MCRegistered
  Allowed = {"workspace.write", "workspace.read", "mail.send"}
  EffectOf <- MCEffectOf
  ProcessOf <- MCTwoProcesses
  Asks <- MCAnything
  Pieces <- MCPieces
  WriteTool = "workspace.write"
INVARIANTS
  DeniedNeverReached
  RecordsConsistent
  LeftoversExplained
PROPERTIES
  ImplementsAtomicOutput
  CallsEnd
CHECK_DEADLOCK FALSE
