SPECIFICATION Spec
CONSTANTS
  Chars = {"x", "y"}
  Blank = {"y"}
  CallIds = {"c1", "c2"}
  Metadata = {"m", "n"}
  Names = {"read", "write", "a_b", "a.b", "c.d", "c+d", "long.", "h0"}
  ParseJson <- MCParseJson
  MAX_TOKENS = 2
  MAX_MODEL_OUTPUT_CHARS = 9
  None = None
  EmptyObject = EmptyObject
  ChatEvents <- MCChatEvents
  ChatJson <- MCChatJson
  ChatChars = 6
  ChatWire = 4
  ChatTools <- MCChatTools
  MaxCallIndex = 1
  Conforming = {"a_b"}
  Normalized <- MCNormalized
  Hashed <- MCHashed
  MaxAttempt = 2
  ResponseEvents <- MCResponseEvents
  ResponseJson <- MCResponseJson
  ResponseChars = 4
  ResponseWire = 5
  CanonicalSize <- MCCanonicalSize
  MessageEvents <- MCMessageEvents
  MessageJson <- MCMessageJson
  MessageChars = 5
  MessageWire = 10
  MaxBlockIndex = 1
  PortEvents <- MCPortEvents
  MaxEvents = 4
  LargeArguments = {"large"}
  MAX_TEXT_CHARS = 3
  MAX_MESSAGE_PARTS = 2
CHECK_DEADLOCK FALSE
INVARIANTS
  YieldsTheMessage
  CollectsTheMessage
PROPERTIES
  AcceptsTheProtocol
  ImplementsPort
