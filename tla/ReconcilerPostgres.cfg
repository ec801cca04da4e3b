CONSTANTS
  UserTurn = {"u", "v"}
  AssistantTurn = {"a", "b"}
  KeyGap = 1000
  MinStep = 1
  AnchorSizes = {3, 4}
  ShortOverlap = 3
  Proc = {p1, p2}
  Payload <- MCPayloads
  SinglePair <- MCPairs
  Backend = "postgres"
  MaxCalls = 3
  MaxEpoch = 2
  Failures = TRUE
  None = None
SYMMETRY Procs
SPECIFICATION Spec
INVARIANTS KeysFree MergesSerialized PayloadIsStored RefusedLeavesNothing
PROPERTIES StoredPayloadWritesNothing MergesOnlyAdd
CHECK_DEADLOCK FALSE
