SPECIFICATION GroundedSpec
CONSTANTS
  normalize = normalize
  echo = echo
  disabled = disabled
  mcp = mcp
  transfer = transfer
  invented = invented
  Tools <- AllTools
  AllowedTools <- WideAllowlist
  PortTools <- NarrowPort
  Catalog <- Registry
  LlmTimeout = 3
  ToolTimeout = 1
  VoiceTimeout = 4
  NoValue = NoValue
  Documents <- ExampleDocuments
  ChunkSize = 3
  ChunkOverlap = 1
  RetrievalK = 2
  Threshold = 1
  Scores = {0, 1, 2}
  Embedders = {1, 2}
  ChunkFrame = 1
  MaxAssembled = 7
CHECK_DEADLOCK FALSE
INVARIANTS OnlyAuthorizedToolsRun TurnWithinBudget PassagesAreKeptWhole SourcesAreEvidence
PROPERTIES ImplementsAgentThread TurnEnds
