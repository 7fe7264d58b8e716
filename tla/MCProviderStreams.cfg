CONSTANTS
  Modes = {TRUE, FALSE}
  Vendors = {"anthropic", "openai", "compatible", "groq", "mistral", "deepseek", "google", "cohere",
             "bedrock", "completion", "compatible_completion", "openai_responses", "xai",
             "huggingface"}
  Reasons = {"tools", "error"}
  Indices = {"0", "1"}
  ToolIds = {"t"}
  Chunks <- SmallChunks
  MaxCalls = 2
  MaxPending = 2
  MaxBlocks = 2
  Outputs = {"0"}
  Items = {"i"}
  Aliases = {"i", "j"}
  PartIndices <- TwoParts
  MaxDeferred = 2
  TrueCalls <- ThreeCalls
  Plans <- ArgumentPlans
  Tokens = {"{", "}", "[", "]", "quote", "escape", "space"}
  MaxLen = 6
SPECIFICATION Spec
CHECK_DEADLOCK FALSE
INVARIANTS
  CallsAreReassembled
  CompleteIsExact
PROPERTY PartsFollowProtocol
