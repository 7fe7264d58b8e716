SPECIFICATION FairSpec
CONSTANTS
  N = 3
  MaxRetries = 2
  Kinds = {"plain", "fallback", "no fallback", "best effort", "fail fast"}
INVARIANT AttemptsBounded
PROPERTY CallReturns
CHECK_DEADLOCK FALSE
INVARIANT StrategyIsFollowed
