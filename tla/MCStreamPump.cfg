SPECIFICATION FairSpec
CONSTANTS
  Capacity = 1
  MaxItems = 2
  MaxTime = 2
  OpDeadlines = {2, 3}
  FirstDeadlines = {1, 3}
  ChunkDurations = {1, 3}
  Kinds = {"meta", "warn", "text", "file", "stray", "stray text", "error", "refused", "bad", "finish", "fatal"}
INVARIANT EndMatchesCause
INVARIANT ProviderTimeOnly
INVARIANT OutcomeMatchesStream
CHECK_DEADLOCK FALSE
PROPERTY StreamSettles
