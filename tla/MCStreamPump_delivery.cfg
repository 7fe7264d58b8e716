SPECIFICATION Spec
CONSTANTS
  Capacity = 1
  MaxItems = 2
  MaxTime = 2
  OpDeadlines = {2}
  FirstDeadlines = {3}
  ChunkDurations = {3}
  Kinds = {"text", "finish"}
INVARIANT ArrivedOutputIsDelivered
CHECK_DEADLOCK FALSE
