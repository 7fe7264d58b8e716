CONSTANTS
  Sizes = {1, 2, 3}
  ItemBytes = 2
  SeqMax = 3
  Items = 2
  Bytes = 3
SPECIFICATION FairSpec
CHECK_DEADLOCK FALSE
INVARIANTS
  NothingIsLost
  NoLostTerminal
  ReadsAreSound
PROPERTIES
  CallbackFollowsProtocol
  AbortReturns
  IteratorFollowsProtocol
  SilentAfterClose
  BridgeSettles
  SettledOutcomePreserved
  CallsSettle
