CONSTANTS
    c1 = c1
    c2 = c2
    Calls = {c1, c2}
    Exchanges = {1, 2}
    QueueMax = 1
    PendingMax = 1
    EvictedMax = 1
    OperationEvents <- MCOperation
SPECIFICATION FairSpec
INVARIANTS CompleteIsFaithful LossIsBounded
PROPERTY RecorderReturns
