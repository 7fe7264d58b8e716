CONSTANTS
  p1 = p1
  p2 = p2
  Pushes = {p1, p2}
  Lengths = {1, 2}
  PartSizes = {1}
  MaxParts = 1
  InputItems = 1
  InputBytes = 1
  OutputItems = 1
  OutputBytes = 1
  ItemBytes = 1
  SeqMax = 9
  Requests = {"cancel", "terminate"}
SPECIFICATION FairSpec
CHECK_DEADLOCK FALSE
PROPERTY OperationProgresses
