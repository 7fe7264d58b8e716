CONSTANTS
  Sizes = {1}
  ItemBytes = 1
  SeqMax = 1
  Items = 1
  Bytes = 1
SPECIFICATION PySpec
CHECK_DEADLOCK FALSE
PROPERTIES
  OneTerminal
