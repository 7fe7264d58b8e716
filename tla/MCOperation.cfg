CONSTANTS
  p1 = p1
  p2 = p2
  p3 = p3
  Pushes = {p1, p2, p3}
  Lengths = {1}
  PartSizes = {2, 4}
  MaxParts = 2
  InputItems = 2
  InputBytes = 2
  OutputItems = 2
  OutputBytes = 3
  ItemBytes = 3
  SeqMax = 3
  Requests = {"cancel", "close", "abort"}
SPECIFICATION Spec
SYMMETRY CallSymmetry
CHECK_DEADLOCK FALSE
INVARIANTS
  TypeOK
  DeliveryIsSound
  WithinLimits
  AdmissionCoherent
  EndOfAudioIsComplete
  ClosedConsumerStaysEmpty
PROPERTIES
  TerminalIsFinal
  AudioInAdmissionOrder
