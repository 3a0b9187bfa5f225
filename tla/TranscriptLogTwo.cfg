SPECIFICATION Spec
CONSTANTS
  s1 = s1
  s2 = s2
  Sessions <- MCSessions
  Readable <- MCNone
  QueueBytes = 2
  OpCost = 1
  SegmentItems = 2
  TotalItems = 3
  MarkersMayPanic = TRUE
  MaxPrinted = 3
  MaxFaults = 1
CHECK_DEADLOCK FALSE
SYMMETRY Symmetric
INVARIANTS GapsInPlace EndMeansWhole EveryByteCounted StaysBounded
