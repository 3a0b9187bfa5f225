SPECIFICATION Spec
CONSTANTS
  s1 = s1
  s2 = s2
  Sessions <- MCOne
  Readable <- MCOne
  QueueBytes = 2
  OpCost = 1
  SegmentItems = 2
  TotalItems = 4
  MarkersMayPanic = FALSE
  MaxPrinted = 3
  MaxFaults = 1
CHECK_DEADLOCK FALSE
INVARIANTS ReadLeavesNothingOut ReadHasNoHole MissingMeansGone
