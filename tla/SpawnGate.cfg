SPECIFICATION LiveSpec
CONSTANTS
  i1 = i1
  r1 = r1
  r2 = r2
  b1 = b1
  w1 = w1
  Interactive <- MCInteractive
  Reactive <- MCReactive
  Shedding <- MCNobody
  Awaiting <- MCAwaiting
  Limit = 2
  Burst = 4
  MaxUser = 1
  MaxDue = 2
INVARIANTS SlotsCounted NothingStranded
PROPERTIES UserActionsFirst StartsArePaid ReactiveIsServed BackgroundIsServed
