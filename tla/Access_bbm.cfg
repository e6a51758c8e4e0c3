SPECIFICATION Spec
CONSTANTS
  Cells = {1, 2}
  DownCells = {2}
  Sats = {s1, s2}
  Packets = {1}
  Slots = 1
  QueueMax = 1
  Acquisition = 1
  Lease = 2
  IdleRelease = 1
  MinDwell = 1
  RetireDelay = 2
  RetiringLimit = 1
  TimeStep = 2
  TxTime = 2
  Mbb = FALSE
  Reject = TRUE
  Horizon = 5
  Skies <- GappedSkies
  s1 = s1
  s2 = s2
  None = None
INVARIANTS
  ServiceHoldsSlot
