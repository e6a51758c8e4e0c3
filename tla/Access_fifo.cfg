SPECIFICATION FairSpec
CONSTANTS
  Cells = {1, 2, 3}
  DownCells = {}
  Sats = {s1}
  Packets = {1, 2, 3}
  Slots = 1
  QueueMax = 2
  Acquisition = 0
  Lease = 1
  IdleRelease = 1
  MinDwell = 1
  RetireDelay = 1
  RetiringLimit = 1
  TimeStep = 2
  TxTime = 1
  Mbb = FALSE
  Reject = FALSE
  Horizon = 6
  Skies <- FixedSky
  s1 = s1
  s2 = s2
  None = None
PROPERTIES
  FifoGrants
  ReachesHorizon
INVARIANTS
  SlotCapacity
