SPECIFICATION Spec
CONSTANTS
  Cells = {1, 2}
  DownCells = {}
  Sats = {s1, s2}
  Packets = {1, 2}
  Slots = 1
  QueueMax = 2
  Acquisition = 1
  Lease = 2
  IdleRelease = 1
  MinDwell = 1
  RetireDelay = 1
  RetiringLimit = 1
  TimeStep = 2
  TxTime = 2
  Mbb = TRUE
  Reject = FALSE
  Horizon = 6
  Skies <- MovingSkies
  s1 = s1
  s2 = s2
  None = None
INVARIANTS
  SlotsAreLinks
  AtMostOnePrimary
  RetirementIsPrompt
  PacketsAreKept
PROPERTIES
  NoLostWakeup
