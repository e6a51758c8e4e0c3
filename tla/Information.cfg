SPECIFICATION InfoSpec
CONSTANTS
  Horizon = 5
  LastInstant = 8
  FloodSats = {0, 1, 2, 3, 4}
  Origins = {0}
  Wirings <- PathAndFork
  VisK = 3
  Ttl = 1
  AdvertInterval = 2
  EventInterval = 2
  Burst = 1
  Delays = {0, 1}
  RematchInterval = 3
  MaxTroubles = 3
  TroubleInstants = {0, 3}
  Scopes = {1, 2}
  Servers = 1
  Service = 1
  InstallDelay = 1
  ValidWindow = 2
  TickInterval = 2
  MaxDecisions = 2
  NoTable = NoTable
  PlanSats = {1, 2}
  PlanDirs = {1}
  PlanPackets = {k1, k2, k3}
  Neighbour <- Opposite
  IslRoom = 1
  DownlinkRoom = 1
  HoldingRoom = 2
  MaxVersion = 5
INVARIANTS
  WithinReach
  ChangeIsReported
  KnowledgeConverges
  TablesAreTimely
  PlansAreSafe
PROPERTIES
  FloodsAreOnce
CHECK_DEADLOCK FALSE
