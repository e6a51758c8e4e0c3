SPECIFICATION Spec
CONSTANTS
  Packets = {p1, p2}
  Sats = {s1, s2, s3}
  Dirs = {n}
  Modes = {"frozen"}
  ComputeDelay = 1
  Servers = 1
  Propagation = 1
  MaxHops = 3
  Room = 1
  DownRoom = 1
  HoldRoom = 1
  TimeStep = 3
  Interval = 2
  Horizon = 6
  Topologies <- Rewired
  Servings <- LastOnly
  Deadline <- Deadlines
  s1 = s1
  s2 = s2
  s3 = s3
  n = n
  p1 = p1
  p2 = p2
  None = None
INVARIANTS
  NoCrash
