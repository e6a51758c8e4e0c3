SPECIFICATION Spec
CONSTANTS
  Dirs = {n}
  Peers = {a, b}
  Data = {p1, p2}
  Ctrl = {k1}
  LastGen = 2
  Room = 2
  HoldRoom = 1
  MaxEntities = 2
  MaxEndpoints = 1
  TxTime = 2
  Interval = 1
  Horizon = 4
  Wirings <- OneDirection
  Reaches <- Flicker
  Expiry <- Expiries
  n = n
  e = e
  a = a
  b = b
  p1 = p1
  p2 = p2
  k1 = k1
  k2 = k2
  None = None
INVARIANTS
  OneTransceiver
  BooksBalance
PROPERTIES
  ExpiresInTime
  NoIdleTransceiver
  GenerationsInOrder
