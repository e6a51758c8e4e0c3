SPECIFICATION ChainSpec
CONSTANTS
  Publishers = {p1, p2}
  LastAttempt = 2
  Runners = {w1, w2}
  RunIds = {r1, r2}
  Pullers = {u1, u2}
  LastWrite = 1
  LastMember = 2
  LastPull = 3
  Nobody = Nobody
  NoWriter = NoWriter
SYMMETRY Interchangeable
INVARIANTS
  PublishedIsCommit
  RunsAreSound
  IndexedIsVerified
PROPERTIES
  HistoryIsKept
CHECK_DEADLOCK FALSE
