SPECIFICATION RemoteSpec
CONSTANTS
  Installers = {i1}
  Commits = {c1, c2}
  LastInstall = 2
  LastCell = 2
  Launches = {n1, n2}
  None = None
SYMMETRY Interchangeable
INVARIANTS
  StatusFilesAgree
  CellsInOrder
  OneSuccessPerCell
PROPERTIES
  ResultsAreKept
CHECK_DEADLOCK FALSE
