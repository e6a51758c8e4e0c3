SPECIFICATION SuiteSpec
CONSTANTS
  Cells = {1, 2}
  Controlled = {1}
  Arms = 1
  LastLaunch = 3
  CallCap = 2
  LastFault = 1
INVARIANTS
  ReportIsEvidence
  CallsAreAccounted
PROPERTIES
  EvidenceSurvives
  SettledIsNotRerun
CHECK_DEADLOCK FALSE
