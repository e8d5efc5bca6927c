SPECIFICATION FairSpec
CONSTANTS
  Rules <- MCRules
  Values = {0, 1}
  Times = {1, 4}
  MaxCycles = 4
  MaxUiErrors = 1
  MaxLosses = 1
  MaxEntries = 2
  MaxAge = 2
  MaxLines = 3
  JUNK = JUNK
  TORN = TORN
  NONE = NONE
  NoSnapshot = NoSnapshot
  HasConnectors = TRUE
CHECK_DEADLOCK FALSE
INVARIANTS
  AlertsMatchStreaks
  TakenInOrder
  HistorySound
PROPERTY
  LatestShown
