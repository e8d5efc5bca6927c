SPECIFICATION Spec
CONSTANTS
  Rules <- MCRules
  Values = {0, 1}
  Times = {1, 4}
  MaxCycles = 3
  MaxUiErrors = 1
  MaxLosses = 0
  MaxEntries = 2
  MaxAge = 2
  MaxLines = 3
  JUNK = JUNK
  TORN = TORN
  NONE = NONE
  NoSnapshot = NoSnapshot
  HasConnectors = TRUE
INVARIANT AlertsPersist
CHECK_DEADLOCK FALSE
