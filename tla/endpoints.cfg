SPECIFICATION FairSpec
CONSTANTS
  Configs <- MCConfigs
  Asks <- MCAsks
  Clients = {c1, c2}
  Headers <- MCHeaders
  NoSecret = NoSecret
  Halved = Halved
  Garbled = Garbled
  Silent = Silent
  Torn = Torn
  Values = {0}
  Times = {1}
  MaxCycles = 2
  HasConnectors = FALSE
  NoSnapshot = NoSnapshot
CHECK_DEADLOCK FALSE
INVARIANTS
  StreamSound
  PageSound
PROPERTY
  EventsTaken
