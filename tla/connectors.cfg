SPECIFICATION FairSpec
CONSTANTS
  Interval = 2
  MaxCycles = 4
  MaxFaults = 4
  NONE = NONE
CHECK_DEADLOCK FALSE
INVARIANTS
  ConnectorsInv
  PublishedInOrder
  PublishSpaced
PROPERTY
  Delivered
