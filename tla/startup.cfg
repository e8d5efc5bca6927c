SPECIFICATION FairSpec
CONSTANTS
  Launches <- MCLaunches
  MaxStarts = 2
  MaxDeaths = 1
  NONE = NONE
CHECK_DEADLOCK FALSE
INVARIANTS
  StartupInv
  NothingUnasked
  OwnHelper
PROPERTY
  StartupEnds
