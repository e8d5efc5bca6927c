SPECIFICATION Spec
CONSTANTS
  Disks = {sda}
  Interfaces = {eth}
  Pids = {p, q}
  MaxEntries = 1
  Boot = 1
  MaxCycles = 3
  MaxMoves = 2
  MaxFaults = 1
  RUNNING = RUNNING
  FAILED = FAILED
SYMMETRY PidsAlike
CHECK_DEADLOCK FALSE
INVARIANTS
  CountedOnce
  CollectionInv
