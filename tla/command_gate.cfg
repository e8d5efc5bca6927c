SPECIFICATION FairSpec
CONSTANTS
  Configs <- MCConfigs
  Pids = {1, 7}
  PidBits = 4
  Group <- MCGroup
  Cooldown = 2
  LockStep = 2
  LockMax = 3
  IssuedAt = 1
  MaxAge = 6
  MaxTime = 7
  MaxFailures = 4
  HelperMayDie = TRUE
  AppendMayFail = FALSE
  NONE = NONE
  Tokens <- MCTokens
  MaxTokens = 4
  Number <- MCNumber
  Lower <- MCLower
  ShellTokens = {"x|y"}
  UMax = 1000
  IMax = 500
INVARIANTS
  GateInv
  EffectsAuthorised
  
  ConfirmationStands
PROPERTIES
  SignalsSpaced
  KillsConfirmed
  LockoutBacksOff
  AlwaysAnswered
CHECK_DEADLOCK FALSE
