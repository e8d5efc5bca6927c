SPECIFICATION Spec
CONSTANTS
  Configs <- MCConfigs
  Pids = {7, 15}
  PidBits = 4
  Group <- MCGroup
  Cooldown = 2
  LockStep = 2
  LockMax = 3
  IssuedAt = 1
  MaxAge = 6
  MaxTime = 7
  MaxFailures = 4
  HelperMayDie = FALSE
  AppendMayFail = FALSE
  NONE = NONE
  Tokens <- MCTokens
  MaxTokens = 4
  Number <- MCNumber
  Lower <- MCLower
  ShellTokens = {"x|y"}
  UMax = 1000
  IMax = 500
PROPERTY KillHitsItsTarget
CHECK_DEADLOCK FALSE
