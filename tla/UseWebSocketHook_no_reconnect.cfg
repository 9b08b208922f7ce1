\* One login, one drop, then nothing but fair effects, opens and timers.
CONSTANTS
  t1 = t1
  t2 = t2
  Tokens <- MCTokens
  NoToken = NoToken
  MaxAuthSteps = 1
  MaxSockets = 3
  MaxDrops = 1
SPECIFICATION HSpec
PROPERTY HookReconnects
CHECK_DEADLOCK FALSE
