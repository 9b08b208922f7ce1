\* Safety of the connection indicator over logins, logouts, refreshes,
\* reloads, drops, consumer calls and failing socket creation.
CONSTANTS
  t1 = t1
  t2 = t2
  Tokens <- MCTokens
  NoToken = NoToken
  MaxAuthSteps = 3
  MaxSockets = 5
  MaxDrops = 1
  CreateMayFail = TRUE
  ConsumerCalls = TRUE
  MaxCalls = 1
INIT Init
NEXT Next
SYMMETRY TokenSymmetry
INVARIANT ConnTypeOK
INVARIANT ConnectionIndicatorSound
CHECK_DEADLOCK FALSE
