\* The reconnect timer runs connect() from the closure of the render that
\* created the socket, so it opens a connection after logout.
CONSTANTS
  t1 = t1
  t2 = t2
  Tokens <- MCTokens
  NoToken = NoToken
  MaxAuthSteps = 2
  MaxSockets = 4
  MaxDrops = 1
  CreateMayFail = FALSE
  ConsumerCalls = FALSE
  MaxCalls = 0
INIT Init
NEXT Next
PROPERTY ConnectOnlyWithSession
CHECK_DEADLOCK FALSE
