\* Reconnection while authenticated and the route guard, under the
\* fairness of the event loop; the session token agrees with localStorage
\* whenever a dashboard page shows.  new WebSocket() does not throw here;
\* consumers do not call connect().
CONSTANTS
  t1 = t1
  t2 = t2
  Tokens <- MCTokens
  NoToken = NoToken
  MaxAuthSteps = 3
  MaxSockets = 9
  MaxDrops = 2
  CreateMayFail = FALSE
  ConsumerCalls = FALSE
  MaxCalls = 0
SPECIFICATION RSpec
INVARIANT DashboardTokenMatchesStorage
PROPERTY ReconnectsWhileAuthenticated
PROPERTY ReloadShowsDashboard
CHECK_DEADLOCK FALSE
