\* The composed provider: two sessions, a drop, and two frames of any kind
\* delivered to whichever sockets are open; one call of
\* clearNotifications or markNotificationRead (connect/disconnect are
\* exercised by the ws_safety run).
CONSTANTS
  t1 = t1
  t2 = t2
  c1 = c1
  c2 = c2
  h1 = h1
  n1 = n1
  Tokens <- MCTokens
  NoToken = NoToken
  MaxAuthSteps = 2
  MaxSockets = 3
  MaxDrops = 1
  CreateMayFail = FALSE
  ConsumerCalls = FALSE
  MaxCalls = 0
  CallIds <- MCCallIds
  CallStates <- MCCallStates
  ChannelIds <- MCChannelIds
  ChannelStates <- MCChannelStates
  NotifIds <- MCNotifIds
  Cap = 2
  FrameTable <- MCFrames
  MaxFrames = 2
  MaxNotifCalls = 1
INIT SyncInit
NEXT SyncNext
INVARIANT SyncTypeOK
INVARIANT EntityIdsUnique
INVARIANT NotifPushMatchesSpec
CHECK_DEADLOCK FALSE
