\* A call_update whose data is null, after the calls array is non-empty.
CONSTANTS
  t1 = t1
  t2 = t2
  c1 = c1
  c2 = c2
  h1 = h1
  n1 = n1
  Tokens <- MCTokens
  NoToken = NoToken
  MaxAuthSteps = 2
  MaxSockets = 3
  MaxDrops = 1
  CreateMayFail = FALSE
  ConsumerCalls = FALSE
  MaxCalls = 0
  CallIds <- MCCallIds
  CallStates <- MCCallStates
  ChannelIds <- MCChannelIds
  ChannelStates <- MCChannelStates
  NotifIds <- MCNotifIds
  Cap = 2
  FrameTable <- MCFrames
  MaxFrames = 2
  MaxNotifCalls = 0
INIT SyncInit
NEXT SyncNext
INVARIANT ProtocolFaultsContained
CHECK_DEADLOCK FALSE
