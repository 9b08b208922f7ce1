---------------------------- MODULE RealtimeSync ----------------------------
(***************************************************************************)
(* The whole WebSocketProvider (src/client/src/contexts/WebSocketContext.tsx)*)
(* the connection of WebSocketConnection composed with the message         *)
(* dispatcher (onmessage and handleWebSocketMessage) and the collections   *)
(* it writes: activeCalls and activeChannels (the entity reconciler),       *)
(* systemMetrics and dashboardStats (scalar holders) and notifications.    *)
(*                                                                         *)
(* The server publishes frames to every subscribed socket.  `published` is *)
(* the server's stream and pos[s] how far socket s has delivered it; a     *)
(* socket subscribes in onopen, so it receives what is published after it *)
(* opened, in order (TCP), and only while it is OPEN (the browser drops    *)
(* message events of a socket that is not OPEN).                           *)
(*                                                                         *)
(* A frame is an entry of FrameTable: [type, kind, val].  kind abstracts  *)
(* the runtime shape of `data`: "list" (Array.isArray), "one" (an object),*)
(* "null" (null data) and "garbage" (the text is not JSON).                *)
(*                                                                         *)
(* The state updaters passed to setActiveCalls and setActiveChannels run   *)
(* while React renders, outside the try of onmessage.  When one throws     *)
(* (a null delta, or a null entry left in the array) the error reaches the *)
(* root: React unmounts the tree and the page is dead until it is loaded   *)
(* again (`crashed`; only PageLoad is modelled from there).                *)
(***************************************************************************)
EXTENDS WebSocketConnection, Sequences

CONSTANTS
  CallIds, CallStates,       \* ids and Call.status values
  ChannelIds, ChannelStates, \* ids and Channel.state values
  NotifIds,                  \* notification ids
  Cap,                       \* notification cap (50 in the code)
  FrameTable,                \* the frames the server can send
  MaxFrames,                 \* bound on frames published
  MaxNotifCalls              \* bound on clearNotifications/markNotificationRead

VARIABLES
  activeCalls, activeChannels, systemMetrics, dashboardStats, notifications,
  published,   \* indices into FrameTable, in publication order
  pos,         \* pos[s]: frames of `published` socket s has delivered
  crashed,     \* an updater threw during render; the tree is unmounted
  notifCalls   \* consumer calls of the notification API so far (bound only)

Collections == <<activeCalls, activeChannels, systemMetrics, dashboardStats,
                 notifications>>
syncVars == <<activeCalls, activeChannels, systemMetrics, dashboardStats,
              notifications, published, pos, crashed, notifCalls>>
allVars == <<vars, syncVars>>

Calls == INSTANCE EntityReconciler
           WITH coll <- activeCalls, Ids <- CallIds, States <- CallStates,
                Terminal <- "ended", MaxList <- 0
Chans == INSTANCE EntityReconciler
           WITH coll <- activeChannels, Ids <- ChannelIds,
                States <- ChannelStates, Terminal <- "down", MaxList <- 0
Notifs == INSTANCE NotificationBuffer

\* null: an array entry or a delta that is not an object.
Null == [id |-> "null", st |-> "null"]
NoValue == "null"   \* systemMetrics / dashboardStats before any message

FrameIds == DOMAIN FrameTable

SyncTypeOK ==
  /\ ConnTypeOK
  /\ activeCalls \in Seq(Calls!Entity \cup {Null})
  /\ activeChannels \in Seq(Chans!Entity \cup {Null})
  /\ notifications \in Seq(Notifs!Notification)
  /\ published \in Seq(FrameIds) /\ Len(published) <= MaxFrames
  /\ pos \in [SocketIds -> 0..MaxFrames]
  /\ crashed \in BOOLEAN
  /\ notifCalls \in 0..MaxNotifCalls

\* The initial React state of the collections.
SyncReset ==
  /\ activeCalls' = <<>> /\ activeChannels' = <<>>
  /\ systemMetrics' = NoValue /\ dashboardStats' = NoValue
  /\ notifications' = <<>>
  /\ crashed' = FALSE

SyncInit ==
  /\ Init
  /\ activeCalls = <<>> /\ activeChannels = <<>>
  /\ systemMetrics = NoValue /\ dashboardStats = NoValue
  /\ notifications = <<>>
  /\ published = <<>>
  /\ pos = [s \in SocketIds |-> 0]
  /\ crashed = FALSE
  /\ notifCalls = 0

-----------------------------------------------------------------------------
(* The entity handlers with JavaScript's null semantics.                   *)

\* Whether the updater of a single-entity update throws on `prev`:
\* findIndex calls `call => call.id === data.id` on each entry up to the
\* first match, which throws on a null entry or on null data; a terminal
\* delta for a known id then runs filter over every entry.
DeltaThrows(prev, data, terminal) ==
  LET matches == {k \in DOMAIN prev : prev[k] # Null /\ data # Null
                                      /\ prev[k].id = data.id}
      scanned == IF matches = {} THEN Len(prev)
                 ELSE CHOOSE k \in matches : \A j \in matches : k <= j
  IN \/ \E k \in 1..scanned : prev[k] = Null \/ data = Null
     \/ matches # {} /\ data.st = terminal /\ \E k \in DOMAIN prev : prev[k] = Null

\* Seeded bug variant of EntityUpdate: a delta always appended.
EntityUpdateAppends(prev, f, delta) ==
  IF f.kind = "list" THEN f.val ELSE Append(prev, f.val)


\* handleCallUpdate / handleChannelUpdate: an array replaces the
\* collection, anything else is the single-entity update `delta` (the
\* reconciler's ApplyDelta, evaluated only for a non-array).
EntityUpdate(prev, f, delta) ==
  IF f.kind = "list" THEN f.val ELSE delta

\* Seeded bug variant of Notify: the whole message pushed instead of
\* message.data.
NotifyWholeMessage(prev, f) == Notifs!Prepend(prev, f)

\* case 'notification': handleNotification(message.data).
Notify(prev, f) == Notifs!Prepend(prev, f.val)

\* Seeded bug variant of IfPresent: the `if (data.x)` guard dropped, so an
\* absent field sets the state to undefined (its val).
IfPresentUnguarded(field, cur) == field.val

\* `if (data.x) setX(data.x)` of handleInitialData.
IfPresent(field, cur) == IF field.present THEN field.val ELSE cur

-----------------------------------------------------------------------------
(* The dispatcher.                                                         *)

\* handleWebSocketMessage(message): the switch on message.type.  Returns
\* normally (crashed' = FALSE) except when an entity updater throws.
HandleWebSocketMessage(f) ==
  CASE f.type = "call_update" ->
         IF f.kind # "list" /\ DeltaThrows(activeCalls, f.val, "ended")
           THEN crashed' = TRUE /\ UNCHANGED Collections
           ELSE /\ activeCalls' = EntityUpdate(activeCalls, f,
                                    Calls!ApplyDelta(activeCalls, f.val))
                /\ crashed' = FALSE
                /\ UNCHANGED <<activeChannels, systemMetrics, dashboardStats,
                               notifications>>
    [] f.type = "channel_update" ->
         IF f.kind # "list" /\ DeltaThrows(activeChannels, f.val, "down")
           THEN crashed' = TRUE /\ UNCHANGED Collections
           ELSE /\ activeChannels' = EntityUpdate(activeChannels, f,
                                       Chans!ApplyDelta(activeChannels, f.val))
                /\ crashed' = FALSE
                /\ UNCHANGED <<activeCalls, systemMetrics, dashboardStats,
                               notifications>>
    [] f.type = "system_metrics" ->
         /\ systemMetrics' = f.val /\ crashed' = FALSE
         /\ UNCHANGED <<activeCalls, activeChannels, dashboardStats,
                        notifications>>
    [] f.type = "dashboard_stats" ->
         /\ dashboardStats' = f.val /\ crashed' = FALSE
         /\ UNCHANGED <<activeCalls, activeChannels, systemMetrics,
                        notifications>>
    [] f.type = "notification" ->
         /\ notifications' = Notify(notifications, f)
         /\ crashed' = FALSE
         /\ UNCHANGED <<activeCalls, activeChannels, systemMetrics,
                        dashboardStats>>
    [] f.type = "initial_data" ->
         /\ activeCalls' = IfPresent(f.val.calls, activeCalls)
         /\ activeChannels' = IfPresent(f.val.channels, activeChannels)
         /\ systemMetrics' = IfPresent(f.val.metrics, systemMetrics)
         /\ dashboardStats' = IfPresent(f.val.stats, dashboardStats)
         /\ notifications' = IfPresent(f.val.notifications, notifications)
         /\ crashed' = FALSE
    [] OTHER -> crashed' = FALSE /\ UNCHANGED Collections  \* unknown type

\* onmessage: JSON.parse and the dispatch inside one try.  Errors thrown
\* synchronously (text that is not JSON; `data.calls` of a null
\* initial_data) are caught and logged.
OnMessage(f) ==
  IF f.kind = "garbage" \/ (f.type = "initial_data" /\ f.kind = "null")
    THEN crashed' = FALSE /\ UNCHANGED Collections
    ELSE HandleWebSocketMessage(f)

-----------------------------------------------------------------------------
(* Actions.                                                                *)

\* The server publishes a frame to its subscribers (while one is open).
Publish(i) ==
  /\ ~crashed
  /\ Len(published) < MaxFrames
  /\ \E s \in SocketIds : ws[s].st = "open"
  /\ published' = Append(published, i)
  /\ UNCHANGED <<vars, Collections, pos, crashed, notifCalls>>

\* onopen of socket s: the subscribe request makes the server send it the
\* frames published from now on.
SyncOpen(s) ==
  /\ ~crashed
  /\ Open(s)
  /\ pos' = [pos EXCEPT ![s] = Len(published)]
  /\ UNCHANGED <<Collections, published, crashed, notifCalls>>

\* onmessage of open socket s with the next frame of its stream.
Receive(s) ==
  /\ ~crashed
  /\ ws[s].st = "open"
  /\ pos[s] < Len(published)
  /\ OnMessage(FrameTable[published[pos[s] + 1]])
  /\ pos' = [pos EXCEPT ![s] = @ + 1]
  /\ UNCHANGED <<vars, published, notifCalls>>

\* A full page load: the connection's PageLoad and fresh collections.
SyncPageLoad(c) ==
  /\ PageLoad(c)
  /\ SyncReset
  /\ UNCHANGED <<published, pos, notifCalls>>

\* clearNotifications(), exposed by the context (no caller in src/).
ClearNotifications ==
  /\ ~crashed /\ notifCalls < MaxNotifCalls
  /\ notifications' = <<>>
  /\ notifCalls' = notifCalls + 1
  /\ UNCHANGED <<vars, activeCalls, activeChannels, systemMetrics,
                 dashboardStats, published, pos, crashed>>

\* markNotificationRead(id), exposed by the context (no caller in src/).
MarkNotificationRead(id) ==
  /\ ~crashed /\ notifCalls < MaxNotifCalls
  /\ notifications' = Notifs!MarkRead(notifications, id)
  /\ notifCalls' = notifCalls + 1
  /\ UNCHANGED <<vars, activeCalls, activeChannels, systemMetrics,
                 dashboardStats, published, pos, crashed>>

\* Every other step of the connection leaves the collections alone.
ConnStep ==
  /\ ~crashed
  /\ \/ AuthStep \/ AuthEffect
     \/ \E s \in SocketIds : Drop(s) \/ Closed(s) \/ ReconnectTimer(s)
     \/ ConsumerConnect \/ ConsumerDisconnect \/ Redirect401
  /\ UNCHANGED syncVars

SyncNext ==
  \/ ConnStep
  \/ \E s \in SocketIds : SyncOpen(s) \/ Receive(s)
  \/ \E i \in FrameIds : Publish(i)
  \/ \E c \in BOOLEAN : SyncPageLoad(c)
  \/ ClearNotifications
  \/ \E id \in NotifIds : MarkNotificationRead(id)

SyncSpec == SyncInit /\ [][SyncNext]_allVars

-----------------------------------------------------------------------------
(* Properties.                                                             *)

\* Spec 3 and 8 in the composed provider: whichever sockets deliver full
\* lists and deltas, in whatever interleaving, neither collection ever
\* holds two entries with the same id.
EntityIdsUnique ==
  /\ \A j, k \in DOMAIN activeCalls :
       activeCalls[j] # Null /\ activeCalls[j].id = activeCalls[k].id => j = k
  /\ \A j, k \in DOMAIN activeChannels :
       activeChannels[j] # Null /\ activeChannels[j].id = activeChannels[k].id
         => j = k

\* Spec 4.4: handleNotification's slice-then-prepend equals the spec's
\* prepend-then-truncate on every buffer the provider can hold, including
\* one longer than the cap left by initial_data.
NotifPushMatchesSpec == Notifs!PushMatchesSpec

\* Spec 4.4 and 8: the notification buffer never holds more than Cap
\* entries, whatever mix of notification and initial_data frames arrives.
NotificationsWithinCap == Notifs!NotificationsBounded

\* Spec 4.2 and 7(b): protocol faults (text that is not JSON, unknown
\* types, a null payload) are logged and dropped; they never bring the
\* provider down.
ProtocolFaultsContained == ~crashed

\* Spec 3 and 7(c): what the provider applies belongs to the current
\* session.  Every frame onmessage handles while a session is signed in
\* arrives over a socket opened with that session's token; a socket of an
\* earlier session (one disconnect() could not see, or one a stale timer
\* opened) must not feed the next session's collections.
SessionDataIsolated ==
  [][\A s \in SocketIds :
       Receive(s) /\ isAuthenticated => ws[s].url = token]_allVars

=============================================================================
