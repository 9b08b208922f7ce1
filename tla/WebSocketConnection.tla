------------------------ MODULE WebSocketConnection ------------------------
(***************************************************************************)
(* Transport connector and reconnection supervisor: the connection part    *)
(* of WebSocketProvider (src/client/src/contexts/WebSocketContext.tsx)      *)
(* running beside the credential store of AuthSession.                     *)
(*                                                                         *)
(* React closures are modelled by what they capture.  connect() is        *)
(* recreated on every render and reads isAuthenticated and token of that   *)
(* render; the socket it creates keeps that closure in its onclose         *)
(* handler, and the 5 s reconnect timer calls the same closure again.  So  *)
(* each socket records the closure's snapshot (cAuth, cTok), and a timer   *)
(* fires with the snapshot of the socket whose close scheduled it.  The   *)
(* cleanup of the [isAuthenticated, token] effect is the disconnect() of   *)
(* the render in which the effect last ran: it holds that render's         *)
(* `socket` (cleanupSocket).                                               *)
(*                                                                         *)
(* Browser WebSocket: a socket is connecting, open, closing (close() was   *)
(* called) or closed.  A network or server close fires onerror (which only *)
(* sets connected to false) and onclose in the same task, so the two are  *)
(* one step.  Closed sockets never fire again.                             *)
(***************************************************************************)
EXTENDS AuthSession, Naturals, FiniteSets

CONSTANTS
  MaxSockets,     \* bound on sockets ever created (ids 1..MaxSockets)
  MaxDrops,       \* bound on connections dropped by network or server
  CreateMayFail,  \* whether new WebSocket(url) may throw (bad URL)
  ConsumerCalls,  \* whether consumers call the exposed connect/disconnect
  MaxCalls        \* bound on those consumer calls

ASSUME MaxSockets \in Nat \ {0}
ASSUME MaxDrops \in Nat /\ MaxCalls \in Nat
ASSUME CreateMayFail \in BOOLEAN /\ ConsumerCalls \in BOOLEAN

VARIABLES
  ws,             \* ws[i]: state of socket i and the closure it captured
  nextId,         \* number of sockets created so far
  socket,         \* React state `socket` (NoSocket = null)
  connected,      \* React state `connected`
  timers,         \* sockets whose onclose timer is pending
  effDeps,        \* deps of the last run of the [isAuthenticated, token] effect
  cleanupSocket,  \* `socket` held by that effect's cleanup closure
  drops,          \* drops so far (bound only)
  calls,          \* consumer calls so far (bound only)
  unloading       \* window.location.href = '/login' assigned, page not yet
                  \* replaced

connVars == <<ws, nextId, socket, connected, timers, effDeps, cleanupSocket,
              drops, calls, unloading>>
vars == <<authVars, connVars>>

SocketIds == 1..MaxSockets
NoSocket == 0
NotRun == <<>>                 \* the effect has not run since mount
Live == {"connecting", "open"}  \* readyState CONNECTING or OPEN

SocketState == [st : {"unused", "connecting", "open", "closing", "closed"},
                url : MaybeToken,     \* token put in the URL at creation
                cAuth : BOOLEAN,      \* isAuthenticated seen by connect()
                cTok : MaybeToken]    \* token seen by connect()

Unused == [st |-> "unused", url |-> NoToken, cAuth |-> FALSE, cTok |-> NoToken]

LiveSockets == {i \in SocketIds : ws[i].st \in Live}

ConnTypeOK ==
  /\ AuthTypeOK
  /\ ws \in [SocketIds -> SocketState]
  /\ nextId \in 0..MaxSockets
  /\ socket \in {NoSocket} \cup SocketIds
  /\ connected \in BOOLEAN
  /\ timers \subseteq SocketIds
  /\ effDeps \in {NotRun} \cup (BOOLEAN \X MaybeToken)
  /\ cleanupSocket \in {NoSocket} \cup SocketIds
  /\ drops \in 0..MaxDrops
  /\ calls \in 0..MaxCalls
  /\ unloading \in BOOLEAN

ConnReset ==
  /\ socket' = NoSocket
  /\ connected' = FALSE
  /\ timers' = {}
  /\ effDeps' = NotRun
  /\ cleanupSocket' = NoSocket

Init ==
  /\ AuthInit
  /\ ws = [i \in SocketIds |-> Unused]
  /\ nextId = 0
  /\ socket = NoSocket
  /\ connected = FALSE
  /\ timers = {}
  /\ effDeps = NotRun
  /\ cleanupSocket = NoSocket
  /\ drops = 0
  /\ calls = 0
  /\ unloading = FALSE

-----------------------------------------------------------------------------
(* Helpers for the handlers.                                               *)

\* socket.close() on the sockets held in S, applied to the sockets w:
\* a connecting or open socket starts closing; otherwise close() is a no-op.
CloseSockets(w, S) ==
  [i \in SocketIds |-> IF i \in S /\ w[i].st \in Live
                         THEN [w[i] EXCEPT !.st = "closing"] ELSE w[i]]

\* connect() of a render with isAuthenticated = a and token = k, starting
\* from sockets w: returns early without a session; otherwise
\* apiClient.createWebSocket() reads localStorage and opens a socket, or
\* throws and the error is logged.  It never checks for an existing socket.
Connect(w, a, k) ==
  IF ~a \/ k = NoToken
    THEN ws' = w /\ nextId' = nextId
    ELSE \/ /\ nextId < MaxSockets
            /\ ws' = [w EXCEPT ![nextId + 1] =
                        [st |-> "connecting", url |-> CreateWebSocketUrl,
                         cAuth |-> a, cTok |-> k]]
            /\ nextId' = nextId + 1
         \/ /\ CreateMayFail
            /\ ws' = w /\ nextId' = nextId

\* The React state updates of disconnect() closures holding the sockets S:
\* `if (socket)` they null the socket and clear connected.
Released(S) ==
  IF S \ {NoSocket} # {}
    THEN socket' = NoSocket /\ connected' = FALSE
    ELSE UNCHANGED <<socket, connected>>

\* Seeded bug variants of OnClose, used as mutants of the properties below:
\* onclose leaving the stale reference in `socket`, onclose not scheduling
\* the reconnect, and onclose keying the timer on the state `socket`.
OnCloseKeepsSocket(s) ==
  /\ connected' = FALSE
  /\ socket' = socket
  /\ timers' = timers \cup {s}

OnCloseNoRetry(s) ==
  /\ connected' = FALSE
  /\ socket' = NoSocket
  /\ timers' = timers

OnCloseTimerOnState(s) ==
  /\ connected' = FALSE
  /\ socket' = NoSocket
  /\ timers' = timers \cup {socket}

\* The onclose handler of socket s.
OnClose(s) ==
  /\ connected' = FALSE
  /\ socket' = NoSocket
  /\ timers' = timers \cup {s}

-----------------------------------------------------------------------------
(* Actions.                                                                *)

\* The [isAuthenticated, token] effect after a render whose deps differ
\* from the last run: the previous run's cleanup disconnect() with its
\* stale socket, then connect() or disconnect() of the current render.
AuthEffect ==
  LET deps == <<isAuthenticated, token>>
      afterCleanup == CloseSockets(ws, {cleanupSocket})
  IN /\ deps # effDeps
     /\ IF isAuthenticated /\ token # NoToken
          THEN /\ Connect(afterCleanup, isAuthenticated, token)
               /\ Released({cleanupSocket})
          ELSE /\ ws' = CloseSockets(afterCleanup, {socket})
               /\ nextId' = nextId
               /\ Released({cleanupSocket, socket})
     /\ effDeps' = deps
     /\ cleanupSocket' = socket
     /\ UNCHANGED <<authVars, timers, drops, calls, unloading>>

\* onopen: the server accepted socket s (it requires a token in the URL);
\* the handler marks the provider connected, stores the socket and sends
\* the subscribe request.
Open(s) ==
  /\ ws[s].st = "connecting"
  /\ ws[s].url # NoToken
  /\ ws' = [ws EXCEPT ![s].st = "open"]
  /\ connected' = TRUE
  /\ socket' = s
  /\ UNCHANGED <<authVars, nextId, timers, effDeps, cleanupSocket, drops, calls,
                 unloading>>

\* The network or the server closes socket s: onerror then onclose.
Drop(s) ==
  /\ drops < MaxDrops
  /\ ws[s].st \in Live
  /\ ws' = [ws EXCEPT ![s].st = "closed"]
  /\ OnClose(s)
  /\ drops' = drops + 1
  /\ UNCHANGED <<authVars, nextId, effDeps, cleanupSocket, calls, unloading>>

\* The close handshake that close() started completes: onclose.
Closed(s) ==
  /\ ws[s].st = "closing"
  /\ ws' = [ws EXCEPT ![s].st = "closed"]
  /\ OnClose(s)
  /\ UNCHANGED <<authVars, nextId, effDeps, cleanupSocket, drops, calls,
                 unloading>>

\* The 5 s timer scheduled by socket s's onclose: `if (isAuthenticated)
\* connect()`, both read from the closure that created s.
ReconnectTimer(s) ==
  /\ s \in timers
  /\ timers' = timers \ {s}
  /\ IF ws[s].cAuth
       THEN Connect(ws, ws[s].cAuth, ws[s].cTok)
       ELSE UNCHANGED <<ws, nextId>>
  /\ UNCHANGED <<authVars, socket, connected, effDeps, cleanupSocket,
                 drops, calls, unloading>>

\* A consumer calls the exposed connect() of the current render.
ConsumerConnect ==
  /\ ConsumerCalls /\ calls < MaxCalls
  /\ Connect(ws, isAuthenticated, token)
  /\ calls' = calls + 1
  /\ UNCHANGED <<authVars, socket, connected, timers, effDeps,
                 cleanupSocket, drops, unloading>>

\* A consumer calls the exposed disconnect() of the current render.
ConsumerDisconnect ==
  /\ ConsumerCalls /\ calls < MaxCalls
  /\ ws' = CloseSockets(ws, {socket})
  /\ Released({socket})
  /\ calls' = calls + 1
  /\ UNCHANGED <<authVars, nextId, timers, effDeps, cleanupSocket, drops,
                 unloading>>

\* The response interceptor after a 401 on any REST call:
\* removeAuthToken(), then `window.location.href = '/login'`, which only
\* starts the navigation.  Until the new document replaces this one the
\* page keeps running with the React session it had (its timers, sockets
\* and effects included) while localStorage holds no token.
Redirect401 ==
  /\ ~unloading
  /\ authSteps < MaxAuthSteps
  /\ RemoveAuthToken
  /\ unloading' = TRUE
  /\ authSteps' = authSteps + 1
  /\ UNCHANGED <<isAuthenticated, token, loading, ws, nextId, socket,
                 connected, timers, effDeps, cleanupSocket, drops, calls>>

\* A new document replaces the page: the navigation to /login that
\* Redirect401 started (toLogin), or a reload.  A reload is not taken
\* while that navigation is under way.  The browser discards the page's
\* sockets and timers; React state restarts; localStorage is kept.
PageLoad(toLogin) ==
  /\ IF toLogin THEN unloading
                ELSE ~unloading /\ authSteps < MaxAuthSteps
  /\ authSteps' = IF toLogin THEN authSteps ELSE authSteps + 1
  /\ AuthReset
  /\ UNCHANGED stored
  /\ ws' = [i \in SocketIds |-> IF ws[i].st = "unused" THEN ws[i]
                                ELSE [ws[i] EXCEPT !.st = "closed"]]
  /\ ConnReset
  /\ unloading' = FALSE
  /\ UNCHANGED <<nextId, drops, calls>>

\* React flushes the passive effects of a commit before it renders the next
\* update, so the effect has seen the current session before the session
\* changes again.  Socket events and timers are separate tasks and may run
\* while an effect is still pending.
EffectSettled == effDeps = <<isAuthenticated, token>>

\* A session change.  refreshToken() is exposed by AuthContext but has no
\* caller in src/, so it is one of the consumer calls.
AuthStep ==
  /\ EffectSettled
  /\ \/ CheckAuth
     \/ \E t \in Tokens : Login(t)
     \/ \E ok \in BOOLEAN : Logout(ok)
     \/ ConsumerCalls /\ \E t \in Tokens : RefreshToken(t)
  /\ UNCHANGED connVars

Next ==
  \/ AuthStep
  \/ AuthEffect
  \/ \E s \in SocketIds : Open(s) \/ Drop(s) \/ Closed(s) \/ ReconnectTimer(s)
  \/ ConsumerConnect
  \/ ConsumerDisconnect
  \/ Redirect401
  \/ \E c \in BOOLEAN : PageLoad(c)

\* The event loop eventually runs pending effects, timers and close events;
\* the backend eventually accepts a connection that carries a token; the
\* browser eventually loads the page a navigation asked for.
Fairness ==
  /\ WF_vars(CheckAuth /\ UNCHANGED connVars)
  /\ WF_vars(PageLoad(TRUE))
  /\ WF_vars(AuthEffect)
  /\ \A s \in SocketIds : WF_vars(Open(s)) /\ WF_vars(Closed(s))
                          /\ WF_vars(ReconnectTimer(s))

Spec == Init /\ [][Next]_vars /\ Fairness

-----------------------------------------------------------------------------
(* Properties.                                                             *)

\* The connection indicator is sound: while the provider says connected it
\* holds a socket, and the socket it holds is open.  onopen, onclose of any
\* socket (stale ones included) and both disconnect() closures write
\* `socket` and `connected`; they must never leave a reference to a closing
\* or closed socket or a connected flag without one.
ConnectionIndicatorSound ==
  /\ connected => socket # NoSocket
  /\ socket # NoSocket => ws[socket].st = "open"

\* Reconnection (spec 4.1): while the session stays authenticated the
\* provider gets connected again after any close, through the onclose timer
\* and connect().  Assumes new WebSocket() does not throw: the spec accepts
\* that a synchronous connect failure is not retried.
ReconnectsWhileAuthenticated ==
  (isAuthenticated /\ token # NoToken) ~> (connected \/ ~isAuthenticated)

\* connect() preconditions (spec 4.1, 8): a connection is only ever opened
\* while the session is authenticated; a reconnect pending when the session
\* ends must not execute.
ConnectOnlyWithSession ==
  [][nextId' > nextId => isAuthenticated /\ token # NoToken]_vars

=============================================================================
