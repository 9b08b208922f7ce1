-------------------------- MODULE UseWebSocketHook --------------------------
(***************************************************************************)
(* The useWebSocket() hook of src/client/src/hooks/index.ts: a second,     *)
(* self-contained connection owner beside WebSocketProvider, with its own  *)
(* `socket` and `connected` state and one effect on [isAuthenticated,      *)
(* token].  The effect has no cleanup.  When the session is absent it       *)
(* closes the `socket` of its render; otherwise it creates a socket.  The  *)
(* onclose timer only calls setSocket(null).                               *)
(*                                                                         *)
(* Sockets are as in WebSocketConnection: connecting, open, closing,       *)
(* closed; onerror and onclose of a failing socket are one step.  The      *)
(* effect closure that creates a socket has isAuthenticated = TRUE, so the *)
(* timer's `if (isAuthenticated)` always holds and is not recorded.        *)
(***************************************************************************)
EXTENDS AuthSession, Naturals, FiniteSets

CONSTANTS
  MaxSockets,  \* bound on sockets ever created (ids 1..MaxSockets)
  MaxDrops     \* bound on connections dropped by network or server

ASSUME MaxSockets \in Nat \ {0} /\ MaxDrops \in Nat

VARIABLES
  hws,         \* hws[i]: readyState of socket i and the token in its URL
  hNext,       \* sockets created so far
  hSocket,     \* the hook's `socket` state (0 = null)
  hConnected,  \* the hook's `connected` state
  hTimers,     \* sockets whose onclose timer is pending
  hDeps,       \* deps of the effect's last run
  hDrops       \* drops so far (bound only)

hookVars == <<hws, hNext, hSocket, hConnected, hTimers, hDeps, hDrops>>
hvars == <<authVars, hookVars>>

HSocketIds == 1..MaxSockets
HNoSocket == 0
HNotRun == <<>>
HLive == {"connecting", "open"}

HTypeOK ==
  /\ AuthTypeOK
  /\ hws \in [HSocketIds -> [st : {"unused", "connecting", "open", "closing",
                                   "closed"}, url : MaybeToken]]
  /\ hNext \in 0..MaxSockets
  /\ hSocket \in {HNoSocket} \cup HSocketIds
  /\ hConnected \in BOOLEAN
  /\ hTimers \subseteq HSocketIds
  /\ hDeps \in {HNotRun} \cup (BOOLEAN \X MaybeToken)
  /\ hDrops \in 0..MaxDrops

HInit ==
  /\ AuthInit
  /\ hws = [i \in HSocketIds |-> [st |-> "unused", url |-> NoToken]]
  /\ hNext = 0
  /\ hSocket = HNoSocket
  /\ hConnected = FALSE
  /\ hTimers = {}
  /\ hDeps = HNotRun
  /\ hDrops = 0

\* The useState initial values after a page load.
HReset ==
  /\ hSocket' = HNoSocket /\ hConnected' = FALSE
  /\ hTimers' = {} /\ hDeps' = HNotRun

-----------------------------------------------------------------------------
(* Actions.                                                                *)

\* The effect after a render whose deps differ from its last run.  Without
\* a session: `if (socket)` close it and clear the state.  With one:
\* createWebSocket() (URL token from localStorage); nothing is closed.
HookEffect ==
  /\ <<isAuthenticated, token>> # hDeps
  /\ hDeps' = <<isAuthenticated, token>>
  /\ IF ~isAuthenticated \/ token = NoToken
       THEN /\ hws' = IF hSocket # HNoSocket /\ hws[hSocket].st \in HLive
                        THEN [hws EXCEPT ![hSocket].st = "closing"] ELSE hws
            /\ hSocket' = HNoSocket
            /\ hConnected' = IF hSocket # HNoSocket THEN FALSE ELSE hConnected
            /\ UNCHANGED hNext
       ELSE /\ hNext < MaxSockets
            /\ hws' = [hws EXCEPT ![hNext + 1] =
                         [st |-> "connecting", url |-> CreateWebSocketUrl]]
            /\ hNext' = hNext + 1
            /\ UNCHANGED <<hSocket, hConnected>>
  /\ UNCHANGED <<authVars, hTimers, hDrops>>

\* onopen: setConnected(true), setSocket(newSocket).
HookOpen(s) ==
  /\ hws[s].st = "connecting"
  /\ hws[s].url # NoToken
  /\ hws' = [hws EXCEPT ![s].st = "open"]
  /\ hConnected' = TRUE
  /\ hSocket' = s
  /\ UNCHANGED <<authVars, hNext, hTimers, hDeps, hDrops>>

\* onclose of socket s: setConnected(false), setSocket(null), and a 5 s
\* timer.
HookOnClose(s) ==
  /\ hConnected' = FALSE
  /\ hSocket' = HNoSocket
  /\ hTimers' = hTimers \cup {s}

\* The network or the server closes socket s: onerror then onclose.
HookDrop(s) ==
  /\ hDrops < MaxDrops
  /\ hws[s].st \in HLive
  /\ hws' = [hws EXCEPT ![s].st = "closed"]
  /\ HookOnClose(s)
  /\ hDrops' = hDrops + 1
  /\ UNCHANGED <<authVars, hNext, hDeps>>

\* The close handshake started by socket.close() completes: onclose.
HookClosed(s) ==
  /\ hws[s].st = "closing"
  /\ hws' = [hws EXCEPT ![s].st = "closed"]
  /\ HookOnClose(s)
  /\ UNCHANGED <<authVars, hNext, hDeps, hDrops>>

\* The timer: `if (isAuthenticated) setSocket(null)`.  The comment says
\* this triggers a reconnection; `socket` is not a dependency of the
\* effect, so it does not.
HookTimer(s) ==
  /\ s \in hTimers
  /\ hTimers' = hTimers \ {s}
  /\ hSocket' = HNoSocket
  /\ UNCHANGED <<authVars, hws, hNext, hConnected, hDeps, hDrops>>

\* A full page load: sockets and timers are discarded, React restarts.
HookPageLoad(clearToken) ==
  /\ authSteps < MaxAuthSteps
  /\ IF clearToken THEN RemoveAuthToken ELSE UNCHANGED stored
  /\ AuthReset
  /\ authSteps' = authSteps + 1
  /\ hws' = [i \in HSocketIds |-> IF hws[i].st = "unused" THEN hws[i]
                                  ELSE [hws[i] EXCEPT !.st = "closed"]]
  /\ HReset
  /\ UNCHANGED <<hNext, hDrops>>

\* A session change, once the effect has seen the previous one.
HookAuthStep ==
  /\ hDeps = <<isAuthenticated, token>>
  /\ \/ CheckAuth
     \/ \E t \in Tokens : Login(t)
     \/ \E ok \in BOOLEAN : Logout(ok)
  /\ UNCHANGED hookVars

HNext ==
  \/ HookAuthStep
  \/ HookEffect
  \/ \E s \in HSocketIds : HookOpen(s) \/ HookDrop(s) \/ HookClosed(s)
                            \/ HookTimer(s)
  \/ \E c \in BOOLEAN : HookPageLoad(c)

\* Effects, close handshakes, timers and the backend's accept are fair, as
\* in WebSocketConnection; drops and session changes are not.
HFairness ==
  /\ WF_hvars(CheckAuth /\ UNCHANGED hookVars)
  /\ WF_hvars(HookEffect)
  /\ \A s \in HSocketIds : WF_hvars(HookOpen(s)) /\ WF_hvars(HookClosed(s))
                           /\ WF_hvars(HookTimer(s))

HSpec == HInit /\ [][HNext]_hvars /\ HFairness

-----------------------------------------------------------------------------
(* Properties.                                                             *)

\* The comment at the timer: after a drop, the hook reconnects while the
\* session lasts.
HookReconnects ==
  (isAuthenticated /\ token # NoToken) ~> (hConnected \/ ~isAuthenticated)

=============================================================================
