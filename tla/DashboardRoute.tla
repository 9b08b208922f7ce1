--------------------------- MODULE DashboardRoute ---------------------------
(***************************************************************************)
(* The route the browser is on, beside the session and the connection.     *)
(* Every dashboard page renders inside DashboardLayout                     *)
(* (src/client/src/components/DashboardLayout.tsx), which wraps it in      *)
(* ProtectedRoute (src/client/src/components/ProtectedRoute.tsx) with no   *)
(* requiredPermission and requireAdmin = false, so of the guard only the   *)
(* loading and isAuthenticated branches are reachable.  The layout's       *)
(* logout button awaits logout() and pushes /login.  The login page is not *)
(* part of src/: it shows the form and, on success, goes to /dashboard.    *)
(* The 401 interceptor of api-client.ts loads /login; a reload keeps the   *)
(* route.  Development-mode branches are not modelled.                     *)
(***************************************************************************)
EXTENDS WebSocketConnection

VARIABLE route   \* "login" or "dashboard"

routeVars == <<vars, route>>

Routes == {"login", "dashboard"}

\* What ProtectedRoute renders: the spinner while loading, the page only
\* for an authenticated session, null otherwise.
DashboardShown == route = "dashboard" /\ ~loading /\ isAuthenticated

RInit == Init /\ route \in Routes

\* Seeded bug variant of GuardEffect: the early return inverted
\* (`if (!loading) return;`).
GuardEffectWhileLoading ==
  /\ route = "dashboard"
  /\ loading
  /\ ~isAuthenticated
  /\ route' = "login"
  /\ UNCHANGED vars

\* ProtectedRoute's effect: `if (loading) return;` then
\* `if (!isAuthenticated) router.push('/login')`.
GuardEffect ==
  /\ route = "dashboard"
  /\ ~loading
  /\ ~isAuthenticated
  /\ route' = "login"
  /\ UNCHANGED vars

\* The login form succeeding: login() and the push to /dashboard.
LoginPageLogin(t) ==
  /\ route = "login"
  /\ Login(t)
  /\ route' = "dashboard"

\* handleLogout in DashboardLayout: `await logout(); router.push('/login')`.
HandleLogout(apiOk) ==
  /\ route = "dashboard"
  /\ Logout(apiOk)
  /\ route' = "login"

\* PageLoad with the route it lands on: /login, where the interceptor's
\* navigation goes, or the current route on a reload.
RoutePageLoad(toLogin) ==
  /\ PageLoad(toLogin)
  /\ route' = IF toLogin THEN "login" ELSE route

\* AuthStep of WebSocketConnection, with each session change made from the
\* page that makes it.
RAuthStep ==
  /\ EffectSettled
  /\ \/ CheckAuth /\ UNCHANGED route
     \/ \E t \in Tokens : LoginPageLogin(t)
     \/ \E ok \in BOOLEAN : HandleLogout(ok)
     \/ ConsumerCalls /\ \E t \in Tokens : RefreshToken(t) /\ UNCHANGED route
  /\ UNCHANGED connVars

RNext ==
  \/ RAuthStep
  \/ GuardEffect
  \/ Redirect401 /\ UNCHANGED route
  \/ \E c \in BOOLEAN : RoutePageLoad(c)
  \/ /\ \/ AuthEffect
        \/ \E s \in SocketIds : Open(s) \/ Drop(s) \/ Closed(s)
                                \/ ReconnectTimer(s)
        \/ ConsumerConnect
        \/ ConsumerDisconnect
     /\ UNCHANGED route

\* The fairness of WebSocketConnection, with React running the guard's
\* effect after a commit.
RFairness ==
  /\ WF_routeVars(CheckAuth /\ UNCHANGED <<connVars, route>>)
  /\ WF_routeVars(AuthEffect /\ UNCHANGED route)
  /\ \A s \in SocketIds : /\ WF_routeVars(Open(s) /\ UNCHANGED route)
                          /\ WF_routeVars(Closed(s) /\ UNCHANGED route)
                          /\ WF_routeVars(ReconnectTimer(s) /\ UNCHANGED route)
  /\ WF_routeVars(GuardEffect)
  /\ WF_routeVars(RoutePageLoad(TRUE))

RSpec == RInit /\ [][RNext]_routeVars /\ RFairness

-----------------------------------------------------------------------------
(* Properties.                                                             *)

\* Whenever a dashboard page is on screen, the token of the React session
\* (the one the provider's effect keys on) is the token in localStorage
\* (the one createWebSocket() and the request interceptor send), except
\* between the 401 interceptor's removeAuthToken() and the load of /login:
\* login, logout, reloads and checkAuth never leave the page showing with
\* the two apart.
DashboardTokenMatchesStorage ==
  DashboardShown /\ ~unloading => token = stored

\* ProtectedRoute's effect waits for AuthProvider's checkAuth: a load of a
\* dashboard page with a token in localStorage comes to show the page
\* unless the session changes first (a login, logout, 401 or reload, each
\* counting an authStep).  A guard that redirected while checkAuth is
\* pending would send the signed-in user to /login.
ReloadShowsDashboard ==
  \A n \in 0..MaxAuthSteps :
    (route = "dashboard" /\ loading /\ stored # NoToken /\ authSteps = n)
      ~> (DashboardShown \/ authSteps # n)

=============================================================================
