---------------------------- MODULE AuthSession ----------------------------
(***************************************************************************)
(* The credential store: the authentication state kept by AuthProvider     *)
(* (src/client/src/contexts/AuthContext.tsx) together with the token that  *)
(* ApiClient keeps in localStorage (src/client/src/lib/api-client.ts).      *)
(*                                                                         *)
(* Two copies of the token exist: `token` is the React state read by the   *)
(* WebSocket provider, `stored` is localStorage["authToken"], read by      *)
(* apiClient.createWebSocket() when it builds the connection URL.  They    *)
(* agree after login and refresh, and can disagree after a logout whose    *)
(* API call failed.  The await of each REST call is collapsed into one     *)
(* step: the WebSocket provider reads only isAuthenticated and token, so   *)
(* the intermediate loading/error states are invisible to it.  The         *)
(* development-mode branches (NODE_ENV = development) are not modelled.    *)
(***************************************************************************)
EXTENDS Naturals

CONSTANTS
  Tokens,        \* session tokens the backend can issue (model values)
  NoToken,       \* null / absent token
  MaxAuthSteps   \* bound on logins, logouts, refreshes and reloads

ASSUME NoToken \notin Tokens
ASSUME MaxAuthSteps \in Nat

VARIABLES
  isAuthenticated,  \* authState.isAuthenticated
  token,            \* authState.token
  loading,          \* authState.loading
  stored,           \* localStorage["authToken"]
  authSteps         \* environment steps taken so far (bound only)

authVars == <<isAuthenticated, token, loading, stored, authSteps>>

MaybeToken == Tokens \cup {NoToken}

AuthTypeOK ==
  /\ isAuthenticated \in BOOLEAN
  /\ token \in MaybeToken
  /\ loading \in BOOLEAN
  /\ stored \in MaybeToken
  /\ authSteps \in 0..MaxAuthSteps

-----------------------------------------------------------------------------
(* ApiClient's token storage (src/client/src/lib/api-client.ts).          *)

\* getAuthToken(): localStorage.getItem('authToken').
GetAuthToken == stored

\* setAuthToken(token) / removeAuthToken(): localStorage writes (the
\* stored user is left out).
SetAuthToken(t) == stored' = t
RemoveAuthToken == stored' = NoToken

\* isAuthenticated(): !!this.getAuthToken().
ApiIsAuthenticated == GetAuthToken # NoToken

\* createWebSocket(): the token in the URL is getAuthToken() at that moment.
CreateWebSocketUrl == GetAuthToken

\* Seeded bug variant of ApiLogin: the token is not persisted.
ApiLoginUnsaved(t) == UNCHANGED stored

\* login(credentials) succeeding: the token is stored.
ApiLogin(t) == SetAuthToken(t)

\* logout(): the POST is awaited before removeAuthToken(), so a POST that
\* throws leaves the token stored.
ApiLogout(apiOk) == IF apiOk THEN RemoveAuthToken ELSE UNCHANGED stored

\* refreshToken() succeeding: the new token is stored.
ApiRefresh(t) == SetAuthToken(t)

-----------------------------------------------------------------------------
(* AuthProvider (src/client/src/contexts/AuthContext.tsx).                  *)

\* A page load: React state starts empty and loading; localStorage survives.
AuthInit ==
  /\ isAuthenticated = FALSE
  /\ token = NoToken
  /\ loading = TRUE
  /\ stored \in MaybeToken
  /\ authSteps = 0

\* The state a full page navigation leaves React in (localStorage kept).
AuthReset ==
  /\ isAuthenticated' = FALSE
  /\ token' = NoToken
  /\ loading' = TRUE

\* checkAuth() in AuthProvider's mount effect: authenticated iff a token
\* is in localStorage (apiClient.isAuthenticated()).
CheckAuth ==
  /\ loading
  /\ isAuthenticated' = ApiIsAuthenticated
  /\ token' = GetAuthToken
  /\ loading' = FALSE
  /\ UNCHANGED <<stored, authSteps>>

\* login() succeeding: apiClient.login stores the token, then the context
\* sets the authenticated state.  A failed login only sets `error`.  The
\* login form is shown to unauthenticated users once checkAuth has run.
Login(t) ==
  /\ authSteps < MaxAuthSteps
  /\ ~loading
  /\ ~isAuthenticated
  /\ ApiLogin(t)
  /\ isAuthenticated' = TRUE
  /\ token' = t
  /\ authSteps' = authSteps + 1
  /\ UNCHANGED loading

\* logout() from the dashboard layout.  apiClient.logout() awaits the POST
\* before removeAuthToken(); if the POST throws (apiOk = FALSE) the catch in
\* AuthContext swallows the error and localStorage keeps the token, but the
\* React state is cleared either way.
Logout(apiOk) ==
  /\ authSteps < MaxAuthSteps
  /\ isAuthenticated
  /\ ApiLogout(apiOk)
  /\ isAuthenticated' = FALSE
  /\ token' = NoToken
  /\ authSteps' = authSteps + 1
  /\ UNCHANGED loading

\* refreshToken() succeeding: a new token in localStorage and in the state.
RefreshToken(t) ==
  /\ authSteps < MaxAuthSteps
  /\ isAuthenticated
  /\ ApiRefresh(t)
  /\ token' = t
  /\ authSteps' = authSteps + 1
  /\ UNCHANGED <<isAuthenticated, loading>>

=============================================================================
