----------------------------- MODULE SettingsPage -----------------------------
(***************************************************************************)
(* The settings page (src/client/src/app/dashboard/settings/page.tsx) in   *)
(* the document that AuthProvider starts.  SettingsPage calls useAuth()    *)
(* and seeds its profile form with useState({firstName: user?.firstName || *)
(* '', ...}); the initializer runs once, at the page's first render.  The  *)
(* page renders DashboardLayout itself, so it mounts before ProtectedRoute *)
(* decides: while AuthProvider is still loading.  The only ways onto the   *)
(* page are the Sidebar's <a href> and the address bar, both full page     *)
(* loads.                                                                  *)
(*                                                                         *)
(* authState.user is set with the token: checkAuth reads                   *)
(* apiClient.getCurrentUser(), the user login stored beside the token, and *)
(* removeAuthToken() removes both; so the user is identified by the token *)
(* it was stored with.  The saves only console.log, so they change no      *)
(* state.                                                                  *)
(***************************************************************************)
EXTENDS AuthSession, SequencesExt

CONSTANTS
  MaxCallsInputs   \* digit strings the maxCalls number input can hold

VARIABLES
  activeTab,       \* useState('profile')
  profile,         \* profileData: per field, the user it shows, "" or "typed"
  maxCalls         \* systemSettings.maxCalls

settingsVars == <<authVars, activeTab, profile, maxCalls>>

Tabs == {"profile", "system", "security", "notifications"}

ProfileFields == {"firstName", "lastName", "email", "username"}

NaN == "NaN"

\* authState.user: the user stored with the session's token, or null.
SessionUser == IF isAuthenticated THEN token ELSE NoToken

\* The useState initializer: each field from `user?.x || ''`.
ProfileFrom(u) == [f \in ProfileFields |-> IF u = NoToken THEN "" ELSE u]

\* parseInt(s) for what a type=number input yields, a string of digits
\* (a sequence of one-character strings): its value, NaN when empty (the
\* field cleared).
DigitOf(c) == CHOOSE d \in 0..9 : <<"0","1","2","3","4","5","6","7","8","9">>[d + 1] = c
ParseInt(s) ==
  IF s = <<>> THEN NaN ELSE FoldLeft(LAMBDA acc, c : acc * 10 + DigitOf(c), 0, s)

SettingsTypeOK ==
  /\ AuthTypeOK
  /\ activeTab \in Tabs
  /\ profile \in [ProfileFields -> Tokens \cup {"", "typed"}]
  /\ maxCalls \in Nat \cup {NaN}

\* The document loads on /dashboard/settings: AuthProvider's state is
\* loading with no user, and the page's first render seeds the form from
\* that user.
SettingsInit ==
  /\ AuthInit
  /\ activeTab = "profile"
  /\ profile = ProfileFrom(SessionUser)
  /\ maxCalls = 1000

\* A reload or a Sidebar click on Settings: the same, localStorage kept.
SettingsReload ==
  /\ authSteps < MaxAuthSteps
  /\ AuthReset
  /\ authSteps' = authSteps + 1
  /\ activeTab' = "profile"
  /\ profile' = ProfileFrom(NoToken)
  /\ maxCalls' = 1000
  /\ UNCHANGED stored

\* checkAuth in AuthProvider's mount effect; the page keeps its state.
SettingsCheckAuth == CheckAuth /\ UNCHANGED <<activeTab, profile, maxCalls>>

\* What ProtectedRoute renders the page's content for.
SettingsShown == ~loading /\ isAuthenticated

\* A tab button: setActiveTab(tab.id).
SelectTab(t) ==
  /\ SettingsShown
  /\ activeTab' = t
  /\ UNCHANGED <<authVars, profile, maxCalls>>

\* onChange of First Name, Last Name or Email; Username is disabled.
EditProfile(f) ==
  /\ SettingsShown /\ activeTab = "profile"
  /\ f # "username"
  /\ profile' = [profile EXCEPT ![f] = "typed"]
  /\ UNCHANGED <<authVars, activeTab, maxCalls>>

\* onChange of Max Concurrent Calls: parseInt(e.target.value).
EditMaxCalls(s) ==
  /\ SettingsShown /\ activeTab = "system"
  /\ maxCalls' = ParseInt(s)
  /\ UNCHANGED <<authVars, activeTab, profile>>

SettingsNext ==
  \/ SettingsReload
  \/ SettingsCheckAuth
  \/ \E t \in Tabs : SelectTab(t)
  \/ \E f \in ProfileFields : EditProfile(f)
  \/ \E s \in MaxCallsInputs : EditMaxCalls(s)

SettingsSpec == SettingsInit /\ [][SettingsNext]_settingsVars

-----------------------------------------------------------------------------
(* Properties.                                                             *)

\* The profile tab shows the signed-in user: once the page is on screen,
\* the Username field (disabled, so never typed into) holds the username
\* of the session's user.
ProfileShowsSessionUser ==
  SettingsShown => profile["username"] = SessionUser

=============================================================================
