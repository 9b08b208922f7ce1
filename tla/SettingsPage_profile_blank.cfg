\* The settings page loaded with a session in localStorage: checkAuth runs
\* after the page's first render has seeded the profile form.
CONSTANTS
  t1 = t1
  t2 = t2
  Tokens <- MCTokens
  NoToken = NoToken
  MaxAuthSteps = 1
  MaxCallsInputs <- MCMaxCallsInputs
SPECIFICATION SettingsSpec
INVARIANT ProfileShowsSessionUser
