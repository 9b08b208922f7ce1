# TLA+ models of the aether-link dashboard client

This directory holds model-checked TLA+ specifications of the operator
dashboard in `src/client/src`. The centre of it is `WebSocketProvider`
(`contexts/WebSocketContext.tsx`). It opens the monitoring WebSocket for the
authenticated session, reconnects after drops, and reconciles pushed events
into the calls, channels, metrics, stats and notifications that pages read.
Around it sit:
- the credential store (`AuthContext.tsx`, `lib/api-client.ts`);
- a second connection owner, `useWebSocket` (`hooks/index.ts`);
- the route guard and layout (`components/`);
- the REST pages, which use SWR hooks.

## 1. Inventory

| Component | Source | State | Operations |
|---|---|---|---|
| Credential store | `AuthContext.tsx`, `api-client.ts` | `authState`; localStorage `authToken` | `checkAuth`, `login`, `logout`, `refreshToken`; `getAuthToken`, `setAuthToken`, `removeAuthToken`, `createWebSocket`; the 401 interceptor (removes the token and loads `/login`) |
| Connector and reconnection supervisor | `WebSocketContext.tsx` 45-103, 198-230 | `socket`, `connected`, the browser sockets, pending 5 s timers | `connect`, `disconnect`, `onopen`, `onclose`, `onerror`, the reconnect timer, the `[isAuthenticated, token]` effect and its cleanup |
| Message dispatcher and scalar holder | `WebSocketContext.tsx` 65-72, 105-128, 176-182 | `systemMetrics`, `dashboardStats` | parse a frame, route it by `type`, `handleInitialData` |
| Entity reconciler | `handleCallUpdate`, `handleChannelUpdate` | `activeCalls`, `activeChannels` | replace with a full list, or upsert/remove one entry |
| Notification buffer | `handleNotification`, `clearNotifications`, `markNotificationRead` | `notifications` | prepend with a cap of 50, clear, mark read |
| `useWebSocket` hook | `hooks/index.ts` 445-492 | its own `socket`, `connected` | a second owner with its own effect and timer |
| Route guard and layout | `ProtectedRoute.tsx`, `DashboardLayout.tsx` | the route | redirect decision, logout then navigate |
| REST hooks and pages | `hooks/index.ts`, `app/dashboard/*/page.tsx` | SWR caches, busy flags, modal/form state, CDR filters, refresh timers | fetch, create, update, delete, revalidation, filter edits, polling |
| Sidebar | `DashboardLayout.tsx` 22-31, 123-151 | none (the document) | an `<a href>` click: a full page load of another page |

**How the components interact.**
- `AuthProvider` holds the session.
- `WebSocketProvider` reads `isAuthenticated` and `token` through
  `useAuth()`. Its effect connects when both are set and disconnects
  otherwise.
- `createWebSocket()` does not take the token from React state. It reads it
  from localStorage again.
- Socket callbacks write React state through setters, and the pages read it.
- Every page renders inside `DashboardLayout`, which wraps it in
  `ProtectedRoute`.
- The REST pages do not use the socket. They fetch through SWR. The calls
  page too: its tables come from two SWR keys polled every second, not from
  the provider's `activeCalls`.
- The Sidebar's links are `<a href>`, not `next/link`. A click loads a new
  document: SWR's cache, React state, sockets and timers start over.

**What is hard to get right.**
- *Closures pin the session.* The `onclose` timer calls the `connect` of the
  render that opened the socket. In that closure `isAuthenticated` is true.
- *`socket` is set only in `onopen`.* So `disconnect()` cannot cancel a
  socket that is still connecting.
- *State updaters run later.* An updater passed to a setter runs during the
  next render, outside `onmessage`'s try/catch.
- *A failed logout splits the token.* When the POST fails, localStorage keeps
  the token while the React state is cleared.
- *Responses arrive out of order.* Responses to SWR keys come back in any
  order. An `await` in a page handler resumes with the closure of an older
  render.

## 2. Modules

| Module | Models | State and actions ↔ code |
|---|---|---|
| `AuthSession` | credential store | `isAuthenticated`, `token`, `loading` = `authState`; `stored` = localStorage. ApiClient operators: `GetAuthToken`, `SetAuthToken`, `RemoveAuthToken`, `ApiIsAuthenticated`, `CreateWebSocketUrl`, `ApiLogin`, `ApiLogout(apiOk)`, `ApiRefresh`. AuthProvider actions: `CheckAuth`, `Login`, `Logout(apiOk)`, `RefreshToken`. |
| `WebSocketConnection` (EXTENDS `AuthSession`) | connector and supervisor | `ws[i]` = browser socket `i`: readyState, URL token, and the `(isAuthenticated, token)` of the `connect` closure. `socket`, `connected`, `timers`, `effDeps`, `cleanupSocket`, `unloading` (the 401 interceptor has assigned `window.location.href`, the page is not yet replaced). Actions `AuthEffect`, `Open`, `Drop`, `Closed`, `ReconnectTimer`, `ConsumerConnect`/`ConsumerDisconnect`, `Redirect401` (`removeAuthToken()` and the start of the navigation), `PageLoad(toLogin)` (the new document: `/login` after a 401, or a reload), `AuthStep`. |
| `DashboardRoute` (EXTENDS `WebSocketConnection`) | route guard, layout | `route`. Actions `GuardEffect` (ProtectedRoute's effect), `LoginPageLogin`, `HandleLogout` (the layout: logout, then `/login`), `Redirect401`, `RoutePageLoad` (the landing on `/login`, or a reload). `DashboardShown` = what ProtectedRoute renders. |
| `EntityReconciler` | `handleCallUpdate` / `handleChannelUpdate` | `coll` = the array; `ApplyDelta` = the updater. It refines `LiveEntitySet` (spec §4.3) through `LiveView`. |
| `NotificationBuffer` | notification operators | `Prepend` (push with cap), `MarkRead`, and the spec's push `SpecPush`. |
| `RealtimeSync` (EXTENDS `WebSocketConnection`) | dispatcher, scalar holder, composition | Collections, scalars and notifications. Frames are published by the backend and delivered to open sockets. `Receive` = `onmessage` → `HandleWebSocketMessage`; a state updater that throws is a crash (`crashed`). `ClearNotifications` and `MarkNotificationRead` are the exposed API. |
| `UseWebSocketHook` (EXTENDS `AuthSession`) | `useWebSocket` | `hws`, `hSocket`, `hConnected`, `hTimers`, `hDeps`. Actions `HookEffect`, `HookOpen`, `HookDrop`, `HookClosed`, `HookTimer`, `HookPageLoad`. |
| `CrudPage`, `UsersPage`, `ExtensionsPage` | users/extensions pages and their hooks | `srv` = backend rows, `cache` = SWR list entry, `pending` = revalidation owed, modal state, the hooks' busy flags and errors. A request is split into its submit (flag set) and its return (the `finally`, the page's continuation, `mutate`). A return has an outcome in `Outcomes`: `ok`, `rejected` (server unchanged) or `lost` (network error or the 10 s timeout; `ServerAfter` lets the server have applied it or not). |
| `CdrPage` | CDR page and `useCDRs` | `filters`, `page`, SWR `cache` per key, `inflight` fetches, `mounted` key. Actions `HandleFilterChange`, `SwrMount`, `FetchReturns`, `Focus`. `FormatDuration` is a text operator (`RECURSIVE Decimal`). |
| `CallsPage` | calls page, `useActiveCalls`, `useActiveChannels` | per key: `srv` = the server's list (as a version), `data` = SWR cache, `fetch` = idle / pending / recorded (the dedupe window), `poll` = the refresh timer armed or waiting. Actions `PollFire`, `CallsRespond`, `DedupeExpire`, `CallsFocus`, and the backend's `ServerChange`. |
| `DashboardPages` (EXTENDS `CdrPage`, `CallsPage`; `Ext == INSTANCE ExtensionsPage`) | Sidebar, pages composed | `at` = the page on screen. `SidebarNavigate(p)` mounts `p` afresh: the CDR and calls pages' client state at mount, and the extensions page's `ExtPageRemount` (= `CrudPage!PageRemount`). A page load aborts requests in flight; `UnloadOutcomes` is every server state the aborted create, update and delete may have left. `CdrStep`/`CallsStep`/`ExtStep` are steps of the page on screen; `ServerStep` runs on any. |
| `SettingsPage` (EXTENDS `AuthSession`) | settings page | `activeTab`, `profile` (the `profileData` form), `maxCalls`. `SettingsInit` seeds the form from `SessionUser` at the first render, while AuthProvider is loading; `SettingsCheckAuth`, `SelectTab`, `EditProfile`, `EditMaxCalls` (`ParseInt` = `parseInt`, `""` → NaN), `SettingsReload`. The saves only log and are no actions. |
| `MC_*` | model-checking instances | model values for tokens and ids, frame tables, CDR records |

**Modelling choices.**
- *Abstracted data.* Entities keep their id and lifecycle field. A
  notification keeps its id and `read` flag. A CDR keeps its id, source,
  destination and duration.
- *Sockets.* A socket has the browser's four readyStates. `onerror` and
  `onclose` of a failing socket fire in one task, so they are one step.
- *Effects.* React flushes a commit's passive effects before it renders the
  next update. So a session change waits for the effect to have seen the
  previous one (`EffectSettled`).
- *Consumer calls.* `connect`/`disconnect`/`refreshToken`, the notification
  API and the hook have no caller in `src/`. They are exposed API. Only
  `ConsumerCalls`, `MaxCalls` and `MaxNotifCalls` allow them.
- *Backend assumptions, marked `spec_modelled` in the map.*
  - The backend accepts only tokened sockets.
  - A full list has unique live entries.
  - `/cdr` answers with the first `limit` records that match source and
    destination.
  - The login page (not under `src/`) navigates to `/dashboard` on success.

## 3. Runs

| Run | Expect | What it shows |
|---|---|---|
| `ws_safety` | pass | It covers logins, logouts, refreshes, reloads, a drop, one consumer call and failing socket creation. `connected` and `socket` never point at anything but an open socket (`ConnectionIndicatorSound`). |
| `session_live` | pass | This is `DashboardRoute`: the connection plus the route. It checks three properties. While the session lasts, the provider gets connected again (`ReconnectsWhileAuthenticated`). A load of a dashboard page with a stored token comes to show the page unless the session changes first, because the guard waits for `checkAuth` (`ReloadShowsDashboard`). Whenever a dashboard page shows, the React token equals the token in localStorage, which is the one the socket URL uses (`DashboardTokenMatchesStorage`). The one exception is the 401 window: between `removeAuthToken()` and the load of `/login` the page stays shown with the two apart, and TLC reaches that state. |
| `ws_reconnect_after_logout` | violation | `ConnectOnlyWithSession`: logout, then a drop, then the stale timer opens a socket. |
| `calls_reconcile` | pass | The calls array keeps unique ids and refines the keyed live-entity set (`RefinesLiveEntitySet`). |
| `sync_safety` | pass | It covers 4.1 M states of the composed provider: every frame type, malformed and null payloads, two sessions, a drop, a 401 redirect and a notification API call. It checks `EntityIdsUnique` and `NotifPushMatchesSpec`. |
| `sync_null_payload_crash` | violation | `ProtocolFaultsContained`: a `call_update` with `data: null` throws inside the updater, after the try/catch. |
| `sync_previous_session_data` | violation | `SessionDataIsolated`, an action property: every frame `onmessage` handles in a session comes over a socket opened with that session's token. The 10-state trace: socket 1 is created for t1; logout happens while it is connecting, and `disconnect()` cannot see it; login as t2; socket 1 opens and delivers a frame into the t2 session. |
| `sync_initial_overflow` | violation | `NotificationsWithinCap`: `initial_data` stores its notifications without the cap. |
| `hook_no_reconnect` | violation | `HookReconnects`: the hook's timer only nulls `socket`, which is not an effect dependency. |
| `users_edit_modal_closed` | violation | `EditModalClosedByItsOwnSave`: a save that returns after Cancel and Edit of another user closes that other user's modal. |
| `pages_live` | pass | `DashboardPages`: the CDR, calls and extensions pages, two Sidebar clicks, 350 k states. Out-of-order CDR responses never show rows of other filters (`ShownMatchesFilters`). Durations read back exactly (`DurationDisplayExact`). A CDR page on screen settles on its filters (`CdrTableEventuallyCurrent`). Once the PBX stops changing, a calls page on screen comes to show the server's lists with no user action (`CallsTablesEventuallyCurrent`); without `refreshInterval`, or with the timer not re-armed, it does not. Once the user stops, the extensions list shows the server's items unless a hook holds the error of a failed request (`ExtListFreshOrFailed`). This covers successful writes, replies lost after the server applied a write, and writes a page load abandoned. Without the page's own `mutate()` the property fails. |

Every property of a passing run has a seeded mutant in `PROJECT.json`. Each
mutant is a plausible bug in the mapped code, and TLC finds the property
violated under the run's own configuration.

**Why the bounds are enough.**
- *Connection and route.*
  - Two tokens tell a new session from an old one.
  - The violations need at most two logins, one logout and one drop.
  - `session_live` has 3 session steps and 2 drops. `MaxSockets = 9` is
    never reached.
- *Reconciler.* Three ids let a delta hit the first, a middle and the last
  entry.
- *Sync.* `Cap = 2` stands for 50: `slice(0, Cap - 1)` keeps one entry. Frame
  tables hold each frame type once, with `initial_data` variants that leave
  fields out.
- *CRUD.* Two ids and three operations reach a write overtaking a Cancel and
  an Edit.
- *CDR.*
  - Two editable filters and three values. Three records: two share a source
    and two share a destination.
  - `Limit = 2`, so a page is cut.
  - Three edits make three keys with responses in any order.
  - Durations are 59, 3600 and 3661 s, the boundaries of `formatDuration`.
- *Calls and Sidebar.* Two keys, two server changes in all (so a change
  can land before, during and after a fetch of either key, on either page),
  two Sidebar clicks (leave a page and come back, or reload it). On the
  extensions page two ids and `MaxOps = 2` let a create or update be in
  flight when the Sidebar unloads the page, and let a lost write be
  followed by a retry that succeeds or fails.
- *Settings.* Two tokens, one session step (a check, then the user seen);
  maxCalls inputs `""`, `"50"`, `"07"` (NaN, a plain number, a leading
  zero).

**Fairness** (`session_live`, `pages_live`,
`hook_no_reconnect`).
- Weak fairness is assumed for:
  - mounted effects (`CheckAuth`, `AuthEffect`, the guard's effect, SWR's
    mount);
  - `setTimeout`;
  - a close handshake that has started;
  - the backend accepting a tokened socket;
  - a request ending (axios times out after 10 s). A mutation may end ok,
    rejected or lost; a failed GET is not modelled (see *Error rendered as
    a child*);
  - the browser loading the page a navigation asked for (the 401
    redirect's `/login`);
  - on the page on screen, SWR's refresh timer and the end of its dedupe
    window (the tab is assumed visible and online: SWR skips a poll
    otherwise).
- Drops, logins, logouts, 401 responses, reloads, Sidebar clicks, filter edits, focus and
  the PBX's changes are the
  environment's and are not fair.
- `session_live` sets `CreateMayFail = FALSE`. Spec §4.1 accepts that a
  synchronous `connect()` failure is not retried. `ws_safety` lets creation
  fail.

**Findings** (the seven violation runs):
- the stale-closure reconnect after logout;
- the uncontained null payload;
- previous-session data from a socket that was connecting at logout;
- `initial_data` bypassing the cap;
- `useWebSocket` never reconnecting;
- a late save closing another user's edit modal;
- the settings profile form seeded before the user is known, so always
  blank (`settings_profile_blank`, `ProfileShowsSessionUser`).

Observations that the code has and no run checks (the project keeps 12
runs):
- *Duplicate sockets.* A logout during CONNECTING followed by a login leaves
  two live sockets in both owners. This is part of the previous-session
  finding.
- *Ended calls.* A delta for an unknown id that is already `ended` is
  appended. This is an open question of spec §4.3.
- *Dead invalidation.* The hooks' `mutate('users:*')` / `mutate('extensions:*')`
  match no SWR key, because global mutate compares the exact key. Only the
  page's bound `mutate()` refreshes the list.
- *Stale list after a lost reply.* A write whose reply is lost (network
  error, the 10 s axios timeout) may still have been applied. The hook only
  sets its error, and the page calls `mutate()` only on success. So the list
  misses the write until a focus or a page load; TLC finds this six steps
  from the start. `deleteError` is rendered nowhere, and the create and edit
  errors only inside their modals. After a Cancel the stale list shows no
  error at all. `ExtListFreshOrFailed` states what the code does guarantee.
- *Stale error.* An error from a failed create stays in the hook after the
  modal is closed, and the next modal shows it.
- *Error rendered as a child.* `fetcher` throws an `Error`, SWR returns it as
  `error`, and the calls, CDR, users and extensions pages render `{error}`
  (calls: `{callsError || channelsError}`) as a React child. React rejects an
  object child, so one failed request unmounts the page; on the calls page a
  single failed poll of a 1 s interval does. The pages' models leave fetch
  failures out for this reason.

## 4. Plan

1. Done:
   - `AuthSession` with the ApiClient layer;
   - `WebSocketConnection`;
   - `DashboardRoute`;
   - `EntityReconciler` refining `LiveEntitySet`;
   - `NotificationBuffer`;
   - `RealtimeSync`;
   - `UseWebSocketHook`;
   - `CrudPage`/`UsersPage`/`ExtensionsPage`;
   - `CdrPage`;
   - `CallsPage` and `DashboardPages` (the Sidebar's page loads, with the
     extensions page and the requests a page load aborts);
   - `SettingsPage`.
2. Next:
   - the pages' fetch failures, once a run can be given to the Error-child
     crash;
   - a larger `sync_safety` with consumer calls, once state compression
     allows it. With `ConsumerCalls` it exceeds 28 M states.

## 5. Not modelled

- *Rendering.* Rendering, styling, the sidebar's open/close state and colour
  helpers are left out.
- *checkAuth's catch.* It is reached only when localStorage `user` holds
  text that `JSON.parse` rejects. The client writes `user` only with
  `JSON.stringify` and removes it with the token.
- *Development mode.* The `NODE_ENV = development` branches (dev user, dev
  login) are left out.
- *Permissions.* `hasPermission`/`isAdmin` and ProtectedRoute's
  permission/admin branches are unreachable: the layout passes neither.
- *Settings page.* `systemName`, `musicOnHold`, the checkboxes and the
  Security/Notifications tabs are form state nothing reads; the saves only
  `console.log` and change no state. `maxCalls` is kept for its `parseInt`.
- *Calls page rendering.* `formatDuration`, `formatDirection` and the colour
  helpers only format; the CDR page's `formatDuration`, the same code, is
  checked.
- *CSV export.* `exportToCSV` is a download with no state. It quotes fields
  without escaping embedded quotes.
- *CDR paging.* `handlePageChange` is unreachable, because `useCDRs`
  hard-codes `totalPages: 1` (`PagerShown` is never true).
- *Fetch paths.* The SWR fetcher requests `/users`, `/extensions`, `/cdr`
  without the `/api` prefix that `apiClient`'s own methods use. The backend
  is not modelled, so the model cannot tell whether these paths resolve.
- *Unused hooks.* `useLocalStorage`, `useDebounce`, `useTrunks`, `useTrunk`,
  `useSystemStatus`, `useDashboardStats`, `useUser` and `useExtension`
  have no caller in `src/`.
- *Shared types.* `types/index.ts` only declares shapes. Those used are
  reflected in the records of the modules.
