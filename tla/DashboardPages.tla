---------------------------- MODULE DashboardPages ----------------------------
(***************************************************************************)
(* Three dashboard pages of one browser tab, the CDR page, the live calls  *)
(* page and the extensions page, joined by the Sidebar of DashboardLayout  *)
(* (src/client/src/components/DashboardLayout.tsx).  The Sidebar's links  *)
(* are plain <a href> elements, not next/link, so a click is a full page  *)
(* load: the document, with SWR's cache, every React state, every timer   *)
(* and every request of the page left, is discarded, and the page clicked *)
(* mounts fresh.  The servers keep their data; a request aborted by the   *)
(* unload may or may not have reached its server.  A click on the current *)
(* page's link reloads it.  A modal of the extensions page covers the     *)
(* Sidebar (fixed inset-0 z-50), but Cancel closes it without waiting for  *)
(* the request.                                                           *)
(***************************************************************************)
EXTENDS CdrPage, CallsPage

CONSTANTS
  MaxNavigations,  \* bound on Sidebar clicks
  Ids, NoItem, MaxOps, ListKey, HookKeys   \* of the extensions page

ASSUME MaxNavigations \in Nat

VARIABLES
  at,     \* the page on screen
  navs,   \* Sidebar clicks so far (bound only)
  extSrv, extCache, pending, createOpen, editing, createReq, updateReq,
  deleteReq, isCreating, isUpdating, isDeleting, createError, updateError,
  deleteError, ops   \* the extensions page (CrudPage's srv and cache renamed)

\* The extensions page and its server; its srv and cache are renamed apart
\* from the calls page's srv and the CDR page's cache.
Ext == INSTANCE ExtensionsPage WITH srv <- extSrv, cache <- extCache

extVars == <<extSrv, extCache, pending, createOpen, editing, createReq,
             updateReq, deleteReq, isCreating, isUpdating, isDeleting,
             createError, updateError, deleteError, ops>>

PagesList == {"cdr", "calls", "extensions"}

pagesVars == <<at, navs, cdrVars, callsVars, serverVars, extVars>>

PagesTypeOK ==
  /\ at \in PagesList
  /\ navs \in 0..MaxNavigations
  /\ CdrTypeOK
  /\ CallsTypeOK
  /\ Ext!PageTypeOK

\* The tab opens on any of the pages.
PagesInit ==
  /\ at \in PagesList /\ navs = 0
  /\ CdrInit /\ CallsInit /\ Ext!ExtPageInit

\* A click on the Sidebar link of page p: the new document mounts p, with
\* every page's client state as at mount.
SidebarNavigate(p) ==
  /\ navs < MaxNavigations
  /\ at' = p
  /\ navs' = navs + 1
  /\ filters' = [k \in ToSet(FilterFields) |-> ""]   \* CdrInit, primed
  /\ page' = 1
  /\ cache' = <<>>
  /\ inflight' = {}
  /\ mounted' = ""
  /\ edits' = 0
  /\ data' = [k \in Keys |-> NoData]                   \* CallsMount, primed
  /\ fetch' = [k \in Keys |-> "pending"]
  /\ poll' = [k \in Keys |-> "armed"]
  /\ Ext!ExtPageRemount
  /\ UNCHANGED serverVars

\* A step of the page on screen; the other pages' state is not in the
\* document.
CdrStep ==
  /\ at = "cdr" /\ CdrNext
  /\ UNCHANGED <<at, navs, callsVars, serverVars, extVars>>

CallsStep ==
  /\ at = "calls"
  /\ \E k \in Keys : \/ PollFire(k)
                     \/ CallsRespond(k)
                     \/ DedupeExpire(k)
                     \/ CallsFocus(k)
  /\ UNCHANGED <<at, navs, cdrVars, extVars>>

ExtStep ==
  /\ at = "extensions" /\ Ext!ExtNext
  /\ UNCHANGED <<at, navs, cdrVars, callsVars, serverVars>>

\* The PBX's lists change whichever page is open.
ServerStep ==
  \E k \in Keys : ServerChange(k) /\ UNCHANGED <<at, navs, cdrVars, extVars>>

PagesNext ==
  \/ \E p \in PagesList : SidebarNavigate(p)
  \/ CdrStep
  \/ CallsStep
  \/ ExtStep
  \/ ServerStep

\* On the page on screen, the event loop runs the effects, SWR's timers and
\* revalidations and the responses (axios gives up after 10 s); the user's
\* edits, clicks and focus are not forced.
PagesFairness ==
  /\ WF_pagesVars(at = "cdr" /\ SwrMount
                  /\ UNCHANGED <<at, navs, callsVars, serverVars, extVars>>)
  /\ WF_pagesVars(at = "cdr" /\ \E q \in inflight : FetchReturns(q)
                  /\ UNCHANGED <<at, navs, callsVars, serverVars, extVars>>)
  /\ \A k \in Keys :
       /\ WF_pagesVars(at = "calls" /\ PollFire(k) /\ UNCHANGED <<at, navs, cdrVars, extVars>>)
       /\ WF_pagesVars(at = "calls" /\ CallsRespond(k) /\ UNCHANGED <<at, navs, cdrVars, extVars>>)
       /\ WF_pagesVars(at = "calls" /\ DedupeExpire(k) /\ UNCHANGED <<at, navs, cdrVars, extVars>>)
  /\ WF_pagesVars(at = "extensions" /\ \E o \in Ext!Outcomes : Ext!CreateExtensionReturns(o)
                  /\ UNCHANGED <<at, navs, cdrVars, callsVars, serverVars>>)
  /\ WF_pagesVars(at = "extensions" /\ \E o \in Ext!Outcomes : Ext!UpdateExtensionReturns(o)
                  /\ UNCHANGED <<at, navs, cdrVars, callsVars, serverVars>>)
  /\ WF_pagesVars(at = "extensions" /\ \E o \in Ext!Outcomes : Ext!DeleteExtensionReturns(o)
                  /\ UNCHANGED <<at, navs, cdrVars, callsVars, serverVars>>)
  /\ WF_pagesVars(at = "extensions" /\ Ext!Revalidate
                  /\ UNCHANGED <<at, navs, cdrVars, callsVars, serverVars>>)

PagesSpec == PagesInit /\ [][PagesNext]_pagesVars /\ PagesFairness

-----------------------------------------------------------------------------
(* Properties.                                                             *)

\* Once the user stops typing and clicking, a CDR page on screen comes to
\* show the first page of the records matching its filters, and keeps
\* showing it (useSWR's mount revalidation of each new key, and responses
\* stored under the key that fetched them).
CdrTableEventuallyCurrent ==
  <>[](at = "cdr" => Shown = PageRows(filters, page))

\* Once the PBX's calls and channels stop changing, a calls page on screen
\* comes to show the server's current lists in both tables and keeps
\* showing them, with no user action: the 1 s refreshInterval of
\* useActiveCalls and useActiveChannels, through SWR's dedupe window.
CallsTablesEventuallyCurrent ==
  <>[](at = "calls" => \A k \in Keys : data[k] = srv[k])

\* Once the user stops, an extensions page on screen shows what the server
\* holds, unless one of the hooks still holds the error of a failed
\* request: every successful create, update and delete is followed by the
\* page's mutate() of the list key, and every page load fetches the list
\* again after the requests it aborted did or did not reach the server.  A
\* request whose reply is lost (a network error, the 10 s timeout) may have
\* been applied, and then only an error marks the list as stale.
ExtListFreshOrFailed ==
  <>[](at = "extensions" =>
         \/ extCache.loaded /\ extCache.snap = extSrv
         \/ createError \/ updateError \/ deleteError)

=============================================================================
