------------------------------ MODULE CallsPage ------------------------------
(***************************************************************************)
(* The live calls page (src/client/src/app/dashboard/calls/page.tsx) with  *)
(* useActiveCalls and useActiveChannels of src/client/src/hooks/index.ts.  *)
(*                                                                         *)
(* Each hook mounts one constant SWR key ('active-calls',                  *)
(* 'active-channels') with refreshInterval 1000 and SWR's defaults         *)
(* (dedupingInterval 2 s, revalidate on mount and on focus).  With dedupe, *)
(* a revalidation of a key joins the fetch of that key still recorded     *)
(* (from its start until dedupingInterval after its response) instead of  *)
(* starting one; so a key has at most one fetch at a time.  The refresh   *)
(* timer is armed at mount and re-armed when the revalidation it started  *)
(* settles.  The page does not use the WebSocket data: the tables show    *)
(* only what these polls return.                                          *)
(*                                                                         *)
(* The data is abstracted to the version of the server's list it is: the  *)
(* server's list of a key changes (a call starts or ends) MaxChanges      *)
(* times in all.  A failed fetch is left out: the page renders the        *)
(* returned Error object as a child, which React rejects (see README).    *)
(***************************************************************************)
EXTENDS Naturals, Functions

CONSTANTS
  Keys,        \* the SWR keys of the page
  MaxChanges,  \* bound on changes of the server's lists, over all keys
  NoData       \* the cache entry of a key never fetched

ASSUME MaxChanges \in Nat /\ NoData \notin Nat

VARIABLES
  srv,      \* the version of each key's list on the server
  data,     \* SWR cache: the version each key's entry holds, or NoData
  fetch,    \* per key: "idle", "pending" (request out) or "recorded"
            \* (response in, still within dedupingInterval)
  poll      \* per key: the refresh timer "armed" or "waiting" on a fetch

callsVars == <<data, fetch, poll>>
serverVars == <<srv>>

Versions == 0..MaxChanges

\* Changes of the server's lists so far.
Changes == SumFunction(srv)

CallsTypeOK ==
  /\ srv \in [Keys -> Versions]
  /\ data \in [Keys -> Versions \cup {NoData}]
  /\ fetch \in [Keys -> {"idle", "pending", "recorded"}]
  /\ poll \in [Keys -> {"armed", "waiting"}]

\* The page mounts: nothing cached; each useSWR revalidates its key on
\* mount and its refresh timer is armed.
CallsMount ==
  /\ data = [k \in Keys |-> NoData]
  /\ fetch = [k \in Keys |-> "pending"]
  /\ poll = [k \in Keys |-> "armed"]

CallsInit == srv = [k \in Keys |-> 0] /\ CallsMount

-----------------------------------------------------------------------------
(* Actions.                                                                *)

\* Seeded bug variant of PollFire: the hooks without refreshInterval, so
\* the timer never fires.
PollFireNoInterval(k) == FALSE /\ UNCHANGED <<srv, callsVars>>

\* The refresh timer fires (the tab visible, online, no error cached):
\* revalidate with dedupe, i.e. start a fetch unless one is recorded, and
\* wait for it.  A recorded fetch resolves at once and re-arms the timer,
\* which changes nothing.
PollFire(k) ==
  /\ poll[k] = "armed"
  /\ fetch[k] # "recorded"
  /\ fetch' = [fetch EXCEPT ![k] = "pending"]
  /\ poll' = [poll EXCEPT ![k] = "waiting"]
  /\ UNCHANGED <<srv, data>>

\* Seeded bug variant of CallsRespond: the refresh timer not re-armed when
\* the fetch it waits on settles.
CallsRespondNoRearm(k) ==
  /\ fetch[k] = "pending"
  /\ data' = [data EXCEPT ![k] = srv[k]]
  /\ fetch' = [fetch EXCEPT ![k] = "recorded"]
  /\ UNCHANGED <<srv, poll>>

\* The fetcher's GET returns the server's list: SWR caches it, keeps the
\* fetch recorded for dedupingInterval, and the timer waiting on it is
\* armed again.
CallsRespond(k) ==
  /\ fetch[k] = "pending"
  /\ data' = [data EXCEPT ![k] = srv[k]]
  /\ fetch' = [fetch EXCEPT ![k] = "recorded"]
  /\ poll' = [poll EXCEPT ![k] = "armed"]
  /\ UNCHANGED srv

\* dedupingInterval after the response, SWR forgets the fetch.
DedupeExpire(k) ==
  /\ fetch[k] = "recorded"
  /\ fetch' = [fetch EXCEPT ![k] = "idle"]
  /\ UNCHANGED <<srv, data, poll>>

\* Focus revalidation (the user returns to the tab): a fetch unless one is
\* recorded or out; the timer is not involved.
CallsFocus(k) ==
  /\ fetch[k] = "idle"
  /\ fetch' = [fetch EXCEPT ![k] = "pending"]
  /\ UNCHANGED <<srv, data, poll>>

\* A call or channel starts or ends on the PBX.
ServerChange(k) ==
  /\ Changes < MaxChanges
  /\ srv' = [srv EXCEPT ![k] = @ + 1]
  /\ UNCHANGED callsVars

CallsNext ==
  \E k \in Keys :
    \/ PollFire(k)
    \/ CallsRespond(k)
    \/ DedupeExpire(k)
    \/ CallsFocus(k)
    \/ ServerChange(k)

=============================================================================
