------------------------------ MODULE CrudPage ------------------------------
(***************************************************************************)
(* A CRUD management page with its REST hooks: the users page              *)
(* (src/client/src/app/dashboard/users/page.tsx) with useUsers,             *)
(* useCreateUser, useUpdateUser and useDeleteUser of                        *)
(* src/client/src/hooks/index.ts.  The extensions page and its hooks are    *)
(* the same code with other names and keys (ExtensionsPage instantiates    *)
(* this module).                                                           *)
(*                                                                         *)
(* The server holds a version per item id (0 = absent).  The list is the   *)
(* SWR cache entry of the mounted list key; `pending` is a revalidation     *)
(* SWR has been asked for and not yet completed.  A mutation hook call is  *)
(* split at its await: the submit (setIsX(true), setError(null), request   *)
(* sent) and the return (the server's effect, then mutate(...) or          *)
(* setError, finally setIsX(false), then the page's continuation after     *)
(* `await`, which runs in the same microtask chain).  A modal covers the   *)
(* whole page (fixed inset-0), so while one is open the list's buttons and *)
(* "Add" cannot be clicked.  Form fields and search are left out.          *)
(***************************************************************************)
EXTENDS Naturals, FiniteSets

CONSTANTS
  Ids,         \* item ids the server can hold
  NoItem,      \* null (no item being edited / no request)
  ListKey,     \* the SWR key the list hook mounts, e.g. "users:/users?search="
  HookKeys,    \* keys the mutation hooks pass to the global mutate()
  MaxOps       \* bound on submitted create / update / delete requests

ASSUME NoItem \notin Ids /\ MaxOps \in Nat

VARIABLES
  srv,          \* the server: srv[i] = version of item i, 0 = absent
  cache,        \* SWR cache of ListKey: [loaded, snap]
  pending,      \* a revalidation of ListKey is due
  createOpen,   \* isCreateModalOpen
  editing,      \* editingItem (its id) or NoItem
  createReq,    \* a create request is in flight
  updateReq,    \* id of the update request in flight, or NoItem
  deleteReq,    \* id of the delete request in flight, or NoItem
  isCreating, isUpdating, isDeleting,        \* the hooks' flags
  createError, updateError, deleteError,     \* the hooks' error states
  ops           \* requests submitted so far (bound only)

pageVars == <<srv, cache, pending, createOpen, editing, createReq, updateReq,
              deleteReq, isCreating, isUpdating, isDeleting, createError,
              updateError, deleteError, ops>>

MaxVersion == MaxOps + 1
Snapshot == [Ids -> 0..MaxVersion]

PageTypeOK ==
  /\ srv \in Snapshot
  /\ cache \in [loaded : BOOLEAN, snap : Snapshot]
  /\ pending \in BOOLEAN
  /\ createOpen \in BOOLEAN
  /\ editing \in Ids \cup {NoItem}
  /\ createReq \in BOOLEAN
  /\ updateReq \in Ids \cup {NoItem}
  /\ deleteReq \in Ids \cup {NoItem}
  /\ {isCreating, isUpdating, isDeleting} \subseteq BOOLEAN
  /\ {createError, updateError, deleteError} \subseteq BOOLEAN
  /\ ops \in 0..MaxOps

\* The page mounts: nothing cached, the list key's first fetch due; the
\* server may already hold items.
PageInit ==
  /\ srv \in [Ids -> {0, 1}]
  /\ cache = [loaded |-> FALSE, snap |-> [i \in Ids |-> 0]]
  /\ pending = TRUE
  /\ createOpen = FALSE /\ editing = NoItem
  /\ createReq = FALSE /\ updateReq = NoItem /\ deleteReq = NoItem
  /\ isCreating = FALSE /\ isUpdating = FALSE /\ isDeleting = FALSE
  /\ createError = FALSE /\ updateError = FALSE /\ deleteError = FALSE
  /\ ops = 0

\* Items the list renders (users = data || []), each with Edit and Delete.
Listed == IF cache.loaded THEN {i \in Ids : cache.snap[i] > 0} ELSE {}

NoModal == ~createOpen /\ editing = NoItem

\* Global mutate(key) of SWR: revalidates the cache entry with exactly that
\* key if it is mounted.  A key is a string; it is not a pattern.
MutateKeys(keys) == pending' = (pending \/ ListKey \in keys)

-----------------------------------------------------------------------------
(* The page's handlers and the hooks they call.                            *)

\* "Add" button: setIsCreateModalOpen(true).
OpenCreate ==
  /\ NoModal
  /\ createOpen' = TRUE
  /\ UNCHANGED <<srv, cache, pending, editing, createReq, updateReq, deleteReq,
                 isCreating, isUpdating, isDeleting, createError, updateError,
                 deleteError, ops>>

\* The create modal's Cancel.
CancelCreate ==
  /\ createOpen
  /\ createOpen' = FALSE
  /\ UNCHANGED <<srv, cache, pending, editing, createReq, updateReq, deleteReq,
                 isCreating, isUpdating, isDeleting, createError, updateError,
                 deleteError, ops>>

\* Save in the create modal (disabled while isCreating): handleCreate
\* calls createX, which sets isCreating and clears its error, then awaits.
SubmitCreate ==
  /\ createOpen /\ ~isCreating /\ ops < MaxOps
  /\ createReq' = TRUE /\ isCreating' = TRUE /\ createError' = FALSE
  /\ ops' = ops + 1
  /\ UNCHANGED <<srv, cache, pending, createOpen, editing, updateReq,
                 deleteReq, isUpdating, isDeleting, updateError, deleteError>>

\* How a request ends.  "ok": the server applied it and answered success.
\* "rejected": it answered success false or an HTTP error, and changed
\* nothing.  "lost": a network error or axios's 10 s timeout; the server
\* may or may not have applied it.  request() turns both failures into a
\* thrown Error, which the hook's catch takes.
Outcomes == {"ok", "rejected", "lost"}

\* The server after a request that ends with outcome o, where `applied` is
\* the set of server states the request makes when the server applies it
\* (empty when the server cannot apply it).
ServerAfter(o, applied) ==
  CASE o = "ok"       -> applied
    [] o = "rejected" -> {srv}
    [] o = "lost"     -> {srv} \cup applied

\* A create adds an item under a free id.
Created == {[srv EXCEPT ![i] = 1] : i \in {j \in Ids : srv[j] = 0}}

\* Seeded bug variant of CreateReturns: the page's own mutate() omitted,
\* leaving only the hook's mutate('users:*').
CreateReturnsHookOnly(o) ==
  /\ createReq
  /\ srv' \in ServerAfter(o, Created)
  /\ createReq' = FALSE /\ isCreating' = FALSE
  /\ createError' = (o # "ok")
  /\ IF o = "ok" THEN /\ MutateKeys(HookKeys)
                      /\ createOpen' = FALSE
                 ELSE UNCHANGED <<pending, createOpen>>
  /\ UNCHANGED <<cache, editing, updateReq, deleteReq, isUpdating, isDeleting,
                 updateError, deleteError, ops>>

\* The create request returns with outcome o.  On success the hook calls
\* mutate('users:*') and the page closes the modal and calls the list's
\* bound mutate(); otherwise the hook sets its error and the modal stays
\* open; finally clears the flag.
CreateReturns(o) ==
  /\ createReq
  /\ srv' \in ServerAfter(o, Created)
  /\ createReq' = FALSE /\ isCreating' = FALSE
  /\ createError' = (o # "ok")
  /\ IF o = "ok" THEN /\ MutateKeys(HookKeys \cup {ListKey})
                      /\ createOpen' = FALSE
                 ELSE UNCHANGED <<pending, createOpen>>
  /\ UNCHANGED <<cache, editing, updateReq, deleteReq, isUpdating, isDeleting,
                 updateError, deleteError, ops>>

\* Edit on a listed item: setEditingItem(item).
OpenEdit(i) ==
  /\ NoModal /\ i \in Listed
  /\ editing' = i
  /\ UNCHANGED <<srv, cache, pending, createOpen, createReq, updateReq,
                 deleteReq, isCreating, isUpdating, isDeleting, createError,
                 updateError, deleteError, ops>>

\* The edit modal's Cancel: setEditingItem(null).
CancelEdit ==
  /\ editing # NoItem
  /\ editing' = NoItem
  /\ UNCHANGED <<srv, cache, pending, createOpen, createReq, updateReq,
                 deleteReq, isCreating, isUpdating, isDeleting, createError,
                 updateError, deleteError, ops>>

\* Save in the edit modal (disabled while isUpdating): handleUpdate reads
\* editingItem.id from its render and calls updateX(id, data).
SubmitEdit ==
  /\ editing # NoItem /\ ~isUpdating /\ ops < MaxOps
  /\ updateReq' = editing /\ isUpdating' = TRUE /\ updateError' = FALSE
  /\ ops' = ops + 1
  /\ UNCHANGED <<srv, cache, pending, createOpen, editing, createReq,
                 deleteReq, isCreating, isDeleting, createError, deleteError>>

\* An update bumps the version of an item the server still holds.
Updated(i) == IF srv[i] > 0 THEN {[srv EXCEPT ![i] = @ + 1]} ELSE {}

\* The update request returns with outcome o.  On success the hook calls
\* mutate(`user:${id}`) and mutate('users:*'); the page then sets
\* editingItem to null, whichever item that is now, and calls the list's
\* mutate().
UpdateReturns(o) ==
  /\ updateReq # NoItem
  /\ srv' \in ServerAfter(o, Updated(updateReq))
  /\ updateReq' = NoItem /\ isUpdating' = FALSE
  /\ updateError' = (o # "ok")
  /\ IF o = "ok" THEN /\ MutateKeys(HookKeys \cup {ListKey})
                /\ editing' = NoItem
           ELSE UNCHANGED <<pending, editing>>
  /\ UNCHANGED <<cache, createOpen, createReq, deleteReq, isCreating,
                 isDeleting, createError, deleteError, ops>>

\* Delete on a listed item (disabled while isDeleting), confirmed in the
\* browser's confirm() dialog (a declined confirm returns early).
SubmitDelete(i) ==
  /\ NoModal /\ i \in Listed /\ ~isDeleting /\ ops < MaxOps
  /\ deleteReq' = i /\ isDeleting' = TRUE /\ deleteError' = FALSE
  /\ ops' = ops + 1
  /\ UNCHANGED <<srv, cache, pending, createOpen, editing, createReq,
                 updateReq, isCreating, isUpdating, createError, updateError>>

\* A delete removes an item the server still holds.
Deleted(i) == IF srv[i] > 0 THEN {[srv EXCEPT ![i] = 0]} ELSE {}

\* The delete request returns with outcome o; on success both mutate calls
\* of the hook, then the page's mutate().  The page renders no deleteError.
DeleteReturns(o) ==
  /\ deleteReq # NoItem
  /\ srv' \in ServerAfter(o, Deleted(deleteReq))
  /\ deleteReq' = NoItem /\ isDeleting' = FALSE
  /\ deleteError' = (o # "ok")
  /\ IF o = "ok" THEN MutateKeys(HookKeys \cup {ListKey})
                 ELSE UNCHANGED <<pending>>
  /\ UNCHANGED <<cache, createOpen, editing, createReq, updateReq, isCreating,
                 isUpdating, createError, updateError, ops>>

\* SWR revalidates the list key: the fetcher's GET reads the server.  A
\* failed fetch keeps the old data and is retried, so it is not a step.
Revalidate ==
  /\ pending
  /\ cache' = [loaded |-> TRUE, snap |-> srv]
  /\ pending' = FALSE
  /\ UNCHANGED <<srv, createOpen, editing, createReq, updateReq, deleteReq,
                 isCreating, isUpdating, isDeleting, createError, updateError,
                 deleteError, ops>>

\* SWR's own triggers (window focus, reconnect) ask for a revalidation.
Focus ==
  /\ ~pending
  /\ pending' = TRUE
  /\ UNCHANGED <<srv, cache, createOpen, editing, createReq, updateReq,
                 deleteReq, isCreating, isUpdating, isDeleting, createError,
                 updateError, deleteError, ops>>

\* The server after the document is unloaded: the browser aborts the
\* requests in flight, and each of them may or may not have reached the
\* server before (a Cancel closes a modal without waiting for its
\* request, so any of the three can be in flight).
UnloadOutcomes ==
  LET created == IF createReq
                   THEN {srv} \cup {[srv EXCEPT ![i] = 1] : i \in {j \in Ids : srv[j] = 0}}
                   ELSE {srv}
      updated == UNION {IF updateReq # NoItem /\ s[updateReq] > 0
                          THEN {s, [s EXCEPT ![updateReq] = @ + 1]} ELSE {s}
                        : s \in created}
  IN UNION {IF deleteReq # NoItem THEN {s, [s EXCEPT ![deleteReq] = 0]} ELSE {s}
            : s \in updated}

\* Seeded bug variant of PageRemount: SWR's cache taken to survive the
\* page load (the list shown from the old entry, no fetch due).
PageRemountKeepsCache ==
  /\ srv' \in UnloadOutcomes
  /\ pending' = FALSE
  /\ createOpen' = FALSE /\ editing' = NoItem
  /\ createReq' = FALSE /\ updateReq' = NoItem /\ deleteReq' = NoItem
  /\ isCreating' = FALSE /\ isUpdating' = FALSE /\ isDeleting' = FALSE
  /\ createError' = FALSE /\ updateError' = FALSE /\ deleteError' = FALSE
  /\ UNCHANGED <<cache, ops>>

\* A full page load (the Sidebar's <a href>) leaves or reloads the page:
\* the requests in flight are settled by UnloadOutcomes, and the page's
\* useState, the hooks' state and SWR's cache start as at mount, with the
\* list key's first fetch due.
PageRemount ==
  /\ srv' \in UnloadOutcomes
  /\ cache' = [loaded |-> FALSE, snap |-> [i \in Ids |-> 0]]
  /\ pending' = TRUE
  /\ createOpen' = FALSE /\ editing' = NoItem
  /\ createReq' = FALSE /\ updateReq' = NoItem /\ deleteReq' = NoItem
  /\ isCreating' = FALSE /\ isUpdating' = FALSE /\ isDeleting' = FALSE
  /\ createError' = FALSE /\ updateError' = FALSE /\ deleteError' = FALSE
  /\ UNCHANGED ops

PageNext ==
  \/ OpenCreate \/ CancelCreate \/ SubmitCreate
  \/ \E o \in Outcomes : CreateReturns(o)
  \/ \E i \in Ids : OpenEdit(i)
  \/ CancelEdit \/ SubmitEdit
  \/ \E o \in Outcomes : UpdateReturns(o)
  \/ \E i \in Ids : SubmitDelete(i)
  \/ \E o \in Outcomes : DeleteReturns(o)
  \/ Revalidate \/ Focus

\* Requests end (axios times out after 10 s) and SWR completes a due
\* revalidation; the user's clicks are not assumed.
PageFairness ==
  /\ WF_pageVars(\E o \in Outcomes : CreateReturns(o))
  /\ WF_pageVars(\E o \in Outcomes : UpdateReturns(o))
  /\ WF_pageVars(\E o \in Outcomes : DeleteReturns(o))
  /\ WF_pageVars(Revalidate)

PageSpec == PageInit /\ [][PageNext]_pageVars /\ PageFairness

-----------------------------------------------------------------------------
(* Properties.                                                             *)

\* A modal closes only through its own Cancel or its own successful Save:
\* the edit modal of one item is never closed by the completion of an
\* earlier update of another item.
EditModalClosedByItsOwnSave ==
  [][editing # NoItem /\ editing' = NoItem =>
       CancelEdit \/ (UpdateReturns("ok") /\ updateReq = editing)]_pageVars

=============================================================================
