--------------------------- MODULE ExtensionsPage ---------------------------
(***************************************************************************)
(* The extensions page (src/client/src/app/dashboard/extensions/page.tsx)  *)
(* and its hooks (useExtensions, useCreateExtension, useUpdateExtension,   *)
(* useDeleteExtension in src/client/src/hooks/index.ts).  The page and the  *)
(* hooks repeat the users page and the user hooks statement for statement, *)
(* with `extensions:` keys, so each step is the CrudPage step of the same  *)
(* statement.                                                              *)
(***************************************************************************)
EXTENDS CrudPage, Sequences, TLC

\* useExtensions({search: searchTerm}): key `extensions:${url}`.
ExtensionsListKey == "extensions:" \o "/extensions?" \o "search="

\* mutate('extensions:*') and mutate(`extension:${id}`), the key
\* useExtension(id) mounts.
ExtensionHookKeys ==
  {"extensions:*"} \cup {"extension:" \o ToString(i) : i \in Ids}

\* The page's state: no modal open, no extension being edited.
ExtPageInit == PageInit

\* The "Add Extension" button, the edit button of a row, and the
\* ExtensionModal onCancel closures of the two modals.
OpenCreateExtension == OpenCreate
OpenEditExtension(i) == OpenEdit(i)
CancelCreateExtension == CancelCreate
CancelEditExtension == CancelEdit

\* handleCreateExtension, handleUpdateExtension, handleDeleteExtension.
HandleCreateExtension == SubmitCreate
HandleUpdateExtension == SubmitEdit
HandleDeleteExtension(i) == SubmitDelete(i)

\* The returns of createExtension, updateExtension and deleteExtension.
CreateExtensionReturns(o) == CreateReturns(o)
UpdateExtensionReturns(o) == UpdateReturns(o)
DeleteExtensionReturns(o) == DeleteReturns(o)

\* The extensions page left or reloaded through the Sidebar.
ExtPageRemount == PageRemount

ExtNext ==
  \/ OpenCreateExtension \/ CancelCreateExtension \/ HandleCreateExtension
  \/ \E o \in Outcomes : CreateExtensionReturns(o)
  \/ \E i \in Ids : OpenEditExtension(i)
  \/ CancelEditExtension \/ HandleUpdateExtension
  \/ \E o \in Outcomes : UpdateExtensionReturns(o)
  \/ \E i \in Ids : HandleDeleteExtension(i)
  \/ \E o \in Outcomes : DeleteExtensionReturns(o)
  \/ Revalidate \/ Focus

=============================================================================
