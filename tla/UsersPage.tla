----------------------------- MODULE UsersPage -----------------------------
(***************************************************************************)
(* The users page (src/client/src/app/dashboard/users/page.tsx) is         *)
(* CrudPage with the SWR keys of the user hooks in                         *)
(* src/client/src/hooks/index.ts.                                          *)
(***************************************************************************)
EXTENDS CrudPage, Sequences, TLC

\* useUsers({search: searchTerm}) with the initial empty search: url is
\* `/users?${new URLSearchParams({search: ''})}` and the key `users:${url}`.
UsersListKey == "users:" \o "/users?" \o "search="

\* The keys the user hooks pass to mutate(): the literal 'users:*' and
\* `user:${id}`, the key useUser(id) would mount.
UserHookKeys == {"users:*"} \cup {"user:" \o ToString(i) : i \in Ids}

=============================================================================
