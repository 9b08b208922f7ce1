-------------------------- MODULE NotificationBuffer -------------------------
(***************************************************************************)
(* The notification buffer of WebSocketProvider                            *)
(* (src/client/src/contexts/WebSocketContext.tsx): the `notifications`      *)
(* React state, written by the notification and initial_data messages and *)
(* by the exposed clearNotifications() and markNotificationRead(id).  A    *)
(* notification is abstracted to its id and read flag; title, message and  *)
(* timestamp are carried unchanged and left out.  RealtimeSync            *)
(* instantiates it for the updaters and the properties of the buffer.      *)
(***************************************************************************)
EXTENDS Naturals, Sequences

CONSTANTS
  NotifIds,    \* notification ids (model values)
  Cap          \* 50 in the code: slice(0, Cap - 1) keeps Cap - 1 old ones

ASSUME Cap \in Nat \ {0}

VARIABLE notifications

Notification == [id : NotifIds, read : BOOLEAN]

\* Array.prototype.slice(0, end) on a sequence.
Slice(s, end) == SubSeq(s, 1, IF end < Len(s) THEN end ELSE Len(s))

\* Seeded bug variant of Prepend: slice(0, 50) instead of slice(0, 49).
PrependSlicesCap(prev, data) == <<data>> \o Slice(prev, Cap)

\* handleNotification: setNotifications(prev => [data, ...prev.slice(0, 49)])
Prepend(prev, data) == <<data>> \o Slice(prev, Cap - 1)

\* markNotificationRead(id): prev.map(n => n.id === id ? {...n, read: true}
\* : n), every entry with that id.
MarkRead(prev, id) ==
  [k \in DOMAIN prev |-> IF prev[k].id = id THEN [prev[k] EXCEPT !.read = TRUE]
                                          ELSE prev[k]]

-----------------------------------------------------------------------------
(* Properties.                                                             *)

\* Spec 4.4 as written: prepend, then if the length exceeds Cap drop the
\* oldest entries beyond index Cap - 1.
SpecPush(prev, data) ==
  LET s == <<data>> \o prev
  IN IF Len(s) > Cap THEN SubSeq(s, 1, Cap) ELSE s

\* The slice-then-prepend of handleNotification equals the spec's
\* prepend-then-truncate on every buffer the provider can hold, including
\* ones longer than Cap left by initial_data.
PushMatchesSpec ==
  \A n \in Notification : Prepend(notifications, n) = SpecPush(notifications, n)

\* Spec 4.4 and 8: the buffer never holds more than Cap notifications.
NotificationsBounded == Len(notifications) <= Cap

=============================================================================
