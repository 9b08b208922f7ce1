--------------------------- MODULE EntityReconciler -------------------------
(***************************************************************************)
(* The entity reconciler: handleCallUpdate (and the identical              *)
(* handleChannelUpdate) of WebSocketProvider,                               *)
(* src/client/src/contexts/WebSocketContext.tsx.  The collection is the     *)
(* React state array; an entity is abstracted to its id and the field that *)
(* decides removal (call.status, channel.state).  The other fields only    *)
(* ride along on replacement and are left out.                             *)
(***************************************************************************)
EXTENDS Naturals, Sequences, SequencesExt

CONSTANTS
  Ids,       \* entity ids
  States,    \* lifecycle values
  Terminal,  \* "ended" for calls, "down" for channels
  MaxList    \* longest full-list payload

ASSUME Terminal \in States /\ MaxList \in Nat

VARIABLE coll   \* activeCalls / activeChannels

Entity == [id : Ids, st : States]

\* Full-list payloads: the backend's list of active entities, so one entry
\* per id and none in the terminal state.
FullLists == {l \in BoundedSeq(Entity, MaxList) :
                /\ \A j, k \in DOMAIN l : l[j].id = l[k].id => j = k
                /\ \A k \in DOMAIN l : l[k].st # Terminal}

RTypeOK == coll \in Seq(Entity)

Init == coll = <<>>

\* Seeded bug variants of ApplyDelta, used as mutants of the properties:
\* the first entry treated as not found, a terminal delta replacing
\* instead of removing, and removal soft-deleting the entry in place.
ApplyDeltaSkipsFirst(prev, data) ==
  LET index == SelectInSeq(prev, LAMBDA c : c.id = data.id)
  IN IF index > 1
       THEN IF data.st = Terminal
              THEN SelectSeq(prev, LAMBDA c : c.id # data.id)
              ELSE [prev EXCEPT ![index] = data]
       ELSE Append(prev, data)

ApplyDeltaNeverRemoves(prev, data) ==
  LET index == SelectInSeq(prev, LAMBDA c : c.id = data.id)
  IN IF index > 0 THEN [prev EXCEPT ![index] = data] ELSE Append(prev, data)

ApplyDeltaSoftDeletes(prev, data) ==
  LET index == SelectInSeq(prev, LAMBDA c : c.id = data.id)
  IN IF index > 0
       THEN IF data.st = Terminal
              THEN [prev EXCEPT ![index].st = "removed"]
              ELSE [prev EXCEPT ![index] = data]
       ELSE Append(prev, data)

\* The functional update passed to the state setter for a single entity:
\* findIndex by id; a known id is filtered out when terminal, otherwise
\* replaced at its index; an unknown id is appended.
ApplyDelta(prev, data) ==
  LET index == SelectInSeq(prev, LAMBDA c : c.id = data.id)
  IN IF index > 0
       THEN IF data.st = Terminal
              THEN SelectSeq(prev, LAMBDA c : c.id # data.id)
              ELSE [prev EXCEPT ![index] = data]
       ELSE Append(prev, data)

\* handleCallUpdate(data) with Array.isArray(data): replace the collection.
FullListUpdate(list) == coll' = list

\* handleCallUpdate(data) with a single entity.
DeltaUpdate(data) == coll' = ApplyDelta(coll, data)

Next ==
  \/ \E l \in FullLists : FullListUpdate(l)
  \/ \E e \in Entity : DeltaUpdate(e)

Spec == Init /\ [][Next]_coll

-----------------------------------------------------------------------------
(* Properties.                                                             *)

\* Spec 3 and 8: whatever sequence of full lists and deltas arrives, the
\* collection never holds two entries with the same id.  findIndex finds
\* the first match, filter removes every match and append only happens
\* when no match exists.
NoDuplicateIds ==
  \A j, k \in DOMAIN coll : coll[j].id = coll[k].id => j = k

\* Refinement mapping: the array read as a keyed set.
NoEntity == "absent"

LiveView == [i \in Ids |-> IF \E k \in DOMAIN coll : coll[k].id = i
                             THEN coll[SelectInSeq(coll, LAMBDA c : c.id = i)].st
                             ELSE NoEntity]

Abstract == INSTANCE LiveEntitySet
              WITH live <- LiveView, Absent <- NoEntity,
                   Lists <- FullLists, Entities <- Entity

\* The array reconciler implements the keyed live-entity set of spec 4.3:
\* every full list and delta the handler applies is a step of that set.
RefinesLiveEntitySet == Abstract!Spec

=============================================================================
