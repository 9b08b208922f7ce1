---------------------------- MODULE LiveEntitySet ---------------------------
(***************************************************************************)
(* What the entity reconciler promises (spec 4.3): a set of live entities  *)
(* keyed by id.  A full list replaces the whole set; a delta for a known  *)
(* id removes it when the delta is terminal and overwrites it otherwise;  *)
(* a delta for an unknown id adds it.  No order, no duplicates by         *)
(* construction.                                                          *)
(***************************************************************************)
CONSTANTS
  Ids,       \* entity ids
  States,    \* values of the lifecycle field (status / state)
  Terminal,  \* the value that ends an entity's life ("ended" / "down")
  Absent,    \* no entity with this id
  Lists,     \* the full-list payloads
  Entities   \* the single-entity payloads

ASSUME Terminal \in States /\ Absent \notin States

VARIABLE live   \* live[i]: lifecycle value of entity i, or Absent

AsLive(list) ==
  [i \in Ids |-> IF \E k \in DOMAIN list : list[k].id = i
                   THEN list[CHOOSE k \in DOMAIN list : list[k].id = i].st
                   ELSE Absent]

Init == live = [i \in Ids |-> Absent]

ReplaceAll(list) == live' = AsLive(list)

Upsert(e) ==
  live' = IF live[e.id] # Absent /\ e.st = Terminal
            THEN [live EXCEPT ![e.id] = Absent]
            ELSE [live EXCEPT ![e.id] = e.st]

Next ==
  \/ \E l \in Lists : ReplaceAll(l)
  \/ \E e \in Entities : Upsert(e)

Spec == Init /\ [][Next]_live

=============================================================================
