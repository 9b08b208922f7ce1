------------------------- MODULE MC_EntityReconciler ------------------------
(* The calls collection: handleCallUpdate with status "ended" as the       *)
(* terminal value and three call ids.                                      *)
EXTENDS EntityReconciler, TLC

CONSTANTS c1, c2, c3

MCCallIds == {c1, c2, c3}

CallStatuses == {"ringing", "answered", "ended"}

IdSymmetry == Permutations(MCCallIds)

=============================================================================
