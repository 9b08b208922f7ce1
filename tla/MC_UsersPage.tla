--------------------------- MODULE MC_UsersPage ---------------------------
(* The users page with two user ids.                                       *)
EXTENDS UsersPage

CONSTANTS u1, u2

MCUserIds == {u1, u2}

=============================================================================
