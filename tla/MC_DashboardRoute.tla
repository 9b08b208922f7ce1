------------------------- MODULE MC_DashboardRoute -------------------------
(* Model-checking instance of DashboardRoute: two tokens as model values.  *)
EXTENDS DashboardRoute, TLC

CONSTANTS t1, t2

MCTokens == {t1, t2}

=============================================================================
