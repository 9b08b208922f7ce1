------------------------ MODULE MC_UseWebSocketHook ------------------------
(* Model-checking instance of UseWebSocketHook: two tokens as model values.*)
EXTENDS UseWebSocketHook, TLC

CONSTANTS t1, t2

MCTokens == {t1, t2}

TokenSymmetry == Permutations(MCTokens)

=============================================================================
