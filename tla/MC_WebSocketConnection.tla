----------------------- MODULE MC_WebSocketConnection ----------------------
(* Model-checking instance of WebSocketConnection: two tokens as model     *)
(* values, symmetric for the safety runs.                                  *)
EXTENDS WebSocketConnection, TLC

CONSTANTS t1, t2

MCTokens == {t1, t2}

TokenSymmetry == Permutations(MCTokens)

=============================================================================
