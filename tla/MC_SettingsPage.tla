---------------------------- MODULE MC_SettingsPage ----------------------------
(* Model-checking instance of SettingsPage: two users' tokens, and the     *)
(* maxCalls input cleared, set to 50, or given a leading zero.             *)
EXTENDS SettingsPage

CONSTANTS t1, t2

MCTokens == {t1, t2}

MCMaxCallsInputs == {<<>>, <<"5", "0">>, <<"0", "7">>}

=============================================================================
