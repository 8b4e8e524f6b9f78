-------------------------- MODULE MCHistoryRecovery --------------------------
(* Model-checking instances of HistoryRecovery.                                *)
EXTENDS HistoryRecovery
=============================================================================
