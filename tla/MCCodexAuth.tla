----------------------------- MODULE MCCodexAuth -----------------------------
(* Model-checking instances of CodexAuthSupervisor.                         *)
EXTENDS CodexAuthSupervisor, TLC

TaskSymmetry == Permutations(Tasks)
=============================================================================
