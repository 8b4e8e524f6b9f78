------------------------- MODULE MCSkillOperations ---------------------------
(* A small instance of SkillOperations.                                        *)
EXTENDS SkillOperations, TLC
CONSTANTS i1, i2
InstallSymmetry == Permutations(Installs)
(* Both installs plan the same package; one that is not theirs is "foreign".       *)
OnePackage == [o \in Installs |-> "package"]
(* An answer is an event of the step that gives it: nothing later depends on it, so *)
(* states that differ only in it are explored once.                              *)
Unanswered == <<files, faults, expired, lifecycle, asked, told, run, world>>
=============================================================================
