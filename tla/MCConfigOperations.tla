------------------------- MODULE MCConfigOperations --------------------------
(* A small instance of ConfigOperations.                                       *)
EXTENDS ConfigOperations, TLC
CONSTANTS r1, r2
ContentSymmetry == Permutations(Contents)
=============================================================================
