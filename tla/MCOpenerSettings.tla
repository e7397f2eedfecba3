-------------------------- MODULE MCOpenerSettings --------------------------
(* OpenerSettings with two tasks that may overlap.                         *)
EXTENDS OpenerSettings, TLC

Symmetry == Permutations(Tasks)
=============================================================================
