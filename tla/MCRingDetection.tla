-------------------------- MODULE MCRingDetection --------------------------
(* RingDetection with two tasks that may overlap.                          *)
EXTENDS RingDetection, TLC

Symmetry == Permutations(Tasks)
=============================================================================
