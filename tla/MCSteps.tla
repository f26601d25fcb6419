------------------------------ MODULE MCSteps ------------------------------
(* Instances of Steps for TLC. *)
EXTENDS Steps, TLC

Symmetry == Permutations(Sessions)
=============================================================================
