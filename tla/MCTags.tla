------------------------------- MODULE MCTags -------------------------------
(***************************************************************************)
(* Tags for TLC: sessions, positions and keys are told apart by nothing    *)
(* but their being different.                                              *)
(***************************************************************************)
EXTENDS Tags, TLC

Symmetry ==
    Permutations(Sessions) \cup Permutations(Positions) \cup Permutations(Keys)
=============================================================================
