----------------------------- MODULE MCJournal -----------------------------
(* Instances of Journal for TLC. *)
EXTENDS Journal, TLC

Symmetry == Permutations(Sessions) \cup Permutations(Spellings)
=============================================================================
