--------------------------- MODULE MCExtractions ---------------------------
(* Instances of Extractions for TLC. *)
EXTENDS Extractions, TLC

Symmetry == Permutations(Sessions) \cup Permutations(Documents)
=============================================================================
