------------------------- MODULE MCNovelGeneration -------------------------
(* Model values and symmetry for TLC. *)
EXTENDS NovelGeneration, TLC

Symmetry == Permutations(Workers)
=============================================================================
