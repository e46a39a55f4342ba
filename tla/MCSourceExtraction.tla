------------------------- MODULE MCSourceExtraction -------------------------
(* SourceExtraction for TLC: tasks and workers are interchangeable. *)
EXTENDS SourceExtraction, TLC

Symmetry == Permutations(Tasks) \cup Permutations(Workers)
=============================================================================
