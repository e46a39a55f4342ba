----------------------------- MODULE MCIndexing -----------------------------
(* Small instances of IndexingWatchdog for TLC. *)
EXTENDS IndexingWatchdog, TLC

\* Row ids, task ids and workers are interchangeable.
Symmetry == Permutations(Tasks) \cup Permutations(Workers)
=============================================================================
