---------------------------- MODULE MCScheduler ----------------------------
(* Scheduler for TLC: chains are interchangeable. *)
EXTENDS Scheduler, TLC

Symmetry == Permutations(Chains)
=============================================================================
