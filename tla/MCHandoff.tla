------------------------------ MODULE MCHandoff ------------------------------
(* Instances of Handoff for TLC: interchangeable threads. *)
EXTENDS Handoff, TLC

Symmetry == Permutations(Threads)
=============================================================================
