------------------------------- MODULE MCWorm -------------------------------
(* Instances of Worm for TLC: callers and records are interchangeable. *)
EXTENDS Worm, TLC

Symmetry == Permutations(Callers) \cup Permutations(Records)

=============================================================================
