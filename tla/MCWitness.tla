----------------------------- MODULE MCWitness -----------------------------
(* Instances of Witness for TLC: workers and leaf values are interchangeable. *)
EXTENDS Witness, TLC

Symmetry == Permutations(Workers) \cup Permutations(Leaves)

=============================================================================
