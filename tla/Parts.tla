------------------------------- MODULE Parts -------------------------------
(***************************************************************************)
(* What a program keeps of a sequence when it leaves items out: a list     *)
(* comprehension with a condition, in Python.                              *)
(***************************************************************************)
EXTENDS Integers, Sequences, FiniteSets

Items(s) == {s[i] : i \in 1..Len(s)}

\* The k-th of the indices I.
Nth(I, k) == CHOOSE i \in I : Cardinality({m \in I : m <= i}) = k

\* The items of a sequence at the indices I, in order.
Keep(s, I) == [k \in 1..Cardinality(I) |-> s[Nth(I, k)]]

=============================================================================
