-------------------------------- MODULE Hash --------------------------------
(***************************************************************************)
(* The hashes of cryptovalid_merkle.py.  SHA-256 with its two prefixes is  *)
(* taken to be free of collisions, so a hash is the tree that was hashed:  *)
(* its leaves from left to right, each with its depth, which determine it. *)
(***************************************************************************)
EXTENDS Integers, Sequences

Hashes == Seq([data : Nat, depth : Nat])

leaf_hash(d) == <<[data |-> d, depth |-> 0]>>

\* sha256(b""), no leaf of any ledger.
EmptyHash == leaf_hash(0)

Below(h) == [i \in 1..Len(h) |-> [data |-> h[i].data, depth |-> h[i].depth + 1]]

node_hash(left, right) == Below(left) \o Below(right)

\* The data a hash commits to.
Data(h) == [i \in 1..Len(h) |-> h[i].data]

=============================================================================
