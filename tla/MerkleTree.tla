----------------------------- MODULE MerkleTree -----------------------------
(***************************************************************************)
(* cryptovalid_merkle.py: tree heads and the proofs a log makes.           *)
(***************************************************************************)
EXTENDS Hash

\* The largest power of two smaller than n.
_largest_pow2_below(n) == CHOOSE k \in {2^i : i \in 0..n} : k < n /\ 2 * k >= n

Left(s)  == SubSeq(s, 1, _largest_pow2_below(Len(s)))
Right(s) == SubSeq(s, _largest_pow2_below(Len(s)) + 1, Len(s))

RECURSIVE mth(_)
mth(s) ==
  CASE Len(s) = 0 -> EmptyHash
    [] Len(s) = 1 -> leaf_hash(s[1])
    [] OTHER      -> node_hash(mth(Left(s)), mth(Right(s)))

\* m counts from 0.
RECURSIVE inclusion_proof(_, _)
inclusion_proof(m, s) ==
  LET k == _largest_pow2_below(Len(s))
  IN  CASE Len(s) = 1         -> << >>
        [] Len(s) > 1 /\ m < k -> Append(inclusion_proof(m, Left(s)), mth(Right(s)))
        [] OTHER              -> Append(inclusion_proof(m - k, Right(s)), mth(Left(s)))

RECURSIVE _subproof(_, _, _)
_subproof(m, s, b) ==
  LET k == _largest_pow2_below(Len(s))
  IN  CASE m = Len(s)            -> IF b THEN << >> ELSE <<mth(s)>>
        [] m < Len(s) /\ m <= k  -> Append(_subproof(m, Left(s), b), mth(Right(s)))
        [] OTHER                 -> Append(_subproof(m - k, Right(s), FALSE), mth(Left(s)))

consistency_proof(m, s) == IF m = Len(s) THEN << >> ELSE _subproof(m, s, TRUE)

=============================================================================
