------------------------------ MODULE MCMerkle ------------------------------
(* Calls of the verifiers for TLC: every proof a log makes for trees up to   *)
(* MaxTree, damaged or not, and every path of hashes for trees up to MaxFork *)
(* that are extensions or forks of one another.                              *)
EXTENDS ProofWalk, MerkleTree, FiniteSets

CONSTANTS MaxTree, MaxFork, MaxPath   \* bounds

Tree(n) == [i \in 1..n |-> i]

\* The first m leaves of a tree, or with one of them changed.
Olds(m) == {[i \in 1..m |-> IF i = j THEN 9 ELSE i] : j \in 0..m}

\* All the nodes of a tree of the log.
RECURSIVE NodesOf(_)
NodesOf(s) == {mth(s)} \cup (IF Len(s) < 2 THEN {} ELSE NodesOf(Left(s)) \cup NodesOf(Right(s)))

\* A proof as made, and with an element missing, doubled or of another tree.
Damaged(p) ==
  {p} \cup {SubSeq(p, 1, i - 1) \o SubSeq(p, i + 1, Len(p)) : i \in 1..Len(p)}
      \cup {SubSeq(p, 1, i) \o SubSeq(p, i, Len(p)) : i \in 1..Len(p)}
      \cup {[p EXCEPT ![i] = leaf_hash(9)] : i \in 1..Len(p)}
      \cup {Append(p, leaf_hash(9))}

Call(verifiers, ms, ns, paths, mines, tree) ==
  [verifier : verifiers, m : ms, n : ns, path : paths, mine : mines, root : {mth(tree)}, size : {Len(tree)}]

\* Sizes as they are, or claimed one off.
Near(n) == {n - 1, n, n + 1}

Grown(m, n) ==
  Call(Consistency, Near(m), Near(n), Damaged(consistency_proof(m, Tree(n))), {mth(Tree(m))}, Tree(n))

Included(m, n) ==
  Call(Inclusion, Near(m), Near(n), Damaged(inclusion_proof(m, Tree(n))), {leaf_hash(m + 1)}, Tree(n))

Forked(s, n, len) ==
  Call({"verify_consistency"}, {Len(s)}, {n}, [1..len -> NodesOf(Tree(n)) \cup NodesOf(s)], {mth(s)}, Tree(n))

Misplaced(n, len) ==
  Call(Inclusion, -1..n, Near(n), [1..len -> NodesOf(Tree(n))], {leaf_hash(d) : d \in 1..n \cup {9}}, Tree(n))

AllJobs ==
  UNION {UNION {{Grown(m, n), Included(m - 1, n)} : m \in 1..n} : n \in 1..MaxTree} \cup
  UNION {UNION {{Forked(s, n, len) : s \in UNION {Olds(m) : m \in 1..n}} \cup {Misplaced(n, len)}
                : len \in 0..MaxPath} : n \in 1..MaxFork}

-----------------------------------------------------------------------------
TrueSize == job.n = Len(job.root)

\* For sizes that are those of the trees, every consistency verifier accepts
\* exactly the path consistency_proof makes, and only when the old tree is a
\* prefix of the new one: no honest growth is refused, no other path passes.
\* (verify_receipt does not look at the path between two equal heads.)
ConsistencyExact ==
  at = "done" /\ job.verifier \in Consistency /\ TrueSize /\ job.m = Len(job.mine) =>
    (ok <=> /\ IsPrefixOf(Data(job.mine), Data(job.root))
            /\ \/ job.path = consistency_proof(job.m, Data(job.root))
               \/ job.verifier = "verify_receipt" /\ job.m = job.n)

\* For the size of the tree, an inclusion proof is accepted exactly when it is
\* the one inclusion_proof makes for the reader's leaf at that index; and a
\* receipt that names another size than its signed head is refused.
InclusionExact ==
  at = "done" /\ job.verifier \in Inclusion /\ (TrueSize \/ job.verifier = "receipt_inclusion") /\ job.m >= 0 =>
    (ok <=> /\ TrueSize /\ job.m < job.n
            /\ Data(job.mine) = <<Data(job.root)[job.m + 1]>>
            /\ job.path = inclusion_proof(job.m, Data(job.root)))

\* Every verifier of either kind of proof accepts exactly what the log's own
\* provers make.
ProofsExact == ConsistencyExact /\ InclusionExact

=============================================================================
