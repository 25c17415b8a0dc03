----------------------------- MODULE ProofWalk ------------------------------
(***************************************************************************)
(* The verifiers of Merkle proofs, one loop iteration at a time:           *)
(* consistency (verify_consistency, and behind other gates                 *)
(* verify_consistency_b64, verify_receipt and consistency_roots for        *)
(* verify_cose) and inclusion (verify_inclusion,                           *)
(* _verify_inclusion_from_leaf_hash for verify_receipt and verify_cose,    *)
(* _root_from_inclusion).  Sizes, indexes and paths come from whoever made *)
(* the proof; the roots come from the reader and from a signed head.       *)
(***************************************************************************)
EXTENDS Hash

CONSTANT Jobs   \* sets of calls: verifier, sizes m and n (or index m in size n), path,
                \* the reader's old root or leaf hash, the signed root and size

Consistency == {"verify_consistency", "verify_consistency_b64", "verify_receipt", "verify_cose"}
Inclusion   == {"verify_inclusion", "receipt_inclusion", "cose_inclusion"}

Calls == [verifier : Consistency \cup Inclusion, m : Int, n : Int, path : Seq(Hashes),
          mine : Hashes, root : Hashes, size : Nat]

ASSUME JobsAreCalls == \A S \in Jobs : S \subseteq Calls

VARIABLES
  job, at,
  rest,     \* what the loop over the path has still to read
  fn, sn,   \* positions of the node and of the last node at this level
  fr, sr,   \* the two roots rebuilt so far (for inclusion only sr: `h', `r')
  ok        \* the verdict

walkVars == <<job, at, rest, fn, sn, fr, sr, ok>>

WalkTypeOK ==
  /\ job \in Calls
  /\ at \in {"start", "skip", "next", "climb", "done"}
  /\ rest \in Seq(Hashes) /\ fn \in Int /\ sn \in Int
  /\ fr \in Hashes /\ sr \in Hashes /\ ok \in BOOLEAN

WalkInit ==
  /\ \E S \in Jobs : job \in S
  /\ at = "start"
  /\ rest = << >> /\ fn = 0 /\ sn = 0 /\ fr = << >> /\ sr = << >> /\ ok = FALSE

Done(b) == at' = "done" /\ ok' = b
Half(x) == x \div 2
Odd(x)  == x % 2 = 1
Shift   == fn' = Half(fn) /\ sn' = Half(sn)

-----------------------------------------------------------------------------
(* Before the loop *)

\* m & (m - 1) = 0 for a size that passed the gates.
Pow2(m) == \E k \in 0..m : 2^k = m

\* The early returns of each verifier about sizes.
Gate(j) ==
  /\ j.verifier = "verify_consistency"     => j.m # 0 /\ j.m <= j.n
  /\ j.verifier = "verify_consistency_b64" => j.m = j.n \/ (0 < j.m /\ j.m < j.n)
  /\ j.verifier = "verify_receipt"         => j.n = j.size /\ j.m # 0 /\ j.m <= j.n
  /\ j.verifier = "verify_cose"            => j.m = j.n \/ (0 < j.m /\ j.m < j.n)
  /\ j.verifier = "verify_inclusion"       => j.m < j.n
  /\ j.verifier = "receipt_inclusion"      => j.n = j.size /\ j.m < j.n /\ (j.n > 0 => j.m >= 0)
  /\ j.verifier = "cose_inclusion"         => j.m >= 0 /\ j.n >= 0 /\ j.m < j.n

Refuse ==
  /\ at = "start" /\ ~Gate(job) /\ Done(FALSE)
  /\ UNCHANGED <<job, rest, fn, sn, fr, sr>>

\* Two heads of one size: their roots are compared, and no path is expected
\* (verify_receipt does not look at it).
SameSize ==
  /\ at = "start" /\ Gate(job) /\ job.verifier \in Consistency /\ job.m = job.n
  /\ Done(job.mine = job.root /\ (job.path = << >> \/ job.verifier = "verify_receipt"))
  /\ UNCHANGED <<job, rest, fn, sn, fr, sr>>

\* Mutant: the old root is never put before the path.
Nodes_PathOnly(j) == j.path

\* An old tree of 2^k leaves is itself the first node.
Nodes(j) == IF Pow2(j.m) THEN <<j.mine>> \o j.path ELSE j.path

BeginConsistency ==
  /\ at = "start" /\ Gate(job) /\ job.verifier \in Consistency /\ job.m # job.n
  /\ IF Nodes(job) = << >>
       THEN Done(FALSE) /\ UNCHANGED <<rest, fn, sn, fr, sr>>
       ELSE /\ at' = "skip" /\ fn' = job.m - 1 /\ sn' = job.n - 1
            /\ fr' = Head(Nodes(job)) /\ sr' = Head(Nodes(job)) /\ rest' = Tail(Nodes(job))
            /\ UNCHANGED ok
  /\ UNCHANGED job

\* "while fn & 1"
Skip ==
  /\ at = "skip"
  /\ IF Odd(fn) THEN Shift /\ UNCHANGED at ELSE at' = "next" /\ UNCHANGED <<fn, sn>>
  /\ UNCHANGED <<job, rest, fr, sr, ok>>

BeginInclusion ==
  /\ at = "start" /\ Gate(job) /\ job.verifier \in Inclusion
  /\ at' = "next" /\ fn' = job.m /\ sn' = job.n - 1
  /\ sr' = job.mine /\ rest' = job.path
  /\ UNCHANGED <<job, fr, ok>>

-----------------------------------------------------------------------------
(* The loop *)

\* Path left over at the root; verify_inclusion alone goes on.
TooLong ==
  /\ at = "next" /\ rest # << >> /\ sn = 0 /\ job.verifier # "verify_inclusion"
  /\ Done(FALSE)
  /\ UNCHANGED <<job, rest, fn, sn, fr, sr>>

Reads == at = "next" /\ rest # << >> /\ (sn # 0 \/ job.verifier = "verify_inclusion") /\ rest' = Tail(rest)

\* The node is a right child, or the last of its level: both roots grow to the left.
JoinLeft ==
  /\ Reads /\ (Odd(fn) \/ fn = sn)
  /\ fr' = IF job.verifier \in Inclusion THEN fr ELSE node_hash(Head(rest), fr)
  /\ sr' = node_hash(Head(rest), sr)
  /\ at' = "climb"
  /\ UNCHANGED <<job, fn, sn, ok>>

\* "while not (fn & 1) and fn != 0", and the shift after it.
Climb ==
  /\ at = "climb" /\ Shift
  /\ at' = IF ~Odd(fn) /\ fn # 0 THEN "climb" ELSE "next"
  /\ UNCHANGED <<job, rest, fr, sr, ok>>

\* The node is a left child with a sibling: only the new root covers it.
JoinRight ==
  /\ Reads /\ ~Odd(fn) /\ fn # sn
  /\ sr' = node_hash(sr, Head(rest)) /\ Shift
  /\ UNCHANGED <<job, at, fr, ok>>

\* Mutant: the rebuilt old root is not compared with the reader's.
Finish_NewOnly ==
  /\ at = "next" /\ rest = << >>
  /\ Done(sn = 0 /\ sr = job.root)
  /\ UNCHANGED <<job, rest, fn, sn, fr, sr>>

\* Mutant: an inclusion proof of the right length passes.
Finish_LengthOnly ==
  /\ at = "next" /\ rest = << >>
  /\ Done(sn = 0 /\ (job.verifier \in Consistency => sr = job.root /\ fr = job.mine))
  /\ UNCHANGED <<job, rest, fn, sn, fr, sr>>

\* The whole tree was climbed, and the roots are the ones expected (verify_cose
\* checks the signature over sr, which is the signed root or fails).
Finish ==
  /\ at = "next" /\ rest = << >>
  /\ Done(sn = 0 /\ sr = job.root /\ (job.verifier \in Consistency => fr = job.mine))
  /\ UNCHANGED <<job, rest, fn, sn, fr, sr>>

WalkNext ==
  \/ Refuse \/ SameSize \/ BeginConsistency \/ Skip \/ BeginInclusion
  \/ TooLong \/ JoinLeft \/ Climb \/ JoinRight \/ Finish

WalkSpec == WalkInit /\ [][WalkNext]_walkVars

-----------------------------------------------------------------------------
(* Properties *)

IsPrefixOf(s, t) == Len(s) <= Len(t) /\ \A i \in 1..Len(s) : s[i] = t[i]

Within(h, g) ==
  \E i \in 0..Len(g) - Len(h) : \A k \in 1..Len(h) : g[i + k].data = h[k].data

\* "append-only growth": whatever path and sizes the log (or whoever made the
\* receipt) claims, a consistency proof that is accepted shows that what the
\* reader's old root commits to is a prefix of what the new root commits to.
AcceptedIsPrefix ==
  ok /\ job.verifier \in Consistency => IsPrefixOf(Data(job.mine), Data(job.root))

\* An inclusion proof that is accepted shows that the reader's own leaf is under
\* the signed root, also where index and size are not signed (verify_cose).
AcceptedIsIncluded ==
  ok /\ job.verifier \in Inclusion => Within(job.mine, job.root)

=============================================================================
