--------------------------- MODULE WitnessProofs ---------------------------
(***************************************************************************)
(* Proofs about the witness for any number of workers, any leaves and any  *)
(* bounds: what it cosigned is one growing tree and was on disk before the *)
(* answer, the evidence file accuses the log only of what it signed and    *)
(* only once, every split view it answered for is in it, and the state     *)
(* file stays within its bounds.                                           *)
(***************************************************************************)
EXTENDS Witness, PartsProofs

-----------------------------------------------------------------------------
(* The first and the newest of a sequence *)

\* The first index of a set of indices is its least.
LEMMA FirstLeast ==
  ASSUME NEW I \in SUBSET Nat, I # {}
  PROVE  First(I) \in I /\ \A k \in I : First(I) <= k
<1>1. \E i \in I : \A k \in I : i <= k BY LeastExists
<1> QED BY <1>1 DEF First

\* Newest returns a part of the sequence, of at most n entries.
LEMMA NewestSeq ==
  ASSUME NEW S, NEW s \in Seq(S), NEW n \in Nat
  PROVE  /\ Newest(s, n) \in Seq(S) /\ Len(Newest(s, n)) <= n /\ Items(Newest(s, n)) \subseteq Items(s)
         /\ Len(s) <= n => Newest(s, n) = s
<1>0. Len(s) \in Nat BY LenProperties
<1> DEFINE a == IF Len(s) > n THEN Len(s) - n + 1 ELSE 1
<1>1. a \in 1..(Len(s) + 1) /\ Len(s) - a + 1 <= n BY <1>0
<1>2. Newest(s, n) = SubSeq(s, a, Len(s)) BY DEF Newest
<1>9. Len(s) <= n => a = 1 BY <1>0
<1> HIDE DEF a
<1>3. \A i \in a..Len(s) : i \in 1..Len(s) /\ s[i] \in S BY <1>0, <1>1, ElementOfSeq
<1>4. Len(s) \in 0..Len(s) BY <1>0
<1>5. /\ SubSeq(s, a, Len(s)) \in Seq(S)
      /\ Len(SubSeq(s, a, Len(s))) = IF a <= Len(s) THEN Len(s) - a + 1 ELSE 0
      /\ \A i \in 1..(Len(s) - a + 1) : SubSeq(s, a, Len(s))[i] = s[a + i - 1]
  BY <1>0, <1>1, <1>3, SubSeqProperties
<1>6. Len(SubSeq(s, a, Len(s))) = Len(s) - a + 1 BY <1>0, <1>1, <1>5
<1>7. Items(SubSeq(s, a, Len(s))) \subseteq Items(s)
  <2>1. ASSUME NEW i \in 1..(Len(s) - a + 1) PROVE s[a + i - 1] \in Items(s)
    <3>1. a + i - 1 \in 1..Len(s) BY <1>0, <1>1
    <3> QED BY <3>1 DEF Items
  <2> QED BY <1>5, <1>6, <2>1 DEF Items
<1>8. ASSUME Len(s) <= n PROVE SubSeq(s, a, Len(s)) = s
  <2>1. a = 1 BY <1>8, <1>9
  <2> QED BY <2>1, SubSeqFull
<1> QED BY <1>1, <1>2, <1>5, <1>6, <1>7, <1>8

-----------------------------------------------------------------------------
(* Pending roots *)

\* Every entry of a sequence is evicted after fewer evictions than it has entries.
LEMMA AllEvicted ==
  ASSUME NEW p \in Seq(Pending)
  PROVE  AfterEvictions(p, Len(p)) = {}
<1>1. Len(p) \in Nat BY LenProperties
<1>2. SUFFICES ASSUME NEW i \in 1..Len(p) PROVE ~ (Cardinality(EvictedBefore(p, i)) >= Len(p))
  BY DEF AfterEvictions
<1>3. i \notin EvictedBefore(p, i)
  <2>1. p[i] \in Pending BY ElementOfSeq
  <2>2. p[i].cp.size \in Int BY <2>1, WitnessConstants DEF Pending, Checkpoint
  <2> QED BY <2>2 DEF EvictedBefore
<1>4. EvictedBefore(p, i) \subseteq (1..Len(p)) \ {i} BY <1>3 DEF EvictedBefore
<1>5. IsFiniteSet(1..Len(p)) /\ Cardinality(1..Len(p)) = Len(p) BY <1>1, FS_Interval
<1>6. IsFiniteSet((1..Len(p)) \ {i}) /\ Cardinality((1..Len(p)) \ {i}) = Len(p) - 1 BY <1>5, FS_RemoveElement
<1>7. Cardinality(EvictedBefore(p, i)) <= Len(p) - 1 BY <1>4, <1>6, FS_Subset
<1>8. Cardinality(EvictedBefore(p, i)) \in Nat BY <1>4, <1>6, FS_Subset, FS_CardinalityType
<1> QED BY <1>1, <1>7, <1>8

\* How many notes a sequence of pending roots keeps.
NotesKept(p) == Cardinality({i \in 1..Len(p) : p[i].kept})

\* Evictions stop, and then both bounds hold; nothing is made up.
LEMMA EvictFits ==
  ASSUME NEW p \in Seq(Pending)
  PROVE  /\ Evict(p) \in Seq(Pending) /\ Len(Evict(p)) <= Ring /\ NotesKept(Evict(p)) <= PendingKept
         /\ Items(Evict(p)) \subseteq Items(p)
<1>0. Len(p) \in Nat BY LenProperties
<1> DEFINE T == {n \in 0..Len(p) : Fits(p, AfterEvictions(p, n))}
<1>1. T \in SUBSET Nat BY <1>0
<1>2. Len(p) \in T
  <2>1. Cardinality({}) = 0 BY FS_EmptySet
  <2>2. {i \in {} : p[i].kept} = {} OBVIOUS
  <2>3. Fits(p, {}) BY <2>1, <2>2, WitnessConstants DEF Fits
  <2>4. AfterEvictions(p, Len(p)) = {} BY AllEvicted
  <2>5. Len(p) \in 0..Len(p) BY <1>0
  <2> QED BY <2>3, <2>4, <2>5
<1>3. PICK x \in T : \A y \in T : x <= y BY <1>1, <1>2, LeastExists
<1>4. x \in 0..Len(p) /\ Fits(p, AfterEvictions(p, x)) /\ \A m \in 0..x-1 : ~Fits(p, AfterEvictions(p, m))
  <2>1. ASSUME NEW m \in 0..x-1, Fits(p, AfterEvictions(p, m)) PROVE FALSE
    <3>1. m \in T /\ m < x BY <1>0, <1>1, <2>1
    <3> QED BY <1>1, <1>3, <3>1
  <2> QED BY <2>1
<1> DEFINE k == CHOOSE n \in 0..Len(p) : Fits(p, AfterEvictions(p, n)) /\ \A m \in 0..n-1 : ~Fits(p, AfterEvictions(p, m))
           I == AfterEvictions(p, k)
<1>5. k \in 0..Len(p) /\ Fits(p, AfterEvictions(p, k)) BY <1>4, Zenon
<1>6. Evict(p) = Keep(p, I) BY DEF Evict
<1>7. Fits(p, I) BY <1>5
<1> HIDE DEF k
<1>8. I \in SUBSET (1..Len(p)) BY DEF AfterEvictions
<1> HIDE DEF I
<1>9. /\ Keep(p, I) \in Seq(Pending) /\ Len(Keep(p, I)) = Cardinality(I) /\ Items(Keep(p, I)) \subseteq Items(p)
      /\ \A m \in 1..Len(Keep(p, I)) : Nth(I, m) \in I /\ Keep(p, I)[m] = p[Nth(I, m)]
  BY <1>8, KeepSeq
<1>10. NotesKept(Keep(p, I)) <= PendingKept
  <2> DEFINE K == {i \in 1..Len(p) : p[i].kept}
             A == {m \in 1..Len(Keep(p, I)) : Keep(p, I)[m].kept}
  <2>1. \A m \in A : Nth(I, m) \in K BY <1>8, <1>9
  <2>2. Cardinality(A) <= Cardinality(I \cap K)
    <3>1. A \in SUBSET (1..Len(Keep(p, I))) /\ K \in SUBSET (1..Len(p)) OBVIOUS
    <3> HIDE DEF A, K
    <3> QED BY <1>8, <2>1, <3>1, KeepCount
  <2>3. I \cap K = {i \in I : p[i].kept} BY <1>8
  <2>4. Cardinality(I \cap K) <= PendingKept BY <1>7, <2>3 DEF Fits
  <2>5. Cardinality(A) \in Nat /\ Cardinality(I \cap K) \in Nat
    <3>1. Len(Keep(p, I)) \in Nat BY <1>9, LenProperties
    <3>2. A \in SUBSET (1..Len(Keep(p, I))) /\ I \cap K \in SUBSET (1..Len(p)) OBVIOUS
    <3> QED BY <1>0, <3>1, <3>2, IndexSetFinite
  <2> QED BY <2>2, <2>4, <2>5, WitnessConstants DEF NotesKept
<1> QED BY <1>6, <1>7, <1>9, <1>10 DEF Fits

\* The checkpoints of a sequence of entries.
Cps(p) == {e.cp : e \in Items(p)}

\* Remembering a root adds it, or its note, and nothing else.
LEMMA RememberSeq ==
  ASSUME NEW p \in Seq(Pending), NEW cp \in Checkpoint, NEW small \in BOOLEAN
  PROVE  Remember(p, cp, small) \in Seq(Pending) /\ Cps(Remember(p, cp, small)) = Cps(p) \cup {cp}
<1>0. Len(p) \in Nat /\ \A i \in 1..Len(p) : p[i] \in Pending BY LenProperties, ElementOfSeq
<1>1. CASE \E e \in Items(p) : e.cp = cp
  <2> DEFINE q == [i \in 1..Len(p) |-> IF p[i].cp = cp /\ small THEN [p[i] EXCEPT !.kept = TRUE] ELSE p[i]]
  <2>1. Remember(p, cp, small) = q BY <1>1 DEF Remember
  <2>2. \A i \in 1..Len(p) : q[i] \in Pending /\ q[i].cp = p[i].cp BY <1>0 DEF Pending
  <2>3. q \in Seq(Pending) /\ Len(q) = Len(p) BY <1>0, <2>2, IsASeq
  <2> HIDE DEF q
  <2>4. Cps(q) = {q[i].cp : i \in 1..Len(p)} BY <2>3 DEF Cps, Items
  <2>5. Cps(p) = {p[i].cp : i \in 1..Len(p)} BY DEF Cps, Items
  <2>6. Cps(q) = Cps(p) BY <2>2, <2>4, <2>5
  <2>7. cp \in Cps(p) BY <1>1 DEF Cps
  <2> QED BY <2>1, <2>3, <2>6, <2>7
<1>2. CASE ~ \E e \in Items(p) : e.cp = cp
  <2> DEFINE x == [cp |-> cp, kept |-> small]
  <2>1. Remember(p, cp, small) = Append(p, x) BY <1>2 DEF Remember
  <2>2. x \in Pending /\ x.cp = cp BY DEF Pending
  <2> HIDE DEF x
  <2>3. Append(p, x) \in Seq(Pending) /\ Items(Append(p, x)) = Items(p) \cup {x} BY <2>2, AppendItems
  <2> QED BY <2>1, <2>2, <2>3 DEF Cps
<1> QED BY <1>1, <1>2

-----------------------------------------------------------------------------
(* Requests *)

\* The bounds of a state.
Within(st) ==
  /\ Len(st.pending) <= Ring /\ Len(st.ring) <= Ring /\ Len(st.seen) <= ProofsSeen
  /\ NotesKept(st.pending) <= PendingKept

\* A state made of checkpoints of S only, the stored one a real one.
GoodSt(st, S) ==
  /\ st \in State /\ Within(st)
  /\ st.prev # NoCp => st.prev \in S /\ st.prev.size = Len(st.prev.root)
  /\ \A e \in Items(st.pending) : e.cp \in S
  /\ \A e \in Items(st.ring) : e.cp \in S

\* A pair of two roots of one size, both in S.
Genuine(e, S) == Cardinality(e.roots) = 2 /\ \A q \in e.roots : [size |-> e.size, root |-> q] \in S

\* What a request remembers of pairs, from the pairs b remembered before it:
\* nothing new and nothing to write, or one new pair to write.
SeenOk(j, b) ==
  \/ j.ev = {} /\ j.st.seen = b
  \/ /\ j.paired /\ j.dirty
     /\ \E e \in Pair : e \notin Items(b) /\ j.ev = {e} /\ (~j.lost => j.st.seen = Append(b, e))

\* A request under way on the state s0, S being what was presented so far and
\* itself: only a dirty one changed the state, and one that found a pair of its
\* root has it to write or remembers it.
GoodJob(j, S, s0) ==
  /\ j \in Job /\ j.cp \in S /\ S \subseteq Checkpoint
  /\ GoodSt(j.st, S)
  /\ \A e \in j.ev : Genuine(e, S)
  /\ SeenOk(j, s0.seen)
  /\ ~j.dirty => j.st = s0
  /\ j.paired => \E e \in Items(s0.seen) \cup j.ev : e.size = j.cp.size /\ j.cp.root \in e.roots

\* What looking for evidence leaves alone.
SameAnswer(j, k) == k.cp = j.cp /\ k.status = j.status /\ k.new = j.new /\ k.st.prev = j.st.prev

\* Marking a request that found a pair it remembers.
LEMMA JobPaired ==
  ASSUME NEW j \in Job
  PROVE  LET k == [j EXCEPT !.paired = TRUE] IN
         /\ k \in Job /\ k.paired
         /\ k.cp = j.cp /\ k.st = j.st /\ k.ev = j.ev /\ k.status = j.status /\ k.new = j.new /\ k.dirty = j.dirty /\ k.lost = j.lost
BY DEF Job

\* A new pair, in a request.
LEMMA JobProved ==
  ASSUME NEW j \in Job, NEW pair \in Pair
  PROVE  LET k    == Proved(j, pair)
             seen == Append(j.st.seen, pair) IN
         /\ k \in Job /\ k.paired /\ k.dirty
         /\ k.cp = j.cp /\ k.ev = {pair} /\ k.status = j.status /\ k.new = j.new
         /\ k.lost = (j.lost \/ Len(seen) > ProofsSeen)
         /\ k.st.prev = j.st.prev /\ k.st.pending = j.st.pending /\ k.st.ring = j.st.ring
         /\ k.st.seen = Newest(seen, ProofsSeen)
<1> DEFINE seen == Append(j.st.seen, pair)
           n == Newest(seen, ProofsSeen)
           l == Len(seen) > ProofsSeen
           ev == {pair}
           k == Proved(j, pair)
<1>a. n \in Seq(Pair) /\ l \in BOOLEAN /\ ev \in SUBSET Pair
  <2>1. seen \in Seq(Pair)
    <3>1. j.st.seen \in Seq(Pair) BY DEF Job, State
    <3> QED BY <3>1, AppendItems
  <2>2. ProofsSeen \in Nat BY WitnessConstants
  <2>3. l \in BOOLEAN /\ ev \in SUBSET Pair OBVIOUS
  <2>4. n \in Seq(Pair)
    <3> HIDE DEF seen
    <3> QED BY <2>1, <2>2, NewestSeq
  <2> QED BY <2>3, <2>4
<1>b. k = [j EXCEPT !.paired = TRUE, !.ev = ev, !.dirty = TRUE, !.st.seen = n, !.lost = @ \/ l] BY DEF Proved
<1> HIDE DEF n, l, ev, k
<1> DEFINE T == {200, 400, 409, 422}
           E == SUBSET Pair
           W == Seq(Pair)
           P == Checkpoint \cup {NoCp}
           Q == Seq(Pending)
           R == Seq(Refusal)
           St == [prev : P, pending : Q, ring : R, seen : W]
           J == [cp : Checkpoint, st : St, ev : E, paired : BOOLEAN, dirty : BOOLEAN, new : BOOLEAN, status : T, lost : BOOLEAN]
<1>0. Job = J BY DEF Job, State
<1>1. j \in J /\ ev \in E /\ n \in W BY <1>0, <1>a
<1> HIDE DEF T, E, W, P, Q, R
<1>2. k.st = [j.st EXCEPT !.seen = n] /\ j.st \in St BY <1>1, <1>b
<1>3. k.st.prev = j.st.prev /\ k.st.pending = j.st.pending /\ k.st.ring = j.st.ring /\ k.st.seen = n BY <1>2
<1>4. k \in J BY <1>1, <1>a, <1>b
<1>5. k.paired /\ k.dirty /\ k.cp = j.cp /\ k.ev = ev /\ k.status = j.status /\ k.new = j.new /\ k.lost = (j.lost \/ l)
  BY <1>1, <1>b
<1> QED BY <1>0, <1>3, <1>4, <1>5 DEF k, n, l, ev

\* _proof records a genuine pair, once.
LEMMA ProofGood ==
  ASSUME NEW S, NEW s0, NEW j, NEW rival, GoodJob(j, S, s0), j.ev = {}, j.st.seen = s0.seen,
         rival.cp \in S, rival.kept \in BOOLEAN, rival.cp.size = j.cp.size, rival.cp.root # j.cp.root
  PROVE  /\ GoodJob(Proof(j, rival), S, s0) /\ SameAnswer(j, Proof(j, rival))
         /\ Proof(j, rival).st.pending = j.st.pending /\ Proof(j, rival).st.ring = j.st.ring
         /\ Proof(j, rival).paired /\ (~ Proof(j, rival).lost => ~ j.lost)
<1> DEFINE pair == PairOf(j.cp, rival)
           seen == Append(j.st.seen, pair)
<1>0. j \in Job /\ j.st \in State /\ j.cp \in Checkpoint /\ rival.cp \in Checkpoint BY DEF GoodJob, GoodSt
<1>1. pair \in Pair BY <1>0 DEF Pair, Checkpoint, PairOf
<1>2. Genuine(pair, S)
  <2>1. Cardinality({rival.cp.root, j.cp.root}) = 2
    <3>1. Cardinality({rival.cp.root}) = 1 /\ IsFiniteSet({rival.cp.root}) BY FS_Singleton
    <3>2. {rival.cp.root, j.cp.root} = {rival.cp.root} \cup {j.cp.root} OBVIOUS
    <3>3. j.cp.root \notin {rival.cp.root} OBVIOUS
    <3>4. Cardinality({rival.cp.root} \cup {j.cp.root}) = Cardinality({rival.cp.root}) + 1 BY <3>1, <3>3, FS_AddElement
    <3> QED BY <3>1, <3>2, <3>4
  <2>2. ASSUME NEW c \in Checkpoint PROVE [size |-> c.size, root |-> c.root] = c BY DEF Checkpoint
  <2>3. [size |-> j.cp.size, root |-> rival.cp.root] = rival.cp BY <1>0, <2>2
  <2>4. [size |-> j.cp.size, root |-> j.cp.root] = j.cp BY <1>0, <2>2
  <2>5. j.cp \in S BY DEF GoodJob
  <2> QED BY <2>1, <2>3, <2>4, <2>5 DEF Genuine, PairOf
<1>3. seen \in Seq(Pair) BY <1>0, <1>1, AppendItems DEF State
<1>4. ProofsSeen \in Nat BY WitnessConstants
<1>5. /\ Newest(seen, ProofsSeen) \in Seq(Pair) /\ Len(Newest(seen, ProofsSeen)) <= ProofsSeen
      /\ Len(seen) <= ProofsSeen => Newest(seen, ProofsSeen) = seen
  BY <1>3, <1>4, NewestSeq
<1>6. Len(seen) \in Nat BY <1>3, LenProperties
<1>7. CASE pair \in Items(j.st.seen)
  <2>1. Proof(j, rival) = [j EXCEPT !.paired = TRUE] BY <1>7 DEF Proof
  <2> DEFINE k == [j EXCEPT !.paired = TRUE]
  <2>2. /\ k \in Job /\ k.paired /\ k.cp = j.cp /\ k.st = j.st /\ k.ev = j.ev /\ k.status = j.status /\ k.new = j.new
        /\ k.dirty = j.dirty /\ k.lost = j.lost
    BY <1>0, JobPaired
  <2>3. Proof(j, rival) = k BY <2>1
  <2>4. \E e \in Items(s0.seen) \cup k.ev : e.size = k.cp.size /\ k.cp.root \in e.roots
    <3>1. pair.size = j.cp.size /\ j.cp.root \in pair.roots BY DEF PairOf
    <3> HIDE DEF pair, k
    <3> QED BY <1>7, <2>2, <3>1
  <2> HIDE DEF k
  <2> QED BY <2>2, <2>3, <2>4 DEF GoodJob, SeenOk, SameAnswer
<1>8. CASE pair \notin Items(j.st.seen)
  <2> DEFINE n == Newest(seen, ProofsSeen)
             l == Len(seen) > ProofsSeen
             k == Proved(j, pair)
  <2>1. Proof(j, rival) = k BY <1>8 DEF Proof
  <2>2. ~ l => n = Append(s0.seen, pair) BY <1>4, <1>5, <1>6
  <2>3. /\ k \in Job /\ k.paired /\ k.dirty
        /\ k.cp = j.cp /\ k.ev = {pair} /\ k.status = j.status /\ k.new = j.new /\ k.lost = (j.lost \/ l)
        /\ k.st.prev = j.st.prev /\ k.st.pending = j.st.pending /\ k.st.ring = j.st.ring /\ k.st.seen = n
    BY <1>0, <1>1, JobProved
  <2>4. Len(n) <= ProofsSeen BY <1>5
  <2>a. pair.size = j.cp.size /\ j.cp.root \in pair.roots BY DEF PairOf
  <2> HIDE DEF k, n, l, pair
  <2>b. \E e \in Items(s0.seen) \cup k.ev : e.size = k.cp.size /\ k.cp.root \in e.roots BY <2>3, <2>a
  <2>5. k.st \in State BY <2>3 DEF Job
  <2>6. GoodSt(k.st, S) BY <2>3, <2>4, <2>5 DEF GoodJob, GoodSt, Within
  <2>7. SeenOk(k, s0.seen) BY <1>1, <1>8, <2>2, <2>3 DEF SeenOk
  <2> QED BY <1>2, <2>1, <2>3, <2>6, <2>7, <2>b DEF GoodJob, SameAnswer
<1> QED BY <1>7, <1>8

\* The other changes of a request: to the pending roots, to the ring, and the
\* acceptance.
Pended(j, p, d, l)    == [j EXCEPT !.st.pending = p, !.dirty = @ \/ d, !.lost = @ \/ l]
Ringed(j, r, d, l)    == [j EXCEPT !.st.ring = r, !.dirty = @ \/ d, !.lost = @ \/ l]
Accepted(j, p, c, new) == [j EXCEPT !.st.pending = p, !.st.prev = c, !.dirty = TRUE, !.new = new]

\* New pending roots, in a request.
LEMMA JobPended ==
  ASSUME NEW j \in Job, NEW p \in Seq(Pending), NEW d \in BOOLEAN, NEW l \in BOOLEAN
  PROVE  LET k == Pended(j, p, d, l) IN
         /\ k \in Job /\ k.cp = j.cp /\ k.ev = j.ev /\ k.status = j.status /\ k.new = j.new /\ k.paired = j.paired
         /\ k.dirty = (j.dirty \/ d) /\ k.lost = (j.lost \/ l)
         /\ k.st.prev = j.st.prev /\ k.st.pending = p /\ k.st.ring = j.st.ring /\ k.st.seen = j.st.seen
<1> DEFINE T == {200, 400, 409, 422}
           E == SUBSET Pair
           W == Seq(Pair)
           P == Checkpoint \cup {NoCp}
           Q == Seq(Pending)
           R == Seq(Refusal)
           St == [prev : P, pending : Q, ring : R, seen : W]
           J == [cp : Checkpoint, st : St, ev : E, paired : BOOLEAN, dirty : BOOLEAN, new : BOOLEAN, status : T, lost : BOOLEAN]
           k == Pended(j, p, d, l)
<1>0. Job = J BY DEF Job, State
<1>1. j \in J /\ p \in Q BY <1>0
<1>b. k = [j EXCEPT !.st.pending = p, !.dirty = @ \/ d, !.lost = @ \/ l] BY DEF Pended
<1> HIDE DEF T, E, W, P, Q, R, k
<1>2. k.st = [j.st EXCEPT !.pending = p] /\ j.st \in St BY <1>1, <1>b
<1>3. k.st.prev = j.st.prev /\ k.st.pending = p /\ k.st.ring = j.st.ring /\ k.st.seen = j.st.seen BY <1>1, <1>2
<1>4. k \in J BY <1>1, <1>b
<1>5. k.cp = j.cp /\ k.ev = j.ev /\ k.status = j.status /\ k.new = j.new /\ k.paired = j.paired
  BY <1>1, <1>b
<1>6. k.dirty = (j.dirty \/ d) /\ k.lost = (j.lost \/ l) BY <1>1, <1>b
<1> QED BY <1>0, <1>3, <1>4, <1>5, <1>6 DEF k

\* A new ring, in a request.
LEMMA JobRinged ==
  ASSUME NEW j \in Job, NEW r \in Seq(Refusal), NEW d \in BOOLEAN, NEW l \in BOOLEAN
  PROVE  LET k == Ringed(j, r, d, l) IN
         /\ k \in Job /\ k.cp = j.cp /\ k.ev = j.ev /\ k.status = j.status /\ k.new = j.new /\ k.paired = j.paired
         /\ k.dirty = (j.dirty \/ d) /\ k.lost = (j.lost \/ l)
         /\ k.st.prev = j.st.prev /\ k.st.pending = j.st.pending /\ k.st.ring = r /\ k.st.seen = j.st.seen
<1> DEFINE T == {200, 400, 409, 422}
           E == SUBSET Pair
           W == Seq(Pair)
           P == Checkpoint \cup {NoCp}
           Q == Seq(Pending)
           R == Seq(Refusal)
           St == [prev : P, pending : Q, ring : R, seen : W]
           J == [cp : Checkpoint, st : St, ev : E, paired : BOOLEAN, dirty : BOOLEAN, new : BOOLEAN, status : T, lost : BOOLEAN]
           k == Ringed(j, r, d, l)
<1>0. Job = J BY DEF Job, State
<1>1. j \in J /\ r \in R BY <1>0
<1>b. k = [j EXCEPT !.st.ring = r, !.dirty = @ \/ d, !.lost = @ \/ l] BY DEF Ringed
<1> HIDE DEF T, E, W, P, Q, R, k
<1>2. k.st = [j.st EXCEPT !.ring = r] /\ j.st \in St BY <1>1, <1>b
<1>3. k.st.prev = j.st.prev /\ k.st.pending = j.st.pending /\ k.st.ring = r /\ k.st.seen = j.st.seen BY <1>1, <1>2
<1>4. k \in J BY <1>1, <1>b
<1>5. k.cp = j.cp /\ k.ev = j.ev /\ k.status = j.status /\ k.new = j.new /\ k.paired = j.paired
  BY <1>1, <1>b
<1>6. k.dirty = (j.dirty \/ d) /\ k.lost = (j.lost \/ l) BY <1>1, <1>b
<1> QED BY <1>0, <1>3, <1>4, <1>5, <1>6 DEF k

\* The acceptance, in a request.
LEMMA JobAccepted ==
  ASSUME NEW j \in Job, NEW p \in Seq(Pending), NEW c \in Checkpoint, NEW new \in BOOLEAN
  PROVE  LET k == Accepted(j, p, c, new) IN
         /\ k \in Job /\ k.cp = j.cp /\ k.ev = j.ev /\ k.status = j.status /\ k.new = new /\ k.paired = j.paired
         /\ k.dirty /\ k.lost = j.lost
         /\ k.st.prev = c /\ k.st.pending = p /\ k.st.ring = j.st.ring /\ k.st.seen = j.st.seen
<1> DEFINE T == {200, 400, 409, 422}
           E == SUBSET Pair
           W == Seq(Pair)
           P == Checkpoint \cup {NoCp}
           Q == Seq(Pending)
           R == Seq(Refusal)
           St == [prev : P, pending : Q, ring : R, seen : W]
           J == [cp : Checkpoint, st : St, ev : E, paired : BOOLEAN, dirty : BOOLEAN, new : BOOLEAN, status : T, lost : BOOLEAN]
           k == Accepted(j, p, c, new)
<1>0. Job = J BY DEF Job, State
<1>1. j \in J /\ p \in Q /\ c \in P BY <1>0
<1>b. k = [j EXCEPT !.st.pending = p, !.st.prev = c, !.dirty = TRUE, !.new = new] BY DEF Accepted
<1> HIDE DEF T, E, W, P, Q, R, k
<1>2. k.st = [j.st EXCEPT !.pending = p, !.prev = c] /\ j.st \in St BY <1>1, <1>b
<1>3. k.st.prev = c /\ k.st.pending = p /\ k.st.ring = j.st.ring /\ k.st.seen = j.st.seen BY <1>1, <1>2
<1>4. k \in J BY <1>1, <1>b
<1>5. k.cp = j.cp /\ k.ev = j.ev /\ k.status = j.status /\ k.new = new /\ k.paired = j.paired /\ k.dirty /\ k.lost = j.lost
  BY <1>1, <1>b
<1> QED BY <1>0, <1>3, <1>4, <1>5 DEF k

\* States that agree in everything are the same.
LEMMA SameState ==
  ASSUME NEW s \in State, NEW t \in State, s.prev = t.prev, s.pending = t.pending, s.ring = t.ring, s.seen = t.seen
  PROVE  s = t
<1> DEFINE W == Seq(Pair)
           P == Checkpoint \cup {NoCp}
           Q == Seq(Pending)
           R == Seq(Refusal)
<1>1. s \in [prev : P, pending : Q, ring : R, seen : W] /\ t \in [prev : P, pending : Q, ring : R, seen : W] BY DEF State
<1> HIDE DEF W, P, Q, R
<1> QED BY <1>1

\* Replacing the pending roots or the ring of a request by roots of S within the
\* bounds keeps the request good.
LEMMA PendedGood ==
  ASSUME NEW S, NEW s0, NEW j, GoodJob(j, S, s0), NEW p \in Seq(Pending), NEW d \in BOOLEAN, NEW l \in BOOLEAN,
         Len(p) <= Ring, NotesKept(p) <= PendingKept, \A e \in Items(p) : e.cp \in S, ~d => p = j.st.pending
  PROVE  LET k == Pended(j, p, d, l) IN
         /\ GoodJob(k, S, s0) /\ SameAnswer(j, k)
         /\ k.paired = j.paired /\ k.lost = (j.lost \/ l) /\ k.st.pending = p /\ k.st.ring = j.st.ring
<1> DEFINE k == Pended(j, p, d, l)
<1>0. j \in Job BY DEF GoodJob
<1>1. /\ k \in Job /\ k.cp = j.cp /\ k.ev = j.ev /\ k.status = j.status /\ k.new = j.new /\ k.paired = j.paired
      /\ k.dirty = (j.dirty \/ d) /\ k.lost = (j.lost \/ l)
      /\ k.st.prev = j.st.prev /\ k.st.pending = p /\ k.st.ring = j.st.ring /\ k.st.seen = j.st.seen
  BY <1>0, JobPended
<1> HIDE DEF k
<1>2. k.st \in State BY <1>1 DEF Job
<1>3. GoodSt(k.st, S) BY <1>1, <1>2 DEF GoodJob, GoodSt, Within
<1>4. SeenOk(k, s0.seen) BY <1>1 DEF GoodJob, SeenOk
<1>5. ~ k.dirty => k.st = s0
  <2>1. ASSUME ~ k.dirty PROVE k.st = j.st
    <3>1. p = j.st.pending BY <1>1, <2>1
    <3>2. j.st \in State BY <1>0 DEF Job
    <3> QED BY <1>1, <1>2, <3>1, <3>2, SameState
  <2> QED BY <1>1, <2>1 DEF GoodJob
<1>6. k.paired => \E e \in Items(s0.seen) \cup k.ev : e.size = k.cp.size /\ k.cp.root \in e.roots BY <1>1 DEF GoodJob
<1>7. GoodJob(k, S, s0) /\ SameAnswer(j, k) BY <1>1, <1>3, <1>4, <1>5, <1>6 DEF GoodJob, SameAnswer
<1> QED BY <1>1, <1>7 DEF k

\* The same for the ring.
LEMMA RingedGood ==
  ASSUME NEW S, NEW s0, NEW j, GoodJob(j, S, s0), NEW r \in Seq(Refusal), NEW d \in BOOLEAN, NEW l \in BOOLEAN,
         Len(r) <= Ring, \A e \in Items(r) : e.cp \in S, ~d => r = j.st.ring
  PROVE  LET k == Ringed(j, r, d, l) IN
         /\ GoodJob(k, S, s0) /\ SameAnswer(j, k)
         /\ k.paired = j.paired /\ k.lost = (j.lost \/ l)
         /\ k.ev = j.ev /\ k.st.seen = j.st.seen /\ k.st.pending = j.st.pending /\ k.st.ring = r
<1> DEFINE k == Ringed(j, r, d, l)
<1>0. j \in Job BY DEF GoodJob
<1>1. /\ k \in Job /\ k.cp = j.cp /\ k.ev = j.ev /\ k.status = j.status /\ k.new = j.new /\ k.paired = j.paired
      /\ k.dirty = (j.dirty \/ d) /\ k.lost = (j.lost \/ l)
      /\ k.st.prev = j.st.prev /\ k.st.pending = j.st.pending /\ k.st.ring = r /\ k.st.seen = j.st.seen
  BY <1>0, JobRinged
<1> HIDE DEF k
<1>2. k.st \in State BY <1>1 DEF Job
<1>3. GoodSt(k.st, S) BY <1>1, <1>2 DEF GoodJob, GoodSt, Within
<1>4. SeenOk(k, s0.seen) BY <1>1 DEF GoodJob, SeenOk
<1>5. ~ k.dirty => k.st = s0
  <2>1. ASSUME ~ k.dirty PROVE k.st = j.st
    <3>1. r = j.st.ring BY <1>1, <2>1
    <3>2. j.st \in State BY <1>0 DEF Job
    <3> QED BY <1>1, <1>2, <3>1, <3>2, SameState
  <2> QED BY <1>1, <2>1 DEF GoodJob
<1>6. k.paired => \E e \in Items(s0.seen) \cup k.ev : e.size = k.cp.size /\ k.cp.root \in e.roots BY <1>1 DEF GoodJob
<1>7. GoodJob(k, S, s0) /\ SameAnswer(j, k) BY <1>1, <1>3, <1>4, <1>5, <1>6 DEF GoodJob, SameAnswer
<1> QED BY <1>1, <1>7 DEF k

\* The rival that is named is one of the rivals.
LEMMA PartnerIsRival ==
  ASSUME NEW T, NEW s \in Seq(T), NEW rivals \in SUBSET (1..Len(s)), rivals # {}
  PROVE  Partner(s, rivals).kept \in BOOLEAN /\ \E i \in rivals : Partner(s, rivals).cp = s[i].cp
<1> DEFINE kept == {s[i].cp : i \in {k \in rivals : s[k].kept}}
           best == {i \in rivals : kept = {} \/ s[i].cp \in kept}
<1>1. Partner(s, rivals) = [cp |-> s[First(best)].cp, kept |-> kept # {}] BY DEF Partner
<1>2. best # {}
  <2>1. CASE kept = {} BY <2>1
  <2>2. CASE kept # {}
    <3>1. PICK i \in rivals : s[i].kept BY <2>2
    <3>2. s[i].cp \in kept BY <3>1
    <3> HIDE DEF kept
    <3> QED BY <3>2
  <2> QED BY <2>1, <2>2
<1>3. best \in SUBSET rivals OBVIOUS
<1> DEFINE any == kept # {}
<1>4. any \in BOOLEAN OBVIOUS
<1>5. Partner(s, rivals) = [cp |-> s[First(best)].cp, kept |-> any] BY <1>1
<1> HIDE DEF kept, best, any
<1>6. best \in SUBSET Nat BY <1>3, LenProperties
<1>7. First(best) \in best BY <1>2, <1>6, FirstLeast
<1>8. Partner(s, rivals).cp = s[First(best)].cp /\ Partner(s, rivals).kept = any BY <1>5
<1>9. First(best) \in rivals BY <1>3, <1>7
<1> QED BY <1>4, <1>8, <1>9

\* A pending root joins the others, and may prove a split view.
LEMMA NoteFutureGood ==
  ASSUME NEW S, NEW s0, NEW j, GoodJob(j, S, s0), j.ev = {}, j.st.seen = s0.seen, NEW small \in BOOLEAN
  PROVE  LET k == NoteFuture(j, small) IN
         /\ GoodJob(k, S, s0) /\ SameAnswer(j, k)
         /\ k.st.ring = j.st.ring
         /\ ~ k.lost => k.st.pending = Remember(j.st.pending, j.cp, small)
         /\ Rivals(j.st.pending, j.cp) # {} => k.paired
<1> DEFINE p == j.st.pending
           rivals == Rivals(p, j.cp)
           met  == IF rivals = {} THEN j ELSE Proof(j, Partner(p, rivals))
           more == Remember(p, j.cp, small)
           kept == Evict(more)
           d == kept # p \/ kept # more
           l == kept # more
           k == Pended(met, kept, d, l)
<1>0. j \in Job /\ p \in Seq(Pending) /\ j.cp \in Checkpoint /\ j.cp \in S BY DEF GoodJob, Job, State
<1>1. NoteFuture(j, small) = k BY DEF NoteFuture, Pended
<1>2. /\ GoodJob(met, S, s0) /\ SameAnswer(j, met) /\ met.st.pending = p /\ met.st.ring = j.st.ring
      /\ rivals # {} => met.paired
  <2>1. CASE rivals = {} BY <2>1 DEF SameAnswer
  <2>2. CASE rivals # {}
    <3> DEFINE rival == Partner(p, rivals)
    <3>1. rivals \in SUBSET (1..Len(p)) BY DEF Rivals
    <3>2. rival.kept \in BOOLEAN /\ \E i \in rivals : rival.cp = p[i].cp
      <4> HIDE DEF rivals, p
      <4> QED BY <1>0, <2>2, <3>1, PartnerIsRival
    <3>3. PICK i \in rivals : rival.cp = p[i].cp BY <3>2
    <3>4. i \in 1..Len(p) /\ p[i].cp.size = j.cp.size /\ p[i].cp.root # j.cp.root BY DEF Rivals
    <3>5. p[i].cp \in S BY <3>4 DEF GoodJob, GoodSt, Items
    <3>6. met = Proof(j, rival) BY <2>2
    <3>7. rival.cp \in S /\ rival.cp.size = j.cp.size /\ rival.cp.root # j.cp.root BY <3>3, <3>4, <3>5
    <3> HIDE DEF rival, met
    <3>8. /\ GoodJob(Proof(j, rival), S, s0) /\ SameAnswer(j, Proof(j, rival)) /\ Proof(j, rival).paired
          /\ Proof(j, rival).st.pending = p /\ Proof(j, rival).st.ring = j.st.ring
      BY <3>2, <3>7, ProofGood
    <3> QED BY <3>6, <3>8
  <2> QED BY <2>1, <2>2
<1>3. more \in Seq(Pending) /\ \A e \in Items(more) : e.cp \in S
  <2>1. more \in Seq(Pending) /\ Cps(more) = Cps(p) \cup {j.cp} BY <1>0, RememberSeq
  <2>2. \A f \in Items(p) : f.cp \in S BY DEF GoodJob, GoodSt
  <2> HIDE DEF more
  <2> QED BY <1>0, <2>1, <2>2 DEF Cps
<1>4. /\ kept \in Seq(Pending) /\ Len(kept) <= Ring /\ NotesKept(kept) <= PendingKept
      /\ \A e \in Items(kept) : e.cp \in S
  <2> HIDE DEF more
  <2>1. kept \in Seq(Pending) /\ Len(kept) <= Ring /\ NotesKept(kept) <= PendingKept /\ Items(kept) \subseteq Items(more)
    BY <1>3, EvictFits
  <2> QED BY <1>3, <2>1
<1>5. d \in BOOLEAN /\ l \in BOOLEAN /\ (~ d => kept = met.st.pending) /\ (~ l => kept = more) BY <1>2
<1> HIDE DEF met, kept, d, l
<1>6. /\ GoodJob(k, S, s0) /\ SameAnswer(met, k)
      /\ k.paired = met.paired /\ k.lost = (met.lost \/ l) /\ k.st.pending = kept /\ k.st.ring = met.st.ring
  BY <1>2, <1>4, <1>5, PendedGood
<1> HIDE DEF k
<1>7. SameAnswer(j, k) BY <1>2, <1>6 DEF SameAnswer
<1>8. ~ k.lost => k.st.pending = more BY <1>5, <1>6
<1>9. rivals # {} => k.paired BY <1>2, <1>6
<1> QED BY <1>1, <1>2, <1>6, <1>7, <1>8, <1>9

\* The history holds cosigned checkpoints and unreadable lines.
HistoryOk(S) ==
  history \in Seq(Checkpoint \cup {NoCp}) /\ \A c \in Items(history) : c = NoCp \/ c \in S

\* The ring after a refusal: within its bound, of the roots presented, unchanged
\* when the refusal is in it, and without loss when it fits.
LEMMA RingGood ==
  ASSUME NEW S, NEW st, GoodSt(st, S), NEW entry \in Refusal, entry.cp \in S
  PROVE  LET ring == IF entry \in Items(st.ring) THEN st.ring ELSE Append(st.ring, entry) IN
         /\ Newest(ring, Ring) \in Seq(Refusal) /\ Len(Newest(ring, Ring)) <= Ring
         /\ \A e \in Items(Newest(ring, Ring)) : e.cp \in S
         /\ ring = st.ring => Newest(ring, Ring) = st.ring
         /\ ~ (Len(ring) > Ring) => Items(Newest(ring, Ring)) = Items(st.ring) \cup {entry}
<1> DEFINE ring == IF entry \in Items(st.ring) THEN st.ring ELSE Append(st.ring, entry)
<1>1. st.ring \in Seq(Refusal) /\ Len(st.ring) <= Ring /\ \A e \in Items(st.ring) : e.cp \in S BY DEF GoodSt, State, Within
<1>2. ring \in Seq(Refusal) /\ Items(ring) = Items(st.ring) \cup {entry}
  <2>1. CASE entry \in Items(st.ring) BY <1>1, <2>1
  <2>2. CASE entry \notin Items(st.ring)
    <3>1. ring = Append(st.ring, entry) BY <2>2
    <3>2. Append(st.ring, entry) \in Seq(Refusal) /\ Items(Append(st.ring, entry)) = Items(st.ring) \cup {entry}
      BY <1>1, AppendItems
    <3> HIDE DEF ring
    <3> QED BY <3>1, <3>2
  <2> QED BY <2>1, <2>2
<1>3. Ring \in Nat BY WitnessConstants
<1> HIDE DEF ring
<1>4. /\ Newest(ring, Ring) \in Seq(Refusal) /\ Len(Newest(ring, Ring)) <= Ring
      /\ Items(Newest(ring, Ring)) \subseteq Items(ring) /\ (Len(ring) <= Ring => Newest(ring, Ring) = ring)
  BY <1>2, <1>3, NewestSeq
<1>5. \A e \in Items(Newest(ring, Ring)) : e.cp \in S BY <1>1, <1>2, <1>4
<1>6. ring = st.ring => Newest(ring, Ring) = st.ring BY <1>1, <1>4
<1>7. Len(ring) \in Nat BY <1>2, LenProperties
<1>8. ~ (Len(ring) > Ring) => Items(Newest(ring, Ring)) = Items(st.ring) \cup {entry} BY <1>2, <1>3, <1>4, <1>7
<1> QED BY <1>4, <1>5, <1>6, <1>8 DEF ring

\* A root the witness knows of, with or without its note.
Known == [cp : Checkpoint \cup {NoCp}, kept : BOOLEAN]

\* What a rollback is compared with, r being the ring and p the pending roots.
KnownSeq(r, p) ==
  LET bare == [i \in 1..Len(r) |-> [cp |-> r[i].cp, kept |-> FALSE]]
      past == [i \in 1..Len(Scanned) |-> [cp |-> Scanned[i], kept |-> TRUE]]
  IN  bare \o p \o past

\* It consists of roots of S, or unreadable lines.
LEMMA KnownGood ==
  ASSUME NEW S, S \subseteq Checkpoint, HistoryOk(S),
         NEW r \in Seq(Refusal), \A e \in Items(r) : e.cp \in S,
         NEW p \in Seq(Pending), \A e \in Items(p) : e.cp \in S
  PROVE  /\ KnownSeq(r, p) \in Seq(Known)
         /\ \A i \in 1..Len(KnownSeq(r, p)) : KnownSeq(r, p)[i].cp = NoCp \/ KnownSeq(r, p)[i].cp \in S
         /\ Cps(KnownSeq(r, p)) = Cps(r) \cup Cps(p) \cup Items(Scanned)
<1> DEFINE bare  == [i \in 1..Len(r) |-> [cp |-> r[i].cp, kept |-> FALSE]]
           past  == [i \in 1..Len(Scanned) |-> [cp |-> Scanned[i], kept |-> TRUE]]
           T == {e \in Known : e.cp = NoCp \/ e.cp \in S}
<1>1. bare \in Seq(T)
  <2>1. Len(r) \in Nat BY LenProperties
  <2>2. \A i \in 1..Len(r) : r[i].cp \in S BY DEF Items
  <2>3. \A i \in 1..Len(r) : [cp |-> r[i].cp, kept |-> FALSE] \in T BY <2>2 DEF Known
  <2> HIDE DEF T
  <2> QED BY <2>1, <2>3, IsASeq
<1>2. past \in Seq(T)
  <2>1. HistoryScan \in Nat BY WitnessConstants
  <2>2. history \in Seq(Checkpoint \cup {NoCp}) BY DEF HistoryOk
  <2>3. Scanned \in Seq(Checkpoint \cup {NoCp}) /\ Items(Scanned) \subseteq Items(history) BY <2>1, <2>2, NewestSeq DEF Scanned
  <2>4. Len(Scanned) \in Nat BY <2>3, LenProperties
  <2>5. \A i \in 1..Len(Scanned) : Scanned[i] \in Items(history) BY <2>3 DEF Items
  <2>6. \A i \in 1..Len(Scanned) : Scanned[i] = NoCp \/ Scanned[i] \in S BY <2>5 DEF HistoryOk
  <2>7. \A i \in 1..Len(Scanned) : [cp |-> Scanned[i], kept |-> TRUE] \in T BY <2>6 DEF Known
  <2> HIDE DEF T
  <2> QED BY <2>4, <2>7, IsASeq
<1>3. p \in Seq(T)
  <2>1. Len(p) \in Nat /\ \A i \in 1..Len(p) : p[i] \in Pending BY LenProperties, ElementOfSeq
  <2>2. \A i \in 1..Len(p) : p[i].cp \in S BY DEF Items
  <2>3. \A i \in 1..Len(p) : p[i] \in T BY <2>1, <2>2 DEF Known, Pending
  <2>4. p = [i \in 1..Len(p) |-> p[i]] BY LenProperties
  <2> HIDE DEF T
  <2> QED BY <2>1, <2>3, <2>4, IsASeq
<1> DEFINE known == bare \o p \o past
<1>4. known \in Seq(T) /\ Items(known) = Items(bare) \cup Items(p) \cup Items(past)
  <2> HIDE DEF bare, past, T
  <2>1. bare \o p \in Seq(T) /\ Items(bare \o p) = Items(bare) \cup Items(p) BY <1>1, <1>3, ConcatItems
  <2> DEFINE front == bare \o p
  <2>2. front \in Seq(T) /\ Items(front) = Items(bare) \cup Items(p) BY <2>1
  <2>3. known = front \o past OBVIOUS
  <2> HIDE DEF front, known
  <2>4. front \o past \in Seq(T) /\ Items(front \o past) = Items(front) \cup Items(past) BY <1>2, <2>2, ConcatItems
  <2> QED BY <2>2, <2>3, <2>4
<1>a. Cps(bare) = Cps(r)
  <2>1. Len(r) \in Nat BY LenProperties
  <2>2. Len(bare) = Len(r) BY <2>1
  <2>3. \A i \in 1..Len(r) : bare[i].cp = r[i].cp OBVIOUS
  <2> HIDE DEF bare
  <2>4. Cps(bare) = {bare[i].cp : i \in 1..Len(r)} BY <2>2 DEF Cps, Items
  <2>5. Cps(r) = {r[i].cp : i \in 1..Len(r)} BY DEF Cps, Items
  <2> QED BY <2>3, <2>4, <2>5
<1>b. Cps(past) = Items(Scanned)
  <2>0. history \in Seq(Checkpoint \cup {NoCp}) /\ HistoryScan \in Nat BY WitnessConstants DEF HistoryOk
  <2>1. Scanned \in Seq(Checkpoint \cup {NoCp}) BY <2>0, NewestSeq DEF Scanned
  <2>2. Len(Scanned) \in Nat BY <2>1, LenProperties
  <2>3. Len(past) = Len(Scanned) BY <2>2
  <2>4. \A i \in 1..Len(Scanned) : past[i].cp = Scanned[i] OBVIOUS
  <2> HIDE DEF past
  <2>5. Cps(past) = {past[i].cp : i \in 1..Len(Scanned)} BY <2>3 DEF Cps, Items
  <2>6. Items(Scanned) = {Scanned[i] : i \in 1..Len(Scanned)} BY DEF Items
  <2> QED BY <2>4, <2>5, <2>6
<1>c. Cps(known) = Cps(r) \cup Cps(p) \cup Items(Scanned)
  <2> HIDE DEF bare, past, known
  <2>1. Cps(known) = Cps(bare) \cup Cps(p) \cup Cps(past) BY <1>4 DEF Cps
  <2> QED BY <1>a, <1>b, <2>1
<1>5. \A i \in 1..Len(known) : known[i] \in T
  <2> HIDE DEF known, T
  <2> QED BY <1>4, ElementOfSeq
<1>6. known \in Seq(Known)
  <2> HIDE DEF known
  <2>1. Len(known) \in Nat /\ known = [i \in 1..Len(known) |-> known[i]] BY <1>4, LenProperties
  <2>2. \A i \in 1..Len(known) : known[i] \in Known BY <1>5
  <2> HIDE DEF T
  <2> QED BY <2>1, <2>2, IsASeq
<1> HIDE DEF known
<1>7. \A i \in 1..Len(known) : known[i].cp = NoCp \/ known[i].cp \in S BY <1>5
<1>8. KnownSeq(r, p) = known BY DEF KnownSeq, known
<1> QED BY <1>6, <1>7, <1>8, <1>c

\* Another root at the size of a request is remembered.
Contradicted(j) ==
  \E c \in Cps(j.st.ring) \cup Cps(j.st.pending) \cup Items(history) : c.size = j.cp.size /\ c.root # j.cp.root

\* A refusal goes into the ring; a rollback proves a split view when a root that
\* is remembered contradicts it.
LEMMA RefusedGood ==
  ASSUME NEW S, NEW s0, NEW j, GoodJob(j, S, s0), HistoryOk(S), NEW tipo \in {"rollback", "unproven-extension"},
         j.cp.size < StoredSize(j.st) => j.ev = {} /\ j.st.seen = s0.seen
  PROVE  LET k == Refused(j, tipo) IN
         /\ GoodJob(k, S, s0) /\ SameAnswer(j, k) /\ k.st.pending = j.st.pending
         /\ j.paired => k.paired
         /\ ~ k.lost => ~ j.lost /\ Cps(k.st.ring) = Cps(j.st.ring) \cup {j.cp}
         /\ ~ k.lost /\ j.cp.size < StoredSize(j.st) /\ Contradicted(j) => k.paired
<1> DEFINE entry == [tipo |-> tipo, cp |-> j.cp]
           ring  == IF entry \in Items(j.st.ring) THEN j.st.ring ELSE Append(j.st.ring, entry)
           new   == Newest(ring, Ring)
           d     == ring # j.st.ring
           l     == Len(ring) > Ring \/ Len(history) > HistoryScan
           noted == Ringed(j, new, d, l)
           r     == noted.st.ring
           bare  == [i \in 1..Len(r) |-> [cp |-> r[i].cp, kept |-> FALSE]]
           past  == [i \in 1..Len(Scanned) |-> [cp |-> Scanned[i], kept |-> TRUE]]
           known == bare \o j.st.pending \o past
           rivals == Rivals(known, j.cp)
           again == j.cp.size < StoredSize(j.st) /\ rivals # {}
           k     == Refused(j, tipo)
<1>0. j \in Job /\ j.cp \in Checkpoint /\ j.cp \in S /\ GoodSt(j.st, S) /\ S \subseteq Checkpoint BY DEF GoodJob
<1>1. k = IF again THEN Proof(noted, Partner(known, rivals)) ELSE noted BY DEF Refused, Ringed
<1> HIDE DEF k
<1>2. /\ new \in Seq(Refusal) /\ Len(new) <= Ring /\ (\A e \in Items(new) : e.cp \in S)
      /\ (~ d => new = j.st.ring)
      /\ ~ l => Items(new) = Items(j.st.ring) \cup {entry}
  <2>1. entry \in Refusal /\ entry.cp \in S BY <1>0 DEF Refusal
  <2> HIDE DEF entry
  <2>2. /\ Newest(ring, Ring) \in Seq(Refusal) /\ Len(Newest(ring, Ring)) <= Ring
        /\ \A e \in Items(Newest(ring, Ring)) : e.cp \in S
        /\ ring = j.st.ring => Newest(ring, Ring) = j.st.ring
        /\ ~ (Len(ring) > Ring) => Items(Newest(ring, Ring)) = Items(j.st.ring) \cup {entry}
    BY <1>0, <2>1, RingGood
  <2> HIDE DEF ring
  <2> QED BY <2>2
<1>3. d \in BOOLEAN /\ l \in BOOLEAN OBVIOUS
<1>a. ~ l => Scanned = history
  <2>1. history \in Seq(Checkpoint \cup {NoCp}) /\ HistoryScan \in Nat BY WitnessConstants DEF HistoryOk
  <2>2. Len(history) \in Nat BY <2>1, LenProperties
  <2>3. Len(history) <= HistoryScan => Newest(history, HistoryScan) = history BY <2>1, NewestSeq
  <2> HIDE DEF ring
  <2> QED BY <2>1, <2>2, <2>3 DEF Scanned
<1>b. entry.cp = j.cp OBVIOUS
<1> HIDE DEF d, l, new, entry
<1>4. /\ GoodJob(noted, S, s0) /\ SameAnswer(j, noted) /\ noted.paired = j.paired /\ noted.lost = (j.lost \/ l)
      /\ noted.ev = j.ev /\ noted.st.seen = j.st.seen /\ noted.st.pending = j.st.pending /\ noted.st.ring = new
  BY <1>2, <1>3, RingedGood
<1> HIDE DEF noted
<1>c. ~ noted.lost => ~ j.lost /\ ~ l /\ Cps(new) = Cps(j.st.ring) \cup {j.cp} BY <1>2, <1>4, <1>b DEF Cps
<1>5. r \in Seq(Refusal) /\ \A e \in Items(r) : e.cp \in S BY <1>2, <1>4
<1>6. j.st.pending \in Seq(Pending) /\ \A e \in Items(j.st.pending) : e.cp \in S BY <1>0 DEF GoodSt, State
<1>7. /\ known \in Seq(Known) /\ (\A i \in 1..Len(known) : known[i].cp = NoCp \/ known[i].cp \in S)
      /\ Cps(known) = Cps(r) \cup Cps(j.st.pending) \cup Items(Scanned)
  <2> DEFINE p == j.st.pending
  <2>1. p \in Seq(Pending) /\ (\A e \in Items(p) : e.cp \in S) BY <1>6
  <2>2. known = KnownSeq(r, p) BY DEF KnownSeq
  <2> HIDE DEF r, p, known
  <2>3. /\ KnownSeq(r, p) \in Seq(Known)
        /\ \A i \in 1..Len(KnownSeq(r, p)) : KnownSeq(r, p)[i].cp = NoCp \/ KnownSeq(r, p)[i].cp \in S
        /\ Cps(KnownSeq(r, p)) = Cps(r) \cup Cps(p) \cup Items(Scanned)
    BY <1>0, <1>5, <2>1, KnownGood
  <2> QED BY <2>2, <2>3 DEF p
<1> HIDE DEF known
<1>8. CASE ~ again
  <2>1. k = noted BY <1>1, <1>8
  <2>2. ASSUME ~ k.lost, j.cp.size < StoredSize(j.st), Contradicted(j) PROVE FALSE
    <3>0. PICK c \in Cps(j.st.ring) \cup Cps(j.st.pending) \cup Items(history) : c.size = j.cp.size /\ c.root # j.cp.root
      BY <2>2 DEF Contradicted
    <3>1. Cps(r) = Cps(j.st.ring) \cup {j.cp} /\ Scanned = history BY <1>4, <1>a, <1>c, <2>1, <2>2
    <3> HIDE DEF r
    <3>2. c \in Cps(known) BY <1>7, <3>1
    <3>3. PICK i \in 1..Len(known) : known[i].cp = c BY <3>2 DEF Cps, Items
    <3>4. i \in rivals BY <3>0, <3>3 DEF Rivals
    <3> QED BY <1>8, <2>2, <3>4
  <2>3. ~ k.lost => ~ j.lost /\ Cps(k.st.ring) = Cps(j.st.ring) \cup {j.cp} BY <1>4, <1>c, <2>1
  <2> QED BY <1>4, <2>1, <2>2, <2>3 DEF k
<1>9. CASE again
  <2> DEFINE rival == Partner(known, rivals)
  <2>1. rivals \in SUBSET (1..Len(known)) BY DEF Rivals
  <2>2. rival.kept \in BOOLEAN /\ \E i \in rivals : rival.cp = known[i].cp
    <3> HIDE DEF rivals
    <3> QED BY <1>7, <1>9, <2>1, PartnerIsRival
  <2>3. PICK i \in rivals : rival.cp = known[i].cp BY <2>2
  <2>4. i \in 1..Len(known) /\ known[i].cp.size = j.cp.size /\ known[i].cp.root # j.cp.root BY DEF Rivals
  <2>5. known[i].cp \in S
    <3>1. j.cp.size \in 0..MaxSize BY <1>0 DEF Checkpoint
    <3>2. known[i].cp # NoCp BY <2>4, <3>1 DEF NoCp
    <3> QED BY <1>7, <2>4, <3>2
  <2>6. noted.cp = j.cp BY <1>4 DEF SameAnswer
  <2>7. rival.cp \in S /\ rival.cp.size = noted.cp.size /\ rival.cp.root # noted.cp.root BY <2>3, <2>4, <2>5, <2>6
  <2>8. noted.ev = {} /\ noted.st.seen = s0.seen BY <1>4, <1>9
  <2>9. k = Proof(noted, rival) BY <1>1, <1>9
  <2> HIDE DEF rival
  <2>10. /\ GoodJob(k, S, s0) /\ SameAnswer(noted, k) /\ k.st.pending = noted.st.pending /\ k.st.ring = noted.st.ring
         /\ k.paired /\ (~ k.lost => ~ noted.lost)
    BY <1>4, <2>2, <2>7, <2>8, <2>9, ProofGood
  <2>11. SameAnswer(j, k) BY <1>4, <2>10 DEF SameAnswer
  <2>12. ~ k.lost => ~ j.lost /\ Cps(k.st.ring) = Cps(j.st.ring) \cup {j.cp} BY <1>4, <1>c, <2>10
  <2> QED BY <1>4, <2>10, <2>11, <2>12 DEF k
<1> QED BY <1>8, <1>9

\* What is looked at before the gate leaves a good request.
LEMMA LookGood ==
  ASSUME NEW S, NEW s0, NEW j, GoodJob(j, S, s0), HistoryOk(S), j.ev = {}, j.st.seen = s0.seen, NEW small \in BOOLEAN
  PROVE  GoodJob(Look(j, small), S, s0) /\ SameAnswer(j, Look(j, small))
<1>0. j \in Job /\ j.cp \in Checkpoint /\ GoodSt(j.st, S) BY DEF GoodJob
<1>1. CASE BadEmpty(j.cp)
  <2>1. Look(j, small) = j BY <1>1 DEF Look
  <2> QED BY <2>1 DEF SameAnswer
<1>2. CASE ~ BadEmpty(j.cp) /\ j.cp.size < j.st.prev.size
  <2>1. Look(j, small) = Refused(j, "rollback") BY <1>2 DEF Look
  <2> QED BY <2>1, RefusedGood
<1> DEFINE split == j.cp.size = j.st.prev.size /\ j.cp.root # j.st.prev.root
<1>3. CASE ~ BadEmpty(j.cp) /\ ~ (j.cp.size < j.st.prev.size) /\ split
  <2> DEFINE rival == [cp |-> j.st.prev, kept |-> TRUE]
  <2>1. Look(j, small) = Proof(j, rival) BY <1>3 DEF Look
  <2>2. j.st.prev # NoCp
    <3>1. j.cp.size \in 0..MaxSize BY <1>0 DEF Checkpoint
    <3> QED BY <1>3, <3>1 DEF NoCp
  <2>3. j.st.prev \in S BY <1>0, <2>2 DEF GoodSt
  <2>4. rival.cp \in S /\ rival.kept \in BOOLEAN /\ rival.cp.size = j.cp.size /\ rival.cp.root # j.cp.root BY <1>3, <2>3
  <2> HIDE DEF rival
  <2>5. GoodJob(Proof(j, rival), S, s0) /\ SameAnswer(j, Proof(j, rival)) BY <2>4, ProofGood
  <2> QED BY <2>1, <2>5
<1>4. CASE ~ BadEmpty(j.cp) /\ ~ (j.cp.size < j.st.prev.size) /\ ~ split
  <2>1. CASE j.cp.size > StoredSize(j.st)
    <3>1. Look(j, small) = NoteFuture(j, small) BY <1>4, <2>1 DEF Look
    <3> QED BY <3>1, NoteFutureGood
  <2>2. CASE ~ (j.cp.size > StoredSize(j.st))
    <3>1. Look(j, small) = j BY <1>4, <2>2 DEF Look
    <3> QED BY <3>1 DEF SameAnswer
  <2> QED BY <2>1, <2>2
<1> QED BY <1>1, <1>2, <1>3, <1>4

\* Leaving pending roots out does not add notes.
LEMMA KeepNotes ==
  ASSUME NEW p \in Seq(Pending), NEW I \in SUBSET (1..Len(p))
  PROVE  NotesKept(Keep(p, I)) <= NotesKept(p) /\ NotesKept(p) \in Nat /\ NotesKept(Keep(p, I)) \in Nat
<1> DEFINE K == {i \in 1..Len(p) : p[i].kept}
           A == {m \in 1..Len(Keep(p, I)) : Keep(p, I)[m].kept}
<1>0. Len(p) \in Nat BY LenProperties
<1>1. /\ Keep(p, I) \in Seq(Pending)
      /\ \A m \in 1..Len(Keep(p, I)) : Nth(I, m) \in I /\ Keep(p, I)[m] = p[Nth(I, m)]
  BY KeepSeq
<1>2. Len(Keep(p, I)) \in Nat BY <1>1, LenProperties
<1>3. \A m \in A : Nth(I, m) \in K BY <1>1
<1>4. A \in SUBSET (1..Len(Keep(p, I))) /\ K \in SUBSET (1..Len(p)) OBVIOUS
<1>5. NotesKept(p) = Cardinality(K) /\ NotesKept(Keep(p, I)) = Cardinality(A) BY DEF NotesKept
<1> HIDE DEF A, K
<1>6. Cardinality(A) <= Cardinality(I \cap K) BY <1>3, <1>4, KeepCount
<1>7. IsFiniteSet(K) /\ Cardinality(K) \in Nat BY <1>0, <1>4, IndexSetFinite
<1>8. Cardinality(A) \in Nat BY <1>2, <1>4, IndexSetFinite
<1>9. Cardinality(I \cap K) \in Nat BY <1>0, <1>4, IndexSetFinite
<1>10. Cardinality(I \cap K) <= Cardinality(K) BY <1>7, FS_Subset
<1> QED BY <1>5, <1>6, <1>7, <1>8, <1>9, <1>10

\* The acceptance k of a request j stores its checkpoint and forgets no pending
\* root of another size.
Stores(j, k) ==
  /\ k.cp = j.cp /\ k.status = j.status /\ k.st.prev = j.cp /\ k.dirty
  /\ k.new = (j.cp # j.st.prev) /\ k.st.ring = j.st.ring /\ (j.paired => k.paired) /\ (~ k.lost => ~ j.lost)
  /\ \A c \in Cps(j.st.pending) : c.size # j.cp.size => c \in Cps(k.st.pending)

\* An acceptance stores the checkpoint, and may prove a split view.
LEMMA AcceptGood ==
  ASSUME NEW S, NEW s0, NEW j, GoodJob(j, S, s0), j.cp.size = Len(j.cp.root)
  PROVE  GoodJob(Accept(j), S, s0) /\ Stores(j, Accept(j))
<1> DEFINE p == j.st.pending
           rivals == Rivals(p, j.cp)
           met  == IF j.paired \/ rivals = {} THEN j ELSE Proof(j, p[First(rivals)])
           I    == {i \in 1..Len(p) : p[i].cp.size # j.cp.size}
           rest == Keep(p, I)
           new  == j.cp # j.st.prev
           k    == Accepted(met, rest, j.cp, new)
<1>0. j \in Job /\ p \in Seq(Pending) /\ j.cp \in Checkpoint /\ j.cp \in S /\ GoodSt(j.st, S) BY DEF GoodJob, Job, State
<1>1. Accept(j) = k BY DEF Accept, Accepted
<1>2. GoodJob(met, S, s0) /\ SameAnswer(j, met) /\ met.st.ring = j.st.ring /\ (j.paired => met.paired) /\ (~ met.lost => ~ j.lost)
  <2>1. CASE j.paired \/ rivals = {} BY <2>1 DEF SameAnswer
  <2>2. CASE ~ j.paired /\ rivals # {}
    <3> DEFINE rival == p[First(rivals)]
    <3>1. rivals \in SUBSET (1..Len(p)) BY DEF Rivals
    <3>2. rivals \in SUBSET Nat BY <3>1
    <3>3. First(rivals) \in rivals
      <4> HIDE DEF rivals
      <4> QED BY <2>2, <3>2, FirstLeast
    <3>4. First(rivals) \in 1..Len(p) /\ rival.cp.size = j.cp.size /\ rival.cp.root # j.cp.root BY <3>3 DEF Rivals
    <3>5. rival.cp \in S /\ rival.kept \in BOOLEAN
      <4>1. rival \in Pending BY <1>0, <3>4, ElementOfSeq
      <4>2. rival \in Items(p) BY <3>4 DEF Items
      <4> HIDE DEF rival
      <4> QED BY <1>0, <4>1, <4>2 DEF GoodSt, Pending
    <3>6. j.ev = {} /\ j.st.seen = s0.seen BY <2>2 DEF GoodJob, SeenOk
    <3>7. met = Proof(j, rival) BY <2>2
    <3> HIDE DEF rival, met, k, rest, new, I, rivals, p
    <3>8. /\ GoodJob(Proof(j, rival), S, s0) /\ SameAnswer(j, Proof(j, rival)) /\ Proof(j, rival).st.ring = j.st.ring
          /\ Proof(j, rival).paired /\ (~ Proof(j, rival).lost => ~ j.lost)
      BY <3>4, <3>5, <3>6, ProofGood
    <3> QED BY <3>7, <3>8
  <2> QED BY <2>1, <2>2
<1>3. met \in Job /\ GoodSt(met.st, S) BY <1>2 DEF GoodJob
<1>4. /\ rest \in Seq(Pending) /\ Len(rest) <= Ring /\ NotesKept(rest) <= PendingKept
      /\ \A e \in Items(rest) : e.cp \in S
      /\ \A c \in Cps(p) : c.size # j.cp.size => c \in Cps(rest)
  <2>a. ASSUME NEW c \in Cps(p), c.size # j.cp.size PROVE c \in Cps(rest)
    <3>1. PICK i \in 1..Len(p) : p[i].cp = c BY DEF Cps, Items
    <3>2. i \in I /\ I \in SUBSET (1..Len(p)) BY <2>a, <3>1
    <3> HIDE DEF I
    <3>3. p[i] \in Items(rest) BY <1>0, <3>2, KeepAll
    <3> QED BY <3>1, <3>3 DEF Cps
  <2>0. I \in SUBSET (1..Len(p)) OBVIOUS
  <2> HIDE DEF I
  <2>1. rest \in Seq(Pending) /\ Len(rest) <= Len(p) /\ Items(rest) \subseteq Items(p) BY <1>0, <2>0, KeepSeq
  <2>2. NotesKept(rest) <= NotesKept(p) /\ NotesKept(p) \in Nat /\ NotesKept(rest) \in Nat BY <1>0, <2>0, KeepNotes
  <2>3. Len(p) <= Ring /\ NotesKept(p) <= PendingKept /\ \A e \in Items(p) : e.cp \in S BY <1>0 DEF GoodSt, Within
  <2>4. Len(p) \in Nat /\ Len(rest) \in Nat BY <1>0, <2>1, LenProperties
  <2> HIDE DEF rest, p
  <2> QED BY <2>1, <2>2, <2>3, <2>4, <2>a, WitnessConstants
<1>5. new \in BOOLEAN /\ new = (j.cp # j.st.prev) OBVIOUS
<1> HIDE DEF met, rest, new
<1>6. /\ k \in Job /\ k.cp = met.cp /\ k.ev = met.ev /\ k.status = met.status /\ k.paired = met.paired /\ k.new = new
      /\ k.dirty /\ k.lost = met.lost
      /\ k.st.prev = j.cp /\ k.st.pending = rest /\ k.st.ring = met.st.ring /\ k.st.seen = met.st.seen
  <2>1. met \in Job /\ rest \in Seq(Pending) /\ j.cp \in Checkpoint /\ new \in BOOLEAN BY <1>0, <1>3, <1>4, <1>5
  <2> QED BY <2>1, JobAccepted
<1> HIDE DEF k
<1>7. k.st \in State BY <1>6 DEF Job
<1>8. GoodSt(k.st, S) BY <1>0, <1>3, <1>4, <1>6, <1>7 DEF GoodSt, Within
<1>9. SeenOk(k, s0.seen) BY <1>2, <1>6 DEF GoodJob, SeenOk
<1>a. k.paired => \E e \in Items(s0.seen) \cup k.ev : e.size = k.cp.size /\ k.cp.root \in e.roots BY <1>2, <1>6 DEF GoodJob
<1>10. GoodJob(k, S, s0) BY <1>2, <1>6, <1>8, <1>9, <1>a DEF GoodJob, SameAnswer
<1>11. k.cp = j.cp /\ k.status = j.status BY <1>2, <1>6 DEF SameAnswer
<1>12. k.new = (j.cp # j.st.prev) /\ k.st.ring = j.st.ring /\ (j.paired => k.paired) /\ (~ k.lost => ~ j.lost)
  BY <1>2, <1>5, <1>6
<1>13. \A c \in Cps(j.st.pending) : c.size # j.cp.size => c \in Cps(k.st.pending) BY <1>4, <1>6
<1> QED BY <1>1, <1>6, <1>10, <1>11, <1>12, <1>13 DEF Stores

-----------------------------------------------------------------------------
(* Answers *)

\* A tree is a prefix of another when it has the same leaves up to its size.
LEMMA PrefixIff ==
  ASSUME NEW S, NEW s \in Seq(S), NEW t \in Seq(S)
  PROVE  IsPrefix(s, t) <=> Len(s) <= Len(t) /\ \A k \in 1..Len(s) : s[k] = t[k]
<1> DEFINE n == Len(s)
<1>1. n \in Nat /\ Len(t) \in Nat BY LenProperties
<1>2. CASE n <= Len(t)
  <2>1. SubSeq(s, 1, n) = [k \in 1..n |-> s[k]] BY <1>1
  <2>2. SubSeq(t, 1, n) = [k \in 1..n |-> t[k]] BY <1>1
  <2> QED BY <1>2, <2>1, <2>2 DEF IsPrefix
<1>3. CASE ~ (n <= Len(t)) BY <1>3 DEF IsPrefix
<1> QED BY <1>2, <1>3

\* A tree extends itself.
LEMMA PrefixRefl ==
  ASSUME NEW S, NEW s \in Seq(S)
  PROVE  IsPrefix(s, s)
BY PrefixIff, LenProperties

\* An extension of an extension is an extension.
LEMMA PrefixTrans ==
  ASSUME NEW S, NEW r \in Seq(S), NEW s \in Seq(S), NEW t \in Seq(S), IsPrefix(r, s), IsPrefix(s, t)
  PROVE  IsPrefix(r, t)
<1>1. Len(r) \in Nat /\ Len(s) \in Nat /\ Len(t) \in Nat BY LenProperties
<1>2. Len(r) <= Len(s) /\ \A k \in 1..Len(r) : r[k] = s[k] BY PrefixIff
<1>3. Len(s) <= Len(t) /\ \A k \in 1..Len(s) : s[k] = t[k] BY PrefixIff
<1>4. \A k \in 1..Len(r) : r[k] = t[k] BY <1>1, <1>2, <1>3
<1>5. Len(r) <= Len(t) BY <1>1, <1>2, <1>3
<1> QED BY <1>4, <1>5, PrefixIff

\* A root is a sequence of leaves.
LEMMA RootSeq ==
  ASSUME NEW root \in Roots
  PROVE  root \in Seq(Leaves)
<1>1. PICK n \in 0..MaxSize : root \in [1..n -> Leaves] BY DEF Roots
<1>2. n \in Nat BY <1>1, WitnessConstants
<1>3. root = [i \in 1..n |-> root[i]] /\ \A i \in 1..n : root[i] \in Leaves BY <1>1
<1> QED BY <1>2, <1>3, IsASeq

\* What is cosigned is a real checkpoint and an extension of the stored one.
LEMMA StatusExtends ==
  ASSUME NEW S, NEW st, GoodSt(st, S), S \subseteq Checkpoint, NEW r \in Request, Status(st, r) = 200
  PROVE  /\ r.cp.size = Len(r.cp.root)
         /\ st.prev # NoCp => IsPrefix(st.prev.root, r.cp.root)
<1>0. r.cp \in Presentable /\ r.cp \in Checkpoint BY DEF Request, Presentable
<1>1. r.cp.root \in Seq(Leaves) BY <1>0, RootSeq DEF Checkpoint
<1>2. ~ BadEmpty(r.cp) /\ ~ (r.cp.size < st.prev.size)
  BY DEF Status
<1>3. ~ (r.cp.size = st.prev.size /\ r.cp.root # st.prev.root) BY DEF Status
<1>4. StoredSize(st) = 0 \/ r.cp.size = st.prev.size \/ Extends(st, r) BY DEF Status
<1>5. r.cp.size = Len(r.cp.root)
  <2>1. CASE r.cp.size = 0 /\ Len(r.cp.root) = 1
    <3>1. r.cp.root = << >> BY <1>2, <2>1 DEF BadEmpty
    <3> QED BY <2>1, <3>1
  <2> QED BY <1>0, <2>1 DEF Presentable
<1>6. ASSUME st.prev # NoCp PROVE IsPrefix(st.prev.root, r.cp.root)
  <2>1. st.prev \in Checkpoint /\ st.prev.size = Len(st.prev.root) BY <1>6 DEF GoodSt
  <2>2. st.prev.root \in Seq(Leaves) BY <2>1, RootSeq DEF Checkpoint
  <2>3. StoredSize(st) = st.prev.size BY <1>6 DEF StoredSize
  <2>4. CASE Len(st.prev.root) = 0
    <3>1. \A k \in 1..Len(st.prev.root) : st.prev.root[k] = r.cp.root[k] BY <2>4
    <3>2. Len(st.prev.root) <= Len(r.cp.root) BY <1>1, <2>4, LenProperties
    <3> QED BY <1>1, <2>2, <3>1, <3>2, PrefixIff
  <2>5. CASE r.cp.size = st.prev.size
    <3>1. r.cp.root = st.prev.root BY <1>3, <2>5
    <3> QED BY <1>1, <3>1, PrefixRefl
  <2>6. CASE Extends(st, r) BY <2>6 DEF Extends
  <2> QED BY <1>4, <2>1, <2>3, <2>4, <2>5, <2>6
<1> QED BY <1>5, <1>6

\* What _cosign_locked decides.
LEMMA OutcomeGood ==
  ASSUME NEW S, GoodSt(state, S), HistoryOk(S), S \subseteq Checkpoint, NEW r \in Request, r.cp \in S
  PROVE  LET k == Outcome(r) IN
         /\ GoodJob(k, S, state) /\ k.cp = r.cp
         /\ k.status = 200 => k.st.prev = k.cp /\ k.dirty /\ (state.prev # NoCp => IsPrefix(state.prev.root, k.cp.root))
         /\ k.status # 200 => k.st.prev = state.prev
<1> DEFINE blank == [cp |-> r.cp, st |-> state, ev |-> {}, paired |-> FALSE, dirty |-> FALSE,
                     new |-> FALSE, status |-> Status(state, r), lost |-> FALSE]
           j == Decide(blank, r)
           unproven == /\ j.status = 422 /\ ~BadEmpty(r.cp)
                       /\ StoredSize(state) > 0 /\ r.cp.size > state.prev.size
           k == Outcome(r)
<1>0. r.cp \in Checkpoint /\ r.small \in BOOLEAN BY WitnessConstants DEF Request
<1>1. state \in State BY DEF GoodSt
<1>2. Status(state, r) \in {200, 400, 409, 422} BY DEF Status
<1>3. blank \in Job BY <1>0, <1>1, <1>2 DEF Job
<1>4. blank.cp = r.cp /\ blank.st = state /\ blank.ev = {} /\ blank.status = Status(state, r) /\ ~ blank.paired OBVIOUS
<1> HIDE DEF blank
<1>5. GoodJob(blank, S, state) BY <1>3, <1>4 DEF GoodJob, SeenOk
<1>6. GoodJob(j, S, state) /\ SameAnswer(blank, j) BY <1>0, <1>4, <1>5, LookGood DEF Decide
<1>7. j.cp = r.cp /\ j.status = Status(state, r) /\ j.st.prev = state.prev BY <1>4, <1>6 DEF SameAnswer
<1>8. k = IF j.status = 200 THEN Accept(j) ELSE IF unproven THEN Refused(j, "unproven-extension") ELSE j
  BY DEF Outcome, blank
<1> HIDE DEF j, k
<1>9. CASE j.status = 200
  <2>1. k = Accept(j) BY <1>8, <1>9
  <2>a. Status(state, r) = 200 BY <1>7, <1>9
  <2>2. r.cp.size = Len(r.cp.root) /\ (state.prev # NoCp => IsPrefix(state.prev.root, r.cp.root))
    <3> DEFINE st == state
    <3>1. GoodSt(st, S) /\ Status(st, r) = 200 BY <2>a
    <3>2. state = st OBVIOUS
    <3> HIDE DEF st
    <3>3. r.cp.size = Len(r.cp.root) /\ (st.prev # NoCp => IsPrefix(st.prev.root, r.cp.root)) BY <3>1, StatusExtends
    <3> QED BY <3>2, <3>3
  <2>3. GoodJob(k, S, state) /\ k.cp = j.cp /\ k.status = j.status /\ k.st.prev = j.cp /\ k.dirty
    BY <1>6, <1>7, <2>1, <2>2, AcceptGood DEF Stores
  <2> QED BY <1>7, <1>9, <2>2, <2>3 DEF k
<1>10. CASE j.status # 200 /\ unproven
  <2>1. k = Refused(j, "unproven-extension") BY <1>8, <1>10
  <2>2. ~ (j.cp.size < StoredSize(j.st))
    <3>1. StoredSize(j.st) = StoredSize(state) BY <1>7 DEF StoredSize
    <3>2. state.prev # NoCp BY <1>10 DEF StoredSize
    <3>3. StoredSize(state) = state.prev.size BY <3>2 DEF StoredSize
    <3>4. state.prev.size \in Int /\ r.cp.size \in Int
      <4>1. state.prev \in Checkpoint BY <1>1, <3>2 DEF State
      <4> QED BY <1>0, <4>1, WitnessConstants DEF Checkpoint
    <3> QED BY <1>7, <1>10, <3>1, <3>3, <3>4
  <2>3. GoodJob(k, S, state) /\ SameAnswer(j, k) BY <1>6, <2>1, <2>2, RefusedGood
  <2>4. k.cp = j.cp /\ k.status = j.status /\ k.st.prev = j.st.prev BY <2>3 DEF SameAnswer
  <2>5. j.status # 200 BY <1>10
  <2> HIDE DEF unproven
  <2> QED BY <1>7, <2>3, <2>4, <2>5 DEF k
<1>11. CASE j.status # 200 /\ ~ unproven
  <2>1. k = j BY <1>8, <1>11
  <2> QED BY <1>6, <1>7, <1>11, <2>1 DEF k
<1> QED BY <1>9, <1>10, <1>11

-----------------------------------------------------------------------------
(* What is remembered of the roots that were answered *)

\* A root of size c.size can still meet another: beyond the stored size it is
\* pending, at the stored size it is the stored one, below it is in the ring, still
\* pending or in the history H.
Kept(c, st, H) ==
  /\ c.size > StoredSize(st) => c \in Cps(st.pending)
  /\ c.size = StoredSize(st) => c = st.prev
  /\ c.size < StoredSize(st) => c \in Cps(st.ring) \cup Cps(st.pending) \cup H

\* The sizes at which a split view is proved.
Sizes(E) == {e.size : e \in E}

\* With the state st, the history H and the evidence E, the answers about the roots
\* A are accounted for: each root can still meet another or its size is proved, two
\* that differ are proved, the pairs remembered are in the evidence and the stored
\* checkpoint is in the history.  (At size 0 there is one root.)
Books(A, st, H, E) ==
  /\ \A c \in A : c.size # 0 => Kept(c, st, H) \/ c.size \in Sizes(E)
  /\ \A a, b \in A : Split(a, b) => a.size \in Sizes(E)
  /\ Items(st.seen) \subseteq E
  /\ st.prev # NoCp => st.prev \in H

\* The books of fewer answers hold in longer files.
LEMMA BooksGrow ==
  ASSUME NEW A, NEW B, NEW st, NEW H, NEW G, NEW E, NEW F,
         Books(A, st, H, E), B \subseteq A, H \subseteq G, E \subseteq F
  PROVE  Books(B, st, G, F)
<1>1. Sizes(E) \subseteq Sizes(F) BY DEF Sizes
<1>2. \A c : Kept(c, st, H) => Kept(c, st, G) BY DEF Kept
<1> QED BY <1>1, <1>2 DEF Books

\* The stored size.
LEMMA StoredSizeType ==
  ASSUME NEW S, NEW st, GoodSt(st, S)
  PROVE  /\ StoredSize(st) \in Nat
         /\ st.prev # NoCp => st.prev \in Checkpoint /\ StoredSize(st) = st.prev.size
         /\ st.prev = NoCp => st.prev.size = -1 /\ StoredSize(st) = 0
<1>1. st.prev \in Checkpoint \cup {NoCp} BY DEF GoodSt, State
<1>2. \A c \in Checkpoint : c.size \in Nat BY WitnessConstants DEF Checkpoint
<1> QED BY <1>1, <1>2 DEF StoredSize, NoCp

\* What is known stays known when the state only learns.
LEMMA KeptGrows ==
  ASSUME NEW c, NEW st, NEW ss, NEW H, Kept(c, st, H), ss.prev = st.prev,
         Cps(st.pending) \subseteq Cps(ss.pending), Cps(st.ring) \subseteq Cps(ss.ring)
  PROVE  Kept(c, ss, H)
<1>1. StoredSize(ss) = StoredSize(st) BY DEF StoredSize
<1> QED BY <1>1 DEF Kept

\* The root of a request is paired with another that is stored at its size.
Supplanted(k) == k.paired /\ k.st.prev # NoCp /\ k.st.prev.size = k.cp.size

\* Looking forgets nothing, keeps the presented root or proves that it differs from
\* the stored one, and finds a pair when a root that is still known differs.
LEMMA LookKept ==
  ASSUME NEW S, NEW s0, NEW j, GoodJob(j, S, s0), HistoryOk(S), j.ev = {}, j.st.seen = s0.seen, NEW small \in BOOLEAN,
         ~ Look(j, small).lost
  PROVE  LET k == Look(j, small) IN
         /\ Cps(j.st.pending) \subseteq Cps(k.st.pending) /\ Cps(j.st.ring) \subseteq Cps(k.st.ring)
         /\ j.cp.size # 0 => Kept(j.cp, k.st, Items(history)) \/ Supplanted(k)
         /\ \A c : c.size # 0 /\ Kept(c, j.st, Items(history)) /\ c.size = j.cp.size /\ c.root # j.cp.root => k.paired
<1> DEFINE k == Look(j, small)
           n == j.cp.size
           z == StoredSize(j.st)
           H == Items(history)
<1>0. j \in Job /\ j.cp \in Checkpoint /\ n \in Nat /\ GoodSt(j.st, S) BY WitnessConstants DEF GoodJob, Job, Checkpoint
<1>1. /\ z \in Nat
      /\ j.st.prev # NoCp => j.st.prev \in Checkpoint /\ z = j.st.prev.size
      /\ j.st.prev = NoCp => j.st.prev.size = -1 /\ z = 0
  <2> DEFINE st == j.st
  <2>1. GoodSt(st, S) BY <1>0
  <2> HIDE DEF st
  <2>2. /\ StoredSize(st) \in Nat
        /\ st.prev # NoCp => st.prev \in Checkpoint /\ StoredSize(st) = st.prev.size
        /\ st.prev = NoCp => st.prev.size = -1 /\ StoredSize(st) = 0
    BY <2>1, StoredSizeType
  <2> QED BY <2>2 DEF st
<1>2. StoredSize(k.st) = z
  <2>1. SameAnswer(j, k) BY LookGood
  <2> QED BY <2>1 DEF SameAnswer, StoredSize
<1> HIDE DEF n, z
<1> DEFINE split == n = j.st.prev.size /\ j.cp.root # j.st.prev.root
<1>3. CASE BadEmpty(j.cp)
  <2>1. k = j BY <1>3 DEF Look
  <2>2. n = 0 BY <1>3 DEF BadEmpty, n
  <2> QED BY <2>1, <2>2 DEF n
<1>4. CASE ~ BadEmpty(j.cp) /\ n < j.st.prev.size
  <2>1. k = Refused(j, "rollback") BY <1>4 DEF Look, n
  <2> HIDE DEF k
  <2>2. n < z BY <1>0, <1>1, <1>4
  <2>3. /\ k.st.pending = j.st.pending /\ (~ k.lost => Cps(k.st.ring) = Cps(j.st.ring) \cup {j.cp})
        /\ (~ k.lost /\ j.cp.size < StoredSize(j.st) /\ Contradicted(j) => k.paired)
    <3> DEFINE tipo == "rollback"
               q == Refused(j, tipo)
    <3>1. tipo \in {"rollback", "unproven-extension"} OBVIOUS
    <3>2. k = q BY <2>1
    <3> HIDE DEF tipo
    <3>3. /\ q.st.pending = j.st.pending /\ (~ q.lost => Cps(q.st.ring) = Cps(j.st.ring) \cup {j.cp})
          /\ (~ q.lost /\ j.cp.size < StoredSize(j.st) /\ Contradicted(j) => q.paired)
      BY <3>1, RefusedGood
    <3> QED BY <3>2, <3>3
  <2>4. ~ k.lost BY DEF k
  <2>5. Kept(j.cp, k.st, H)
    <3>1. j.cp.size < StoredSize(k.st) /\ j.cp \in Cps(k.st.ring) BY <1>2, <2>2, <2>3, <2>4 DEF n
    <3> QED BY <1>0, <1>1, <1>2, <3>1 DEF Kept, n
  <2>6. ASSUME NEW c, Kept(c, j.st, H), c.size = j.cp.size, c.root # j.cp.root PROVE k.paired
    <3>1. c \in Cps(j.st.ring) \cup Cps(j.st.pending) \cup H BY <2>2, <2>6 DEF Kept, n, z
    <3>2. Contradicted(j) BY <2>6, <3>1 DEF Contradicted
    <3> QED BY <2>2, <2>3, <2>4, <3>2 DEF n, z
  <2> QED BY <2>3, <2>4, <2>5, <2>6 DEF k
<1>5. CASE ~ BadEmpty(j.cp) /\ ~ (n < j.st.prev.size) /\ split
  <2> DEFINE rival == [cp |-> j.st.prev, kept |-> TRUE]
  <2>1. k = Proof(j, rival) BY <1>5 DEF Look, n
  <2>2. j.st.prev # NoCp BY <1>0, <1>1, <1>5
  <2>3. j.st.prev \in S BY <1>0, <2>2 DEF GoodSt
  <2>4. rival.cp \in S /\ rival.kept \in BOOLEAN /\ rival.cp.size = j.cp.size /\ rival.cp.root # j.cp.root
    BY <1>5, <2>3 DEF n
  <2> HIDE DEF rival, k
  <2>5. /\ Proof(j, rival).st.pending = j.st.pending /\ Proof(j, rival).st.ring = j.st.ring /\ Proof(j, rival).paired
        /\ SameAnswer(j, Proof(j, rival))
    BY <2>4, ProofGood
  <2>6. Supplanted(k) BY <1>5, <2>1, <2>2, <2>5 DEF Supplanted, SameAnswer, n
  <2> QED BY <2>1, <2>5, <2>6 DEF k
<1>6. CASE ~ BadEmpty(j.cp) /\ ~ (n < j.st.prev.size) /\ ~ split /\ n > z
  <2>1. k = NoteFuture(j, small) BY <1>6 DEF Look, n, z
  <2> HIDE DEF k
  <2>2. /\ k.st.ring = j.st.ring /\ (~ k.lost => k.st.pending = Remember(j.st.pending, j.cp, small))
        /\ (Rivals(j.st.pending, j.cp) # {} => k.paired)
    BY <2>1, NoteFutureGood
  <2>3. ~ k.lost BY DEF k
  <2>4. Cps(k.st.pending) = Cps(j.st.pending) \cup {j.cp}
    <3> DEFINE q == j.st.pending
               cp == j.cp
    <3>1. q \in Seq(Pending) /\ cp \in Checkpoint BY <1>0 DEF GoodSt, State
    <3> HIDE DEF q, cp
    <3>2. Cps(Remember(q, cp, small)) = Cps(q) \cup {cp} BY <3>1, RememberSeq
    <3> QED BY <2>2, <2>3, <3>2 DEF q, cp
  <2>5. Kept(j.cp, k.st, H)
    <3>1. j.cp.size > StoredSize(k.st) /\ j.cp \in Cps(k.st.pending) BY <1>2, <1>6, <2>4 DEF n
    <3> QED BY <1>0, <1>1, <1>2, <3>1 DEF Kept, n
  <2>6. ASSUME NEW c, Kept(c, j.st, H), c.size = j.cp.size, c.root # j.cp.root PROVE k.paired
    <3>1. c \in Cps(j.st.pending) BY <1>6, <2>6 DEF Kept, n, z
    <3>2. PICK i \in 1..Len(j.st.pending) : j.st.pending[i].cp = c BY <3>1 DEF Cps, Items
    <3>3. i \in Rivals(j.st.pending, j.cp) BY <2>6, <3>2 DEF Rivals
    <3> QED BY <2>2, <3>3
  <2> QED BY <2>2, <2>4, <2>5, <2>6 DEF k
<1>7. CASE ~ BadEmpty(j.cp) /\ ~ (n < j.st.prev.size) /\ ~ split /\ ~ (n > z)
  <2>1. k = j BY <1>7 DEF Look, n, z
  <2> HIDE DEF k
  <2>2. ASSUME n # 0 PROVE n = z /\ j.cp = j.st.prev
    <3>1. j.st.prev # NoCp BY <1>0, <1>1, <1>7, <2>2
    <3>2. n = z BY <1>0, <1>1, <1>7, <3>1
    <3>3. j.cp.size = j.st.prev.size /\ j.cp.root = j.st.prev.root BY <1>1, <1>7, <3>1, <3>2 DEF n
    <3>4. j.cp \in [size : 0..MaxSize, root : Roots] /\ j.st.prev \in [size : 0..MaxSize, root : Roots]
      BY <1>0, <1>1, <3>1 DEF Checkpoint
    <3>5. j.cp = j.st.prev
      <4> DEFINE x == j.cp
                 y == j.st.prev
                 T == 0..MaxSize
      <4>1. x \in [size : T, root : Roots] /\ y \in [size : T, root : Roots] /\ x.size = y.size /\ x.root = y.root
        BY <3>3, <3>4
      <4> HIDE DEF x, y, T
      <4>2. x = y BY <4>1
      <4> QED BY <4>2 DEF x, y
    <3> QED BY <3>2, <3>5
  <2>3. n # 0 => Kept(j.cp, k.st, H) BY <1>0, <1>1, <1>2, <2>1, <2>2 DEF Kept, n
  <2>4. ASSUME NEW c, c.size # 0, Kept(c, j.st, H), c.size = j.cp.size, c.root # j.cp.root PROVE FALSE
    <3>1. c.size = z /\ j.cp = j.st.prev BY <2>2, <2>4 DEF n
    <3>2. c = j.st.prev BY <2>4, <3>1 DEF Kept, z
    <3> QED BY <2>4, <3>1, <3>2
  <2> QED BY <2>1, <2>3, <2>4 DEF k, n
<1> QED BY <1>3, <1>4, <1>5, <1>6, <1>7

\* The books after a request, from what it did to the roots that were known.
LEMMA BooksAfter ==
  ASSUME NEW S, NEW s0, NEW k, GoodJob(k, S, s0), ~ k.lost,
         NEW A, NEW H, NEW G, NEW E, Books(A, s0, H, E), H \subseteq G,
         k.st.prev # NoCp => k.st.prev \in G,
         \A c \in A : c.size # 0 /\ Kept(c, s0, H) => Kept(c, k.st, G) \/ (k.paired /\ c.size = k.cp.size),
         k.cp.size # 0 => Kept(k.cp, k.st, G) \/ k.paired,
         \A c \in A : c.size # 0 /\ Kept(c, s0, H) /\ c.size = k.cp.size /\ c.root # k.cp.root => k.paired,
         s0.seen \in Seq(Pair)
  PROVE  Books(A \cup {k.cp}, k.st, G, E \cup k.ev)
<1> DEFINE F == E \cup k.ev
<1>1. Sizes(E) \subseteq Sizes(F) BY DEF Sizes
<1>2. Items(s0.seen) \subseteq E BY DEF Books
<1>3. k.paired => k.cp.size \in Sizes(F)
  <2>1. k.paired => \E e \in Items(s0.seen) \cup k.ev : e.size = k.cp.size /\ k.cp.root \in e.roots BY DEF GoodJob
  <2> QED BY <1>2, <2>1 DEF Sizes
<1>4. Items(k.st.seen) \subseteq F
  <2>1. CASE k.st.seen = s0.seen BY <1>2, <2>1
  <2>2. CASE k.st.seen # s0.seen
    <3>1. PICK e \in Pair : k.ev = {e} /\ k.st.seen = Append(s0.seen, e) BY <2>2 DEF GoodJob, SeenOk
    <3>2. Items(Append(s0.seen, e)) = Items(s0.seen) \cup {e} BY AppendItems
    <3> QED BY <1>2, <3>1, <3>2
  <2> QED BY <2>1, <2>2
<1> HIDE DEF F
<1>5. ASSUME NEW c \in A \cup {k.cp}, c.size # 0 PROVE Kept(c, k.st, G) \/ c.size \in Sizes(F)
  <2>1. CASE c = k.cp BY <1>3, <1>5, <2>1
  <2>2. CASE c \in A
    <3>1. Kept(c, s0, H) \/ c.size \in Sizes(E) BY <1>5, <2>2 DEF Books
    <3> QED BY <1>1, <1>3, <1>5, <2>2, <3>1
  <2> QED BY <2>1, <2>2
<1>6. ASSUME NEW c \in A, Split(c, k.cp) PROVE c.size \in Sizes(F)
  <2>1. c.size = k.cp.size /\ c.root # k.cp.root /\ c.size # 0 BY <1>6 DEF Split, BadEmpty
  <2>2. Kept(c, s0, H) \/ c.size \in Sizes(E) BY <2>1 DEF Books
  <2> QED BY <1>1, <1>3, <2>1, <2>2
<1>7. ASSUME NEW a \in A \cup {k.cp}, NEW b \in A \cup {k.cp}, Split(a, b) PROVE a.size \in Sizes(F)
  <2>1. Split(b, a) /\ a.size = b.size BY <1>7 DEF Split
  <2>2. ~ (a = k.cp /\ b = k.cp) BY <1>7 DEF Split
  <2>3. CASE a \in A /\ b \in A BY <1>1, <1>7, <2>3 DEF Books
  <2>4. CASE a \in A /\ b = k.cp BY <1>6, <1>7, <2>4
  <2>5. CASE a = k.cp /\ b \in A BY <1>6, <2>1, <2>5
  <2> QED BY <2>2, <2>3, <2>4, <2>5
<1> QED BY <1>4, <1>5, <1>7 DEF Books, F

\* The history after a request.
Past(k) == Items(history) \cup (IF k.new THEN {k.cp} ELSE {})

\* What _cosign_locked knows of the roots H and the state held, it holds afterwards,
\* with its own checkpoint in the history when it is the first to cosign it: unless
\* they are of its size and it found a pair; and it finds one when one of them differs.
LEMMA OutcomeKept ==
  ASSUME NEW S, GoodSt(state, S), HistoryOk(S), S \subseteq Checkpoint, NEW r \in Request, r.cp \in S,
         state.prev # NoCp => state.prev \in Items(history), ~ Outcome(r).lost
  PROVE  LET k == Outcome(r)
             H == Items(history)
             G == Past(k)
         IN  /\ k.st.prev # NoCp => k.st.prev \in G
             /\ \A c \in S : c.size # 0 /\ Kept(c, state, H) => Kept(c, k.st, G) \/ (k.paired /\ c.size = k.cp.size)
             /\ k.cp.size # 0 => Kept(k.cp, k.st, G) \/ Supplanted(k)
             /\ \A c : c.size # 0 /\ Kept(c, state, H) /\ c.size = k.cp.size /\ c.root # k.cp.root => k.paired
<1> DEFINE blank == [cp |-> r.cp, st |-> state, ev |-> {}, paired |-> FALSE, dirty |-> FALSE,
                     new |-> FALSE, status |-> Status(state, r), lost |-> FALSE]
           j == Decide(blank, r)
           unproven == /\ j.status = 422 /\ ~BadEmpty(r.cp)
                       /\ StoredSize(state) > 0 /\ r.cp.size > state.prev.size
           k == Outcome(r)
           H == Items(history)
           G == Past(k)
           st == state
<1>0. r.cp \in Checkpoint /\ r.small \in BOOLEAN BY WitnessConstants DEF Request
<1>1. state \in State BY DEF GoodSt
<1>2. Status(state, r) \in {200, 400, 409, 422} BY DEF Status
<1>3. blank \in Job BY <1>0, <1>1, <1>2 DEF Job
<1>4. blank.cp = r.cp /\ blank.st = state /\ blank.ev = {} /\ blank.status = Status(state, r) /\ ~ blank.paired /\ ~ blank.new
  OBVIOUS
<1> HIDE DEF blank
<1>5. GoodJob(blank, S, state) BY <1>3, <1>4 DEF GoodJob, SeenOk
<1>6. GoodJob(j, S, state) /\ SameAnswer(blank, j) BY <1>0, <1>4, <1>5, LookGood DEF Decide
<1>7. j.cp = r.cp /\ j.status = Status(state, r) /\ j.st.prev = state.prev /\ ~ j.new BY <1>4, <1>6 DEF SameAnswer
<1>8. k = IF j.status = 200 THEN Accept(j) ELSE IF unproven THEN Refused(j, "unproven-extension") ELSE j
  BY DEF Outcome, blank
<1>9. ~ k.lost BY DEF k
<1>10. GoodJob(k, S, state) /\ k.cp = r.cp /\ (k.status # 200 => k.st.prev = state.prev) BY OutcomeGood
<1>11. /\ StoredSize(state) \in Nat /\ r.cp.size \in Nat
       /\ state.prev # NoCp => state.prev \in Checkpoint /\ StoredSize(state) = state.prev.size
       /\ state.prev = NoCp => state.prev.size = -1 /\ StoredSize(state) = 0
  <2>1. state = st OBVIOUS
  <2>2. GoodSt(st, S) OBVIOUS
  <2> HIDE DEF st
  <2>3. /\ StoredSize(st) \in Nat
        /\ st.prev # NoCp => st.prev \in Checkpoint /\ StoredSize(st) = st.prev.size
        /\ st.prev = NoCp => st.prev.size = -1 /\ StoredSize(st) = 0
    BY <2>2, StoredSizeType
  <2>4. r.cp.size \in Nat BY <1>0, WitnessConstants DEF Checkpoint
  <2> QED BY <2>1, <2>3, <2>4
<1>12. ASSUME ~ j.lost
       PROVE  /\ Cps(state.pending) \subseteq Cps(j.st.pending) /\ Cps(state.ring) \subseteq Cps(j.st.ring)
              /\ j.cp.size # 0 => Kept(j.cp, j.st, H) \/ Supplanted(j)
              /\ \A c : c.size # 0 /\ Kept(c, state, H) /\ c.size = j.cp.size /\ c.root # j.cp.root => j.paired
              /\ \A c : Kept(c, state, H) => Kept(c, j.st, H)
  <2> DEFINE small == r.small
             q == Look(blank, small)
  <2>1. j = q BY DEF Decide
  <2>2. small \in BOOLEAN /\ ~ q.lost /\ blank.st.seen = state.seen BY <1>0, <1>4, <1>12, <2>1
  <2> HIDE DEF small, j
  <2>3. /\ Cps(blank.st.pending) \subseteq Cps(q.st.pending) /\ Cps(blank.st.ring) \subseteq Cps(q.st.ring)
        /\ blank.cp.size # 0 => Kept(blank.cp, q.st, Items(history)) \/ Supplanted(q)
        /\ \A c : c.size # 0 /\ Kept(c, blank.st, Items(history)) /\ c.size = blank.cp.size /\ c.root # blank.cp.root => q.paired
    BY <1>4, <1>5, <2>2, LookKept
  <2>4. /\ Cps(state.pending) \subseteq Cps(j.st.pending) /\ Cps(state.ring) \subseteq Cps(j.st.ring)
        /\ j.cp.size # 0 => Kept(j.cp, j.st, H) \/ Supplanted(j)
        /\ \A c : c.size # 0 /\ Kept(c, state, H) /\ c.size = j.cp.size /\ c.root # j.cp.root => j.paired
    BY <1>4, <1>7, <2>1, <2>3
  <2>5. ASSUME NEW c, Kept(c, state, H) PROVE Kept(c, j.st, H)
    <3> DEFINE ss == j.st
    <3>1. Kept(c, st, H) /\ ss.prev = st.prev /\ Cps(st.pending) \subseteq Cps(ss.pending) /\ Cps(st.ring) \subseteq Cps(ss.ring)
      BY <1>7, <2>4, <2>5
    <3> HIDE DEF st, ss, H
    <3>2. Kept(c, ss, H) BY <3>1, KeptGrows
    <3> QED BY <3>2 DEF ss
  <2> QED BY <2>4, <2>5
<1>13. H \subseteq G BY DEF Past
<1>14. SUFFICES /\ k.st.prev # NoCp => k.st.prev \in G
                /\ \A c \in S : c.size # 0 /\ Kept(c, state, H) => Kept(c, k.st, G) \/ (k.paired /\ c.size = k.cp.size)
                /\ k.cp.size # 0 => Kept(k.cp, k.st, G) \/ Supplanted(k)
                /\ \A c : c.size # 0 /\ Kept(c, state, H) /\ c.size = k.cp.size /\ c.root # k.cp.root => k.paired
  OBVIOUS
<1> HIDE DEF j, k, H, st
<1>15. state.prev # NoCp => state.prev \in H BY DEF H
<1>16. \A c, ss : Kept(c, ss, H) => Kept(c, ss, G) BY <1>13 DEF Kept
<1> HIDE DEF G
<1>17. CASE j.status = 200
  <2>1. k = Accept(j) BY <1>8, <1>17
  <2>a. Status(state, r) = 200 BY <1>7, <1>17
  <2>2. r.cp.size = Len(r.cp.root) /\ StoredSize(state) <= r.cp.size
    <3>1. GoodSt(st, S) /\ Status(st, r) = 200 BY <2>a DEF st
    <3>2. r.cp.size = Len(r.cp.root) BY <3>1, StatusExtends
    <3>3. ~ (r.cp.size < state.prev.size) BY <2>a DEF Status
    <3> QED BY <1>11, <3>2, <3>3
  <2>3. /\ k.cp = j.cp /\ k.st.prev = j.cp /\ k.new = (j.cp # j.st.prev) /\ k.st.ring = j.st.ring
        /\ (j.paired => k.paired) /\ (~ k.lost => ~ j.lost)
        /\ \A c \in Cps(j.st.pending) : c.size # j.cp.size => c \in Cps(k.st.pending)
    <3>1. j.cp.size = Len(j.cp.root) BY <1>7, <2>2
    <3>2. Stores(j, Accept(j)) BY <1>6, <3>1, AcceptGood
    <3> QED BY <2>1, <3>2 DEF Stores
  <2>4. StoredSize(k.st) = r.cp.size
    <3>1. r.cp # NoCp BY <1>11 DEF NoCp
    <3> QED BY <1>7, <2>3, <3>1 DEF StoredSize
  <2>5. StoredSize(j.st) = StoredSize(state) BY <1>7 DEF StoredSize
  <2>6. k.st.prev \in G
    <3>1. CASE k.new BY <1>7, <1>10, <2>3, <3>1 DEF G, Past
    <3>2. CASE ~ k.new
      <4>1. r.cp = state.prev BY <1>7, <2>3, <3>2
      <4>2. r.cp # NoCp BY <1>11 DEF NoCp
      <4> QED BY <1>7, <1>13, <1>15, <2>3, <4>1, <4>2
    <3> QED BY <3>1, <3>2
  <2>7. Kept(k.cp, k.st, G) BY <1>7, <1>11, <2>3, <2>4 DEF Kept
  <2>8. ASSUME NEW c \in S, c.size # 0, Kept(c, state, H) PROVE Kept(c, k.st, G) \/ (k.paired /\ c.size = k.cp.size)
    <3>0. c \in Checkpoint /\ c.size \in Nat BY WitnessConstants DEF Checkpoint
    <3>1. Kept(c, j.st, H) BY <1>9, <1>12, <2>3, <2>8
    <3>2. CASE c.size > r.cp.size
      <4>1. c \in Cps(j.st.pending) BY <1>11, <2>2, <2>5, <3>0, <3>1, <3>2 DEF Kept
      <4>2. c \in Cps(k.st.pending) BY <1>7, <1>11, <2>3, <3>0, <3>2, <4>1
      <4> QED BY <1>11, <2>4, <3>0, <3>2, <4>2 DEF Kept
    <3>3. CASE c.size = r.cp.size
      <4>1. CASE c.root = r.cp.root
        <5> DEFINE y == r.cp
                   T == 0..MaxSize
        <5>1. c \in [size : T, root : Roots] /\ y \in [size : T, root : Roots] /\ c.size = y.size /\ c.root = y.root
          BY <1>0, <3>0, <3>3, <4>1 DEF Checkpoint
        <5> HIDE DEF y, T
        <5>2. c = y BY <5>1
        <5> QED BY <1>10, <2>7, <5>2 DEF y
      <4>2. CASE c.root # r.cp.root
        <5>1. j.paired BY <1>7, <1>9, <1>12, <2>3, <2>8, <3>3, <4>2
        <5> QED BY <1>10, <2>3, <3>3, <5>1
      <4> QED BY <4>1, <4>2
    <3>4. CASE c.size < r.cp.size
      <4>1. c \in Cps(k.st.ring) \cup Cps(k.st.pending) \cup H
        <5>1. c \in Cps(j.st.pending) => c \in Cps(k.st.pending) BY <1>7, <1>11, <2>3, <3>0, <3>4
        <5>2. CASE c.size > StoredSize(state) BY <2>5, <3>1, <5>1, <5>2 DEF Kept
        <5>3. CASE c.size < StoredSize(state) BY <2>3, <2>5, <3>1, <5>1, <5>3 DEF Kept
        <5>4. CASE c.size = StoredSize(state)
          <6>1. c = state.prev BY <2>8, <5>4 DEF Kept
          <6>2. state.prev # NoCp BY <1>11, <2>8, <5>4
          <6> QED BY <1>15, <6>1, <6>2
        <5> QED BY <1>11, <3>0, <5>2, <5>3, <5>4
      <4> QED BY <1>11, <1>13, <2>4, <3>0, <3>4, <4>1 DEF Kept
    <3> QED BY <1>11, <3>0, <3>2, <3>3, <3>4
  <2>9. \A c : c.size # 0 /\ Kept(c, state, H) /\ c.size = k.cp.size /\ c.root # k.cp.root => k.paired
    BY <1>9, <1>12, <2>3
  <2> QED BY <2>6, <2>7, <2>8, <2>9
<1>18. CASE j.status # 200
  <2>1. /\ k.cp = j.cp /\ k.st.prev = j.st.prev /\ (~ k.lost => ~ j.lost) /\ (j.paired => k.paired)
        /\ Cps(j.st.pending) \subseteq Cps(k.st.pending) /\ Cps(j.st.ring) \subseteq Cps(k.st.ring)
    <3>1. CASE unproven
      <4> DEFINE tipo == "unproven-extension"
                 q == Refused(j, tipo)
      <4>1. k = q /\ tipo \in {"rollback", "unproven-extension"} BY <1>8, <1>18, <3>1
      <4>2. ~ (j.cp.size < StoredSize(j.st))
        <5>1. StoredSize(j.st) = StoredSize(state) BY <1>7 DEF StoredSize
        <5> QED BY <1>7, <1>11, <3>1, <5>1
      <4> HIDE DEF tipo, unproven
      <4>3. /\ SameAnswer(j, q) /\ q.st.pending = j.st.pending /\ (j.paired => q.paired)
            /\ (~ q.lost => ~ j.lost /\ Cps(q.st.ring) = Cps(j.st.ring) \cup {j.cp})
        BY <1>6, <4>1, <4>2, RefusedGood
      <4> QED BY <1>9, <4>1, <4>3 DEF SameAnswer
    <3>2. CASE ~ unproven
      <4>1. k = j BY <1>8, <1>18, <3>2
      <4> QED BY <4>1
    <3> QED BY <3>1, <3>2
  <2>2. \A c : Kept(c, j.st, H) => Kept(c, k.st, G)
    <3> SUFFICES ASSUME NEW c, Kept(c, j.st, H) PROVE Kept(c, k.st, G)
      OBVIOUS
    <3> DEFINE a == j.st
               b == k.st
    <3>1. Kept(c, a, H) /\ b.prev = a.prev /\ Cps(a.pending) \subseteq Cps(b.pending) /\ Cps(a.ring) \subseteq Cps(b.ring)
      BY <2>1
    <3> HIDE DEF a, b
    <3>2. Kept(c, b, H) BY <3>1, KeptGrows
    <3> QED BY <1>16, <3>2 DEF b
  <2>3. k.st.prev = state.prev BY <1>7, <2>1
  <2>4. Supplanted(j) => Supplanted(k) BY <2>1 DEF Supplanted
  <2> QED BY <1>9, <1>12, <1>13, <1>15, <2>1, <2>2, <2>3, <2>4
<1> QED BY <1>17, <1>18

\* _cosign_locked keeps the books, with its pair in the evidence and a checkpoint it
\* is the first to cosign in the history.
LEMMA OutcomeBooks ==
  ASSUME NEW S, GoodSt(state, S), HistoryOk(S), S \subseteq Checkpoint, NEW r \in Request, r.cp \in S,
         NEW A \in SUBSET S, NEW E, Books(A, state, Items(history), E), ~ Outcome(r).lost
  PROVE  LET k == Outcome(r)
         IN  Books(A \cup {r.cp}, k.st, Past(k), E \cup k.ev)
<1> DEFINE k == Outcome(r)
           G == Past(k)
           H == Items(history)
           st == state
<1>1. state.prev # NoCp => state.prev \in Items(history) BY DEF Books
<1>2. /\ k.st.prev # NoCp => k.st.prev \in G
      /\ \A c \in S : c.size # 0 /\ Kept(c, state, H) => Kept(c, k.st, G) \/ (k.paired /\ c.size = k.cp.size)
      /\ k.cp.size # 0 => Kept(k.cp, k.st, G) \/ Supplanted(k)
      /\ \A c : c.size # 0 /\ Kept(c, state, H) /\ c.size = k.cp.size /\ c.root # k.cp.root => k.paired
  BY <1>1, OutcomeKept
<1>3. GoodJob(k, S, state) /\ k.cp = r.cp BY OutcomeGood
<1>4. /\ \A c \in A : c.size # 0 /\ Kept(c, st, H) => Kept(c, k.st, G) \/ (k.paired /\ c.size = k.cp.size)
      /\ k.cp.size # 0 => Kept(k.cp, k.st, G) \/ k.paired
      /\ \A c \in A : c.size # 0 /\ Kept(c, st, H) /\ c.size = k.cp.size /\ c.root # k.cp.root => k.paired
  BY <1>2 DEF Supplanted
<1>5. GoodJob(k, S, st) /\ ~ k.lost /\ Books(A, st, H, E) /\ st.seen \in Seq(Pair) /\ H \subseteq G
  BY <1>3 DEF GoodSt, State, Past
<1>6. k.st.prev # NoCp => k.st.prev \in G BY <1>2
<1> HIDE DEF k, G, H, st
<1>7. Books(A \cup {k.cp}, k.st, G, E \cup k.ev) BY <1>4, <1>5, <1>6, BooksAfter
<1> QED BY <1>3, <1>7 DEF k, G

\* The step a request takes from the i-th on is the first it needs.
LEMMA StepNeeded ==
  ASSUME NEW j \in Job, NEW i \in 1..4
  PROVE  \E k \in i..4 : Step(j, i) = Order[k] /\ Needs(j)[Order[k]] /\ \A m \in i..k-1 : ~Needs(j)[Order[m]]
<1> DEFINE T == {k \in i..4 : Needs(j)[Order[k]]}
           P(k) == Needs(j)[Order[k]] /\ \A m \in i..k-1 : ~Needs(j)[Order[m]]
<1>1. 4 \in T BY DEF Needs, Order
<1>2. T \in SUBSET Nat OBVIOUS
<1>3. PICK x \in T : \A y \in T : x <= y BY <1>1, <1>2, LeastExists
<1>4. x \in i..4 /\ P(x)
  <2>1. ASSUME NEW m \in i..x-1, Needs(j)[Order[m]] PROVE FALSE
    <3>1. m \in T BY <2>1
    <3> QED BY <1>3, <2>1, <3>1
  <2> QED BY <2>1
<1> DEFINE c == CHOOSE k \in i..4 : P(k)
<1>5. c \in i..4 /\ P(c)
  <2> HIDE DEF P
  <2> QED BY <1>4, Zenon
<1>6. Step(j, i) = Order[c] BY DEF Step
<1> HIDE DEF c
<1> QED BY <1>5, <1>6

\* The step after the lock is taken.
LEMMA FirstStep ==
  ASSUME NEW j \in Job
  PROVE  /\ Step(j, 1) \in {"record", "history", "save", "reply"}
         /\ Step(j, 1) # "record" => j.ev = {}
         /\ Step(j, 1) \in {"save", "reply"} => ~ j.new
         /\ Step(j, 1) = "reply" => ~ j.dirty
<1>1. PICK k \in 1..4 : Step(j, 1) = Order[k] /\ \A m \in 1..k-1 : ~Needs(j)[Order[m]] BY StepNeeded
<1>2. Order[1] = "record" /\ Order[2] = "history" /\ Order[3] = "save" /\ Order[4] = "reply" BY DEF Order
<1>3. Needs(j)["record"] = (j.ev # {}) /\ Needs(j)["history"] = j.new /\ Needs(j)["save"] = j.dirty BY DEF Needs
<1>4. k # 1 => j.ev = {}
  <2>1. k # 1 => 1 \in 1..k-1 OBVIOUS
  <2> QED BY <1>1, <1>2, <1>3, <2>1
<1>5. k \in {3, 4} => ~ j.new
  <2>1. k \in {3, 4} => 2 \in 1..k-1 OBVIOUS
  <2> QED BY <1>1, <1>2, <1>3, <2>1
<1>6. k = 4 => ~ j.dirty
  <2>1. k = 4 => 3 \in 1..k-1 OBVIOUS
  <2> QED BY <1>1, <1>2, <1>3, <2>1
<1> QED BY <1>1, <1>2, <1>4, <1>5, <1>6

\* The step after each write: the answer is next only when there is nothing to
\* save, or it is saved.
LEMMA NextStep ==
  ASSUME NEW j \in Job
  PROVE  /\ After(j, "record") \in {"history", "save", "reply"} /\ (After(j, "record") = "reply" => ~ j.dirty)
         /\ After(j, "record") \in {"save", "reply"} => ~ j.new
         /\ After(j, "history") \in {"save", "reply"} /\ (After(j, "history") = "reply" => ~ j.dirty)
         /\ After(j, "save") = "reply"
<1>1. Order[1] = "record" /\ Order[2] = "history" /\ Order[3] = "save" /\ Order[4] = "reply" BY DEF Order
<1>2. Needs(j)["history"] = j.new /\ Needs(j)["save"] = j.dirty BY DEF Needs
<1>3. After(j, "record") = Step(j, 2) /\ After(j, "history") = Step(j, 3) /\ After(j, "save") = Step(j, 4)
  <2>1. \A n \in 1..4 : (CHOOSE i \in 1..4 : Order[i] = Order[n]) = n
    <3>1. ASSUME NEW n \in 1..4, NEW i \in 1..4, Order[i] = Order[n] PROVE i = n BY <1>1, <3>1
    <3> QED BY <3>1
  <2>2. /\ (CHOOSE i \in 1..4 : Order[i] = "record") = 1
        /\ (CHOOSE i \in 1..4 : Order[i] = "history") = 2
        /\ (CHOOSE i \in 1..4 : Order[i] = "save") = 3
    BY <1>1, <2>1
  <2> DEFINE n(x) == CHOOSE i \in 1..4 : Order[i] = x
  <2>3. \A x : After(j, x) = Step(j, 1 + n(x)) BY DEF After
  <2>4. n("record") = 1 /\ n("history") = 2 /\ n("save") = 3 BY <2>2
  <2> HIDE DEF n
  <2>5. 1 + n("record") = 2 /\ 1 + n("history") = 3 /\ 1 + n("save") = 4 BY <2>4
  <2> QED BY <2>3, <2>5
<1>4. ASSUME NEW i \in 2..4
      PROVE  \E k \in i..4 : Step(j, i) = Order[k] /\ (k = 4 /\ i <= 3 => ~ j.dirty) /\ (k \in {3, 4} /\ i = 2 => ~ j.new)
  <2>1. PICK k \in i..4 : Step(j, i) = Order[k] /\ \A m \in i..k-1 : ~Needs(j)[Order[m]] BY StepNeeded
  <2>2. (k = 4 /\ i <= 3 => 3 \in i..k-1) /\ (k \in {3, 4} /\ i = 2 => 2 \in i..k-1) OBVIOUS
  <2> QED BY <1>1, <1>2, <2>1, <2>2
<1>5. PICK k2 \in 2..4 : Step(j, 2) = Order[k2] /\ (k2 = 4 => ~ j.dirty) /\ (k2 \in {3, 4} => ~ j.new) BY <1>4
<1>6. PICK k3 \in 3..4 : Step(j, 3) = Order[k3] /\ (k3 = 4 => ~ j.dirty) BY <1>4
<1>7. PICK k4 \in 4..4 : Step(j, 4) = Order[k4] BY <1>4
<1> QED BY <1>1, <1>3, <1>5, <1>6, <1>7

-----------------------------------------------------------------------------
(* The inductive invariant *)

\* Where a request stands: until the state is saved it is a good request on the
\* state file as it is; once accepted it stores its checkpoint, and the answer
\* waits for that.
Carries(p, j) ==
  /\ j \in Job /\ j.cp \in signed /\ (j.lost => lost)
  /\ j.status = 200 => j.st.prev = j.cp /\ j.dirty
  /\ p = "reply" /\ j.status = 200 => state.prev = j.cp
  /\ p # "reply" => GoodJob(j, signed, state)
  /\ p # "reply" /\ state.prev # NoCp => j.st.prev # NoCp /\ IsPrefix(state.prev.root, j.st.prev.root)

\* The pairs of the evidence file are remembered: by the state file, or by the
\* request that wrote the last one and is about to save them.
Remembered ==
  /\ \A w \in Workers : pc[w] \in {"history", "save"} => Items(evidence) \subseteq Items(job[w].st.seen)
  /\ (\A w \in Workers : pc[w] \notin {"history", "save"}) => Items(evidence) \subseteq Items(state.seen)

\* Nothing failed, nobody was killed and nothing was forgotten.
Calm == fails = 0 /\ kills = 0 /\ ~lost

\* Every readable line of the evidence file is a genuine pair.
Accuses == \A e \in Items(evidence) : e = Garbage \/ Genuine(e, signed)

\* The lock: at most one request is under way.
OneAtATime == \A v, w \in Workers : pc[v] # "idle" /\ pc[w] # "idle" => v = w

\* The inductive invariant.
WitInv ==
  /\ TypeOK /\ job = [w \in Workers |-> job[w]] /\ OneAtATime
  /\ GoodSt(state, signed) /\ HistoryOk(signed) /\ Accuses /\ CosignedPersisted
  /\ \A w \in Workers : pc[w] # "idle" => Carries(pc[w], job[w])
  /\ kills = 0 => ~cut["evidence"]
  /\ Calm => EvidenceOnce /\ Remembered

\* It holds at the start.
LEMMA WitInit == Init => WitInv
<1> SUFFICES ASSUME Init PROVE WitInv
  OBVIOUS
<1>1. /\ state.prev = NoCp /\ state.pending = << >> /\ state.ring = << >> /\ state.seen = << >>
      /\ evidence = << >> /\ history = << >> /\ cut = [f \in {"evidence", "history"} |-> FALSE]
      /\ pc = [w \in Workers |-> "idle"] /\ job = [w \in Workers |-> NoJob]
      /\ signed = {} /\ answered = {} /\ cosigned = {} /\ lost = FALSE
      /\ requests = 0 /\ fails = 0 /\ kills = 0
  BY DEF Init
<1>2. state \in State BY DEF Init, State
<1>3. TypeOK
  <2>1. requests \in 0..MaxRequests /\ fails \in 0..MaxFails /\ kills \in 0..MaxKills BY <1>1, WitnessConstants
  <2>2. cut \in [{"evidence", "history"} -> BOOLEAN] BY <1>1
  <2>3. pc \in [Workers -> {"idle", "record", "history", "save", "reply"}] /\ \A w \in Workers : pc[w] = "idle" BY <1>1
  <2>4. evidence \in Seq(Pair \cup {Garbage}) /\ history \in Seq(Checkpoint \cup {NoCp}) BY <1>1
  <2> QED BY <1>1, <1>2, <2>1, <2>2, <2>3, <2>4 DEF TypeOK
<1>4. Items(<< >>) = {} BY DEF Items
<1>5. GoodSt(state, signed)
  <2>1. NotesKept(<< >>) = 0
    <3>1. {i \in 1..Len(<< >>) : << >>[i].kept} = {} OBVIOUS
    <3> QED BY <3>1, FS_EmptySet DEF NotesKept
  <2>2. Within(state) BY <1>1, <2>1, WitnessConstants DEF Within
  <2> QED BY <1>1, <1>2, <1>4, <2>2 DEF GoodSt
<1>6. HistoryOk(signed) /\ Accuses BY <1>1, <1>4 DEF HistoryOk, Accuses
<1>7. CosignedPersisted BY <1>1 DEF CosignedPersisted
<1>8. EvidenceOnce /\ Remembered BY <1>1, <1>4 DEF EvidenceOnce, Remembered
<1>9. job = [w \in Workers |-> job[w]] /\ OneAtATime /\ \A w \in Workers : pc[w] = "idle" BY <1>1 DEF OneAtATime
<1>10. ~ cut["evidence"] BY <1>1
<1> QED BY <1>3, <1>5, <1>6, <1>7, <1>8, <1>9, <1>10 DEF WitInv

\* What was presented only grows, and what was good stays good.
LEMMA GoodGrows ==
  ASSUME NEW S, NEW T, S \subseteq T
  PROVE  /\ \A st : GoodSt(st, S) => GoodSt(st, T)
         /\ \A e : Genuine(e, S) => Genuine(e, T)
         /\ HistoryOk(S) => HistoryOk(T)
BY DEF GoodSt, Genuine, HistoryOk

\* While a request is under way, or enters, no other is.
LEMMA OthersIdle ==
  ASSUME WitInv, NEW w \in Workers, pc[w] # "idle" \/ LockFree, NEW x, pc' = [pc EXCEPT ![w] = x]
  PROVE  pc'[w] = x /\ \A v \in Workers : v # w => pc'[v] = "idle"
BY DEF WitInv, TypeOK, OneAtATime, LockFree

\* Then it is enough to look at that request.
LEMMA Alone ==
  ASSUME NEW w \in Workers, \A v \in Workers : v # w => pc'[v] = "idle",
         TypeOK', job' = [v \in Workers |-> job'[v]],
         GoodSt(state, signed)', HistoryOk(signed)', Accuses', CosignedPersisted',
         pc'[w] # "idle" => Carries(pc[w], job[w])',
         kills' = 0 => ~cut'["evidence"],
         Calm' => EvidenceOnce',
         Calm' => IF pc'[w] \in {"history", "save"} THEN Items(evidence') \subseteq Items(job'[w].st.seen)
                                                   ELSE Items(evidence') \subseteq Items(state'.seen)
  PROVE  WitInv'
<1>1. OneAtATime' BY DEF OneAtATime
<1>2. \A v \in Workers : pc'[v] # "idle" => Carries(pc[v], job[v])' OBVIOUS
<1>3. ASSUME Calm' PROVE Remembered'
  <2>1. CASE pc'[w] \in {"history", "save"} BY <1>3, <2>1 DEF Remembered
  <2>2. CASE pc'[w] \notin {"history", "save"} BY <1>3, <2>2 DEF Remembered
  <2> QED BY <2>1, <2>2
<1> QED BY <1>1, <1>2, <1>3 DEF WitInv

\* The lock is taken and the request decided.
LEMMA EnterStep ==
  ASSUME WitInv, NEW w \in Workers, NEW r \in Request, Enter(w, r)
  PROVE  WitInv'
<1> DEFINE k == Outcome(r)
           S == signed \cup {r.cp}
<1>0. TypeOK /\ LockFree BY DEF WitInv, Enter
<1>1. /\ job' = [job EXCEPT ![w] = k] /\ pc' = [pc EXCEPT ![w] = Step(job'[w], 1)]
      /\ signed' = S /\ requests' = requests + 1 /\ lost' = (lost \/ job'[w].lost)
      /\ state' = state /\ evidence' = evidence /\ history' = history /\ cut' = cut
      /\ answered' = answered /\ cosigned' = cosigned /\ fails' = fails /\ kills' = kills /\ requests < MaxRequests
  BY DEF Enter, files
<1>2. r.cp \in Checkpoint /\ S \subseteq Checkpoint BY <1>0 DEF Request, Presentable, TypeOK
<1>3. GoodSt(state, S) /\ HistoryOk(S) /\ \A e : Genuine(e, signed) => Genuine(e, S)
  BY GoodGrows DEF WitInv
<1>4. /\ GoodJob(k, S, state) /\ k.cp = r.cp
      /\ k.status = 200 => k.st.prev = k.cp /\ k.dirty /\ (state.prev # NoCp => IsPrefix(state.prev.root, k.cp.root))
      /\ k.status # 200 => k.st.prev = state.prev
  BY <1>2, <1>3, OutcomeGood
<1> HIDE DEF k
<1>5. job'[w] = k /\ (\A v \in Workers : v # w => job'[v] = job[v]) /\ job' = [v \in Workers |-> job'[v]]
  BY <1>1 DEF WitInv
<1>6. k \in Job /\ GoodSt(k.st, S) BY <1>4 DEF GoodJob
<1>7. /\ Step(k, 1) \in {"record", "history", "save", "reply"}
      /\ Step(k, 1) # "record" => k.ev = {}
      /\ Step(k, 1) = "reply" => ~ k.dirty
  BY <1>6, FirstStep
<1>8. pc'[w] = Step(k, 1) /\ \A v \in Workers : v # w => pc'[v] = "idle" BY <1>0, <1>1, <1>5, OthersIdle
<1>9. TypeOK'
  <2>1. k.lost \in BOOLEAN BY <1>6 DEF Job
  <2>2. lost' \in BOOLEAN BY <1>0, <1>1 DEF TypeOK
  <2>3. requests' \in 0..MaxRequests BY <1>0, <1>1, WitnessConstants DEF TypeOK
  <2>4. pc' \in [Workers -> {"idle", "record", "history", "save", "reply"}] BY <1>0, <1>1, <1>5, <1>7 DEF TypeOK
  <2>5. \A v \in Workers : pc'[v] # "idle" => job'[v] \in Job BY <1>5, <1>6, <1>8
  <2> QED BY <1>0, <1>1, <1>2, <2>2, <2>3, <2>4, <2>5 DEF TypeOK
<1>10. GoodSt(state, signed)' /\ HistoryOk(signed)' BY <1>1, <1>3 DEF HistoryOk
<1>11. Accuses' BY <1>1, <1>3 DEF Accuses, WitInv
<1>12. CosignedPersisted' BY <1>1 DEF CosignedPersisted, WitInv
<1>13. Carries(pc[w], job[w])'
  <2>1. k.lost => lost' BY <1>1, <1>5
  <2>2. ASSUME state.prev # NoCp PROVE k.st.prev # NoCp /\ IsPrefix(state.prev.root, k.st.prev.root)
    <3>1. state.prev \in Checkpoint BY <1>0, <2>2 DEF TypeOK, State
    <3>2. CASE k.status = 200
      <4>1. k.cp \in Checkpoint BY <1>6 DEF Job
      <4>2. k.cp # NoCp BY <4>1 DEF Checkpoint, NoCp
      <4> QED BY <1>4, <2>2, <3>2, <4>2
    <3>3. CASE k.status # 200
      <4>1. k.st.prev = state.prev BY <1>4, <3>3
      <4>2. state.prev.root \in Seq(Leaves) BY <3>1, RootSeq DEF Checkpoint
      <4>3. IsPrefix(state.prev.root, state.prev.root) BY <4>2, PrefixRefl
      <4> QED BY <2>2, <4>1, <4>3
    <3> QED BY <3>2, <3>3
  <2>3. GoodJob(k, signed', state') BY <1>1, <1>4
  <2>4. pc'[w] = "reply" => k.status # 200 BY <1>4, <1>7, <1>8
  <2>5. k.cp \in signed' BY <1>1, <1>4
  <2> QED BY <1>1, <1>4, <1>5, <1>6, <2>1, <2>2, <2>3, <2>4, <2>5 DEF Carries
<1>14. kills' = 0 => ~cut'["evidence"] BY <1>1 DEF WitInv
<1>15. ASSUME Calm' PROVE Calm BY <1>1, <1>15 DEF Calm
<1>16. Calm' => EvidenceOnce' BY <1>1, <1>15 DEF WitInv, EvidenceOnce, Calm
<1>17. ASSUME Calm'
       PROVE  IF pc'[w] \in {"history", "save"} THEN Items(evidence') \subseteq Items(job'[w].st.seen)
                                                ELSE Items(evidence') \subseteq Items(state'.seen)
  <2>1. Items(evidence) \subseteq Items(state.seen) BY <1>0, <1>15, <1>17 DEF WitInv, Remembered, LockFree
  <2>2. ASSUME pc'[w] \in {"history", "save"} PROVE k.st.seen = state.seen
    <3>1. k.ev = {} BY <1>7, <1>8, <2>2
    <3>2. SeenOk(k, state.seen) BY <1>4 DEF GoodJob
    <3> QED BY <3>1, <3>2 DEF SeenOk
  <2> QED BY <1>1, <1>5, <2>1, <2>2
<1> QED BY <1>5, <1>8, <1>9, <1>10, <1>11, <1>12, <1>13, <1>14, <1>16, <1>17, Alone

\* A new item does not make a repetition.
LEMMA AppendOnce ==
  ASSUME NEW S, NEW s \in Seq(S), NEW e \in S, e \notin Items(s),
         \A i, j \in 1..Len(s) : s[i] = s[j] => i = j
  PROVE  \A i, j \in 1..Len(Append(s, e)) : Append(s, e)[i] = Append(s, e)[j] => i = j
<1> DEFINE n == Len(s)
           t == Append(s, e)
<1>1. n \in Nat BY LenProperties
<1>2. Len(t) = n + 1 /\ t[n + 1] = e /\ \A i \in 1..n : t[i] = s[i] BY AppendProperties
<1>3. \A i \in 1..n : t[i] # e BY <1>2 DEF Items
<1>4. \A i, j \in 1..n : s[i] = s[j] => i = j OBVIOUS
<1> HIDE DEF n, t
<1>5. ASSUME NEW i \in 1..(n + 1), NEW j \in 1..(n + 1), t[i] = t[j] PROVE i = j
  <2>1. i \in 1..n \/ i = n + 1 BY <1>1
  <2>2. j \in 1..n \/ j = n + 1 BY <1>1
  <2> QED BY <1>2, <1>3, <1>4, <1>5, <2>1, <2>2
<1> QED BY <1>2, <1>5 DEF t

\* The pair is appended to the evidence file.
LEMMA RecordEvidenceStep ==
  ASSUME WitInv, NEW w \in Workers, RecordEvidence(w)
  PROVE  WitInv'
<1> DEFINE j == job[w]
<1>0. TypeOK /\ pc[w] = "record" BY DEF WitInv, RecordEvidence
<1>1. PICK e \in j.ev : evidence' = Append(evidence, IF cut["evidence"] THEN Garbage ELSE e) BY DEF RecordEvidence
<1> DEFINE x == IF cut["evidence"] THEN Garbage ELSE e
<1>2. /\ cut' = [cut EXCEPT !["evidence"] = FALSE] /\ pc' = [pc EXCEPT ![w] = After(j, "record")]
      /\ state' = state /\ history' = history /\ job' = job /\ signed' = signed /\ answered' = answered
      /\ cosigned' = cosigned /\ lost' = lost /\ requests' = requests /\ fails' = fails /\ kills' = kills
  BY DEF RecordEvidence, ghost, budget
<1>3. Carries("record", j) BY <1>0 DEF WitInv
<1>4. j \in Job /\ GoodJob(j, signed, state) /\ (j.lost => lost) BY <1>3 DEF Carries
<1>5. After(j, "record") \in {"history", "save", "reply"} /\ (After(j, "record") = "reply" => ~ j.dirty) BY <1>4, NextStep
<1>6. pc'[w] = After(j, "record") /\ \A v \in Workers : v # w => pc'[v] = "idle" BY <1>0, <1>2, OthersIdle
<1>7. e \in Pair /\ Genuine(e, signed) BY <1>4 DEF Job, GoodJob
<1>8. evidence \in Seq(Pair \cup {Garbage}) /\ x \in Pair \cup {Garbage} /\ (x = Garbage \/ Genuine(x, signed))
  BY <1>0, <1>7 DEF TypeOK
<1>9. evidence' \in Seq(Pair \cup {Garbage}) /\ Items(evidence') = Items(evidence) \cup {x}
  <2>1. evidence' = Append(evidence, x) BY <1>1
  <2> HIDE DEF x
  <2> QED BY <1>8, <2>1, AppendItems
<1>10. TypeOK'
  <2>1. cut' \in [{"evidence", "history"} -> BOOLEAN] BY <1>0, <1>2 DEF TypeOK
  <2>2. pc' \in [Workers -> {"idle", "record", "history", "save", "reply"}] BY <1>0, <1>2, <1>5 DEF TypeOK
  <2>3. \A v \in Workers : pc'[v] # "idle" => job'[v] \in Job BY <1>2, <1>4, <1>6
  <2> QED BY <1>0, <1>2, <1>9, <2>1, <2>2, <2>3 DEF TypeOK
<1>11. GoodSt(state, signed)' /\ HistoryOk(signed)' /\ job' = [v \in Workers |-> job'[v]] /\ CosignedPersisted'
  BY <1>2 DEF WitInv, HistoryOk, CosignedPersisted
<1>12. Accuses' BY <1>2, <1>8, <1>9 DEF WitInv, Accuses
<1>13. Carries(pc[w], job[w])' BY <1>2, <1>3, <1>5, <1>6 DEF Carries
<1>14. ~cut'["evidence"] BY <1>0, <1>2 DEF TypeOK
<1>15. ASSUME Calm'
       PROVE  /\ EvidenceOnce'
              /\ IF pc'[w] \in {"history", "save"} THEN Items(evidence') \subseteq Items(job'[w].st.seen)
                                                   ELSE Items(evidence') \subseteq Items(state'.seen)
  <2>1. Calm /\ ~ cut["evidence"] BY <1>2, <1>15 DEF Calm, WitInv
  <2>2. x = e BY <2>1
  <2>3. \A v \in Workers : v # w => pc[v] = "idle" BY <1>0 DEF WitInv, OneAtATime
  <2>4. Items(evidence) \subseteq Items(state.seen)
    <3>1. \A v \in Workers : pc[v] \notin {"history", "save"} BY <1>0, <2>3
    <3> QED BY <2>1, <3>1 DEF WitInv, Remembered
  <2>5. SeenOk(j, state.seen) /\ ~ j.lost BY <1>4, <2>1 DEF GoodJob, Calm
  <2>6. e \notin Items(state.seen) /\ j.st.seen = Append(state.seen, e) /\ j.dirty BY <2>5 DEF SeenOk
  <2>7. \A i, m \in 1..Len(evidence) : evidence[i] = evidence[m] => i = m BY <2>1 DEF WitInv, EvidenceOnce, Calm
  <2>8. EvidenceOnce'
    <3>1. e \notin Items(evidence) /\ evidence' = Append(evidence, e) BY <1>1, <2>2, <2>4, <2>6
    <3>2. e \in Pair \cup {Garbage} BY <1>7
    <3>3. \A i, m \in 1..Len(Append(evidence, e)) : Append(evidence, e)[i] = Append(evidence, e)[m] => i = m
      BY <1>8, <2>7, <3>1, <3>2, AppendOnce
    <3> QED BY <3>1, <3>3 DEF EvidenceOnce
  <2>9. pc'[w] \in {"history", "save"} BY <1>5, <1>6, <2>6
  <2>10. Items(j.st.seen) = Items(state.seen) \cup {e}
    <3>1. state.seen \in Seq(Pair) BY <1>0 DEF TypeOK, State
    <3> QED BY <1>7, <2>6, <3>1, AppendItems
  <2> QED BY <1>2, <1>9, <2>2, <2>4, <2>8, <2>9, <2>10
<1> QED BY <1>6, <1>10, <1>11, <1>12, <1>13, <1>14, <1>15, Alone

\* The cosigned checkpoint is appended to the history.
LEMMA RecordHistoryStep ==
  ASSUME WitInv, NEW w \in Workers, RecordHistory(w)
  PROVE  WitInv'
<1> DEFINE j == job[w]
           x == IF cut["history"] THEN NoCp ELSE j.cp
<1>0. TypeOK /\ pc[w] = "history" BY DEF WitInv, RecordHistory
<1>1. history' = Append(history, x) BY DEF RecordHistory
<1>2. /\ cut' = [cut EXCEPT !["history"] = FALSE] /\ pc' = [pc EXCEPT ![w] = After(j, "history")]
      /\ state' = state /\ evidence' = evidence /\ job' = job /\ signed' = signed /\ answered' = answered
      /\ cosigned' = cosigned /\ lost' = lost /\ requests' = requests /\ fails' = fails /\ kills' = kills
  BY DEF RecordHistory, ghost, budget
<1>3. Carries("history", j) BY <1>0 DEF WitInv
<1>4. j \in Job /\ GoodJob(j, signed, state) /\ j.cp \in signed /\ j.cp \in Checkpoint BY <1>3 DEF Carries, Job
<1>5. After(j, "history") \in {"save", "reply"} /\ (After(j, "history") = "reply" => ~ j.dirty) BY <1>4, NextStep
<1>6. pc'[w] = After(j, "history") /\ \A v \in Workers : v # w => pc'[v] = "idle" BY <1>0, <1>2, OthersIdle
<1>7. history' \in Seq(Checkpoint \cup {NoCp}) /\ Items(history') = Items(history) \cup {x}
  <2>1. history \in Seq(Checkpoint \cup {NoCp}) /\ x \in Checkpoint \cup {NoCp} BY <1>0, <1>4 DEF TypeOK
  <2> HIDE DEF x
  <2> QED BY <1>1, <2>1, AppendItems
<1>8. HistoryOk(signed)' BY <1>2, <1>4, <1>7 DEF WitInv, HistoryOk
<1>9. TypeOK'
  <2>1. cut' \in [{"evidence", "history"} -> BOOLEAN] BY <1>0, <1>2 DEF TypeOK
  <2>2. pc' \in [Workers -> {"idle", "record", "history", "save", "reply"}] BY <1>0, <1>2, <1>5 DEF TypeOK
  <2>3. \A v \in Workers : pc'[v] # "idle" => job'[v] \in Job BY <1>2, <1>4, <1>6
  <2> QED BY <1>0, <1>2, <1>7, <2>1, <2>2, <2>3 DEF TypeOK
<1>10. GoodSt(state, signed)' /\ job' = [v \in Workers |-> job'[v]] /\ CosignedPersisted' /\ Accuses'
  BY <1>2 DEF WitInv, Accuses, CosignedPersisted
<1>11. Carries(pc[w], job[w])' BY <1>2, <1>3, <1>5, <1>6 DEF Carries
<1>12. kills' = 0 => ~cut'["evidence"]
  <2>1. cut'["evidence"] = cut["evidence"] BY <1>0, <1>2 DEF TypeOK
  <2> QED BY <1>2, <2>1 DEF WitInv
<1>13. ASSUME Calm'
       PROVE  /\ EvidenceOnce'
              /\ IF pc'[w] \in {"history", "save"} THEN Items(evidence') \subseteq Items(job'[w].st.seen)
                                                   ELSE Items(evidence') \subseteq Items(state'.seen)
  <2>1. Calm BY <1>2, <1>13 DEF Calm
  <2>2. EvidenceOnce' BY <1>2, <2>1 DEF WitInv, EvidenceOnce
  <2>3. Items(evidence) \subseteq Items(j.st.seen) BY <1>0, <2>1 DEF WitInv, Remembered
  <2>4. ~ j.dirty => j.st.seen = state.seen BY <1>4 DEF GoodJob, SeenOk
  <2> QED BY <1>2, <1>5, <1>6, <2>2, <2>3, <2>4
<1> QED BY <1>6, <1>8, <1>9, <1>10, <1>11, <1>12, <1>13, Alone

\* The state file is replaced.
LEMMA SaveStateStep ==
  ASSUME WitInv, NEW w \in Workers, SaveState(w)
  PROVE  WitInv' /\ (state.prev # NoCp => IsPrefix(state.prev.root, state'.prev.root))
<1> DEFINE j == job[w]
<1>0. TypeOK /\ pc[w] = "save" BY DEF WitInv, SaveState
<1>1. /\ state' = j.st /\ pc' = [pc EXCEPT ![w] = After(j, "save")]
      /\ evidence' = evidence /\ history' = history /\ cut' = cut /\ job' = job /\ signed' = signed /\ answered' = answered
      /\ cosigned' = cosigned /\ lost' = lost /\ requests' = requests /\ fails' = fails /\ kills' = kills
  BY DEF SaveState, ghost, budget
<1>2. Carries("save", j) BY <1>0 DEF WitInv
<1>3. j \in Job /\ j.st \in State /\ GoodSt(j.st, signed) BY <1>2 DEF Carries, GoodJob, GoodSt
<1>4. state.prev # NoCp => j.st.prev # NoCp /\ IsPrefix(state.prev.root, j.st.prev.root) BY <1>2 DEF Carries
<1>5. pc'[w] = "reply" /\ \A v \in Workers : v # w => pc'[v] = "idle" BY <1>0, <1>1, <1>3, OthersIdle, NextStep
<1>6. TypeOK'
  <2>1. After(j, "save") = "reply" BY <1>3, NextStep
  <2>2. pc' \in [Workers -> {"idle", "record", "history", "save", "reply"}] BY <1>0, <1>1, <2>1 DEF TypeOK
  <2>3. \A v \in Workers : pc'[v] # "idle" => job'[v] \in Job BY <1>1, <1>3, <1>5
  <2> QED BY <1>0, <1>1, <1>3, <2>2, <2>3 DEF TypeOK
<1>7. /\ GoodSt(state, signed)' /\ HistoryOk(signed)' /\ job' = [v \in Workers |-> job'[v]] /\ Accuses'
      /\ (kills' = 0 => ~cut'["evidence"])
  BY <1>1, <1>3 DEF WitInv, HistoryOk, Accuses
<1>8. CosignedPersisted'
  <2>1. ASSUME NEW c \in cosigned PROVE j.st.prev # NoCp /\ IsPrefix(c.root, j.st.prev.root)
    <3>1. state.prev # NoCp /\ IsPrefix(c.root, state.prev.root) BY DEF WitInv, CosignedPersisted
    <3>2. j.st.prev # NoCp /\ IsPrefix(state.prev.root, j.st.prev.root) BY <1>4, <3>1
    <3>3. c \in Checkpoint /\ state.prev \in Checkpoint /\ j.st.prev \in Checkpoint BY <1>0, <1>3, <3>1, <3>2 DEF TypeOK, State
    <3>4. c.root \in Seq(Leaves) /\ state.prev.root \in Seq(Leaves) /\ j.st.prev.root \in Seq(Leaves)
      BY <3>3, RootSeq DEF Checkpoint
    <3>5. IsPrefix(c.root, j.st.prev.root) BY <3>1, <3>2, <3>4, PrefixTrans
    <3> QED BY <3>2, <3>5
  <2> QED BY <1>1, <2>1 DEF CosignedPersisted
<1>9. Carries(pc[w], job[w])' BY <1>1, <1>2, <1>5 DEF Carries
<1>10. ASSUME Calm'
       PROVE  /\ EvidenceOnce'
              /\ IF pc'[w] \in {"history", "save"} THEN Items(evidence') \subseteq Items(job'[w].st.seen)
                                                   ELSE Items(evidence') \subseteq Items(state'.seen)
  <2>1. Calm BY <1>1, <1>10 DEF Calm
  <2>2. EvidenceOnce' BY <1>1, <2>1 DEF WitInv, EvidenceOnce
  <2>3. Items(evidence) \subseteq Items(j.st.seen) BY <1>0, <2>1 DEF WitInv, Remembered
  <2> QED BY <1>1, <1>5, <2>2, <2>3
<1>11. WitInv' BY <1>5, <1>6, <1>7, <1>8, <1>9, <1>10, Alone
<1> QED BY <1>1, <1>4, <1>11

\* A request ends: by its answer, a failed write or a kill.
LEMMA LeaveStep ==
  ASSUME WitInv, NEW w \in Workers, pc[w] # "idle", Leave(w), TypeOK', CosignedPersisted',
         state' = state, evidence' = evidence, history' = history, signed' = signed, lost' = lost,
         kills' = 0 => ~cut'["evidence"],
         Calm' => Calm /\ pc[w] = "reply"
  PROVE  WitInv'
<1>1. pc' = [pc EXCEPT ![w] = "idle"] /\ job' = [job EXCEPT ![w] = NoJob] BY DEF Leave
<1>2. pc'[w] = "idle" /\ \A v \in Workers : v # w => pc'[v] = "idle" BY <1>1, OthersIdle
<1>3. job' = [v \in Workers |-> job'[v]] BY <1>1 DEF WitInv
<1>4. GoodSt(state, signed)' /\ HistoryOk(signed)' /\ Accuses' BY DEF WitInv, HistoryOk, Accuses
<1>5. ASSUME Calm'
       PROVE  /\ EvidenceOnce'
              /\ IF pc'[w] \in {"history", "save"} THEN Items(evidence') \subseteq Items(job'[w].st.seen)
                                                   ELSE Items(evidence') \subseteq Items(state'.seen)
  <2>1. Calm /\ pc[w] = "reply" BY <1>5
  <2>2. EvidenceOnce' BY <2>1 DEF WitInv, EvidenceOnce, Calm
  <2>3. \A v \in Workers : pc[v] \notin {"history", "save"} BY <2>1 DEF WitInv, OneAtATime
  <2>4. Items(evidence) \subseteq Items(state.seen) BY <2>1, <2>3 DEF WitInv, Remembered
  <2> QED BY <1>2, <2>2, <2>4
<1> QED BY <1>2, <1>3, <1>4, <1>5, Alone

\* The types of a request that ends.
LEMMA LeaveTypes ==
  ASSUME TypeOK, NEW w \in Workers, Leave(w), job = [v \in Workers |-> job[v]]
  PROVE  /\ pc' \in [Workers -> {"idle", "record", "history", "save", "reply"}]
         /\ \A v \in Workers : pc'[v] # "idle" => job'[v] \in Job
BY DEF TypeOK, Leave

\* The answer is sent.
LEMMA ReplyStep ==
  ASSUME WitInv, NEW w \in Workers, Reply(w)
  PROVE  WitInv'
<1> DEFINE j == job[w]
<1>0. TypeOK /\ pc[w] = "reply" /\ Leave(w) BY DEF WitInv, Reply
<1>1. /\ answered' = answered \cup {j.cp} /\ cosigned' = IF j.status = 200 THEN cosigned \cup {j.cp} ELSE cosigned
      /\ state' = state /\ evidence' = evidence /\ history' = history /\ cut' = cut /\ signed' = signed
      /\ lost' = lost /\ requests' = requests /\ fails' = fails /\ kills' = kills
  BY DEF Reply, files, budget
<1>2. Carries("reply", j) BY <1>0 DEF WitInv
<1>3. j.cp \in signed /\ j.cp \in Checkpoint /\ (j.status = 200 => state.prev = j.cp) BY <1>2 DEF Carries, Job
<1>4. TypeOK' BY <1>0, <1>1, <1>3, LeaveTypes DEF TypeOK, WitInv
<1>5. CosignedPersisted'
  <2>1. ASSUME j.status = 200 PROVE state.prev # NoCp /\ IsPrefix(j.cp.root, state.prev.root)
    <3>1. state.prev = j.cp BY <1>3, <2>1
    <3>2. j.cp # NoCp BY <1>3 DEF Checkpoint, NoCp
    <3>3. j.cp.root \in Seq(Leaves) BY <1>3, RootSeq DEF Checkpoint
    <3>4. IsPrefix(j.cp.root, j.cp.root) BY <3>3, PrefixRefl
    <3> QED BY <3>1, <3>2, <3>4
  <2>2. CASE j.status = 200 BY <1>1, <2>1, <2>2 DEF WitInv, CosignedPersisted
  <2>3. CASE j.status # 200 BY <1>1, <2>3 DEF WitInv, CosignedPersisted
  <2> QED BY <2>2, <2>3
<1>6. Calm' => Calm /\ pc[w] = "reply" BY <1>0, <1>1 DEF Calm
<1>7. kills' = 0 => ~cut'["evidence"] BY <1>1 DEF WitInv
<1> QED BY <1>0, <1>1, <1>4, <1>5, <1>6, <1>7, LeaveStep

\* A write fails and is undone.
LEMMA WriteFailsStep ==
  ASSUME WitInv, NEW w \in Workers, WriteFails(w)
  PROVE  WitInv'
<1>0. TypeOK /\ pc[w] # "idle" /\ Leave(w) BY DEF WitInv, WriteFails
<1>1. /\ state' = state /\ evidence' = evidence /\ history' = history /\ cut' = cut /\ signed' = signed /\ answered' = answered
      /\ cosigned' = cosigned /\ lost' = lost /\ requests' = requests /\ fails' = fails + 1 /\ kills' = kills /\ fails < MaxFails
  BY DEF WriteFails, files, ghost
<1>2. fails' \in 0..MaxFails /\ fails' # 0 BY <1>0, <1>1, WitnessConstants DEF TypeOK
<1>3. TypeOK' BY <1>0, <1>1, <1>2, LeaveTypes DEF TypeOK, WitInv
<1>4. CosignedPersisted' BY <1>1 DEF WitInv, CosignedPersisted
<1>5. ~ Calm' BY <1>2 DEF Calm
<1>6. kills' = 0 => ~cut'["evidence"] BY <1>1 DEF WitInv
<1> QED BY <1>0, <1>1, <1>3, <1>4, <1>5, <1>6, LeaveStep

\* A worker is killed.
LEMMA KillStep ==
  ASSUME WitInv, NEW w \in Workers, Kill(w)
  PROVE  WitInv'
<1>0. TypeOK /\ pc[w] # "idle" /\ Leave(w) BY DEF WitInv, Kill
<1>1. /\ state' = state /\ evidence' = evidence /\ history' = history /\ signed' = signed /\ answered' = answered
      /\ cosigned' = cosigned /\ lost' = lost /\ requests' = requests /\ fails' = fails /\ kills' = kills + 1 /\ kills < MaxKills
  BY DEF Kill, ghost
<1>2. kills' \in 0..MaxKills /\ kills' # 0 BY <1>0, <1>1, WitnessConstants DEF TypeOK
<1>3. cut' \in [{"evidence", "history"} -> BOOLEAN] BY <1>0 DEF TypeOK, Kill
<1>4. TypeOK' BY <1>0, <1>1, <1>2, <1>3, LeaveTypes DEF TypeOK, WitInv
<1>5. CosignedPersisted' BY <1>1 DEF WitInv, CosignedPersisted
<1>6. ~ Calm' BY <1>2 DEF Calm
<1> QED BY <1>0, <1>1, <1>2, <1>4, <1>5, <1>6, LeaveStep

\* Every step keeps the invariant, and replaces the stored checkpoint only by an
\* extension of it.
LEMMA WitStep == WitInv /\ [Next]_vars => WitInv' /\ (state.prev # NoCp => IsPrefix(state.prev.root, state'.prev.root))
<1> SUFFICES ASSUME WitInv, [Next]_vars
             PROVE  WitInv' /\ (state.prev # NoCp => IsPrefix(state.prev.root, state'.prev.root))
  OBVIOUS
<1>1. ASSUME state' = state, state.prev # NoCp PROVE IsPrefix(state.prev.root, state'.prev.root)
  <2>1. state.prev \in Checkpoint BY <1>1 DEF WitInv, TypeOK, State
  <2>2. state.prev.root \in Seq(Leaves) BY <2>1, RootSeq DEF Checkpoint
  <2> QED BY <1>1, <2>2, PrefixRefl
<1>2. CASE UNCHANGED vars
  <2>1. /\ state' = state /\ evidence' = evidence /\ history' = history /\ cut' = cut /\ pc' = pc /\ job' = job /\ signed' = signed
        /\ answered' = answered /\ cosigned' = cosigned /\ lost' = lost /\ requests' = requests /\ fails' = fails /\ kills' = kills
    BY <1>2 DEF vars, files, ghost, budget
  <2>2. WitInv'
    <3>1. TypeOK' BY <2>1 DEF WitInv, TypeOK
    <3>2. GoodSt(state, signed)' /\ HistoryOk(signed)' /\ Accuses' /\ CosignedPersisted' /\ OneAtATime'
      BY <2>1 DEF WitInv, HistoryOk, Accuses, CosignedPersisted, OneAtATime
    <3>3. \A w \in Workers : pc'[w] # "idle" => Carries(pc[w], job[w])' BY <2>1 DEF WitInv, Carries
    <3>4. Calm' => EvidenceOnce' /\ Remembered' BY <2>1 DEF WitInv, Calm, EvidenceOnce, Remembered
    <3> QED BY <2>1, <3>1, <3>2, <3>3, <3>4 DEF WitInv
  <2> QED BY <1>1, <2>1, <2>2
<1>3. CASE Next
  <2>1. PICK w \in Workers :
          \/ \E r \in Request : Enter(w, r)
          \/ RecordEvidence(w) \/ RecordHistory(w) \/ SaveState(w) \/ Reply(w)
          \/ WriteFails(w) \/ Kill(w)
    BY <1>3 DEF Next
  <2>2. CASE \E r \in Request : Enter(w, r) BY <1>1, <2>2, EnterStep DEF Enter, files
  <2>3. CASE RecordEvidence(w) BY <1>1, <2>3, RecordEvidenceStep DEF RecordEvidence
  <2>4. CASE RecordHistory(w) BY <1>1, <2>4, RecordHistoryStep DEF RecordHistory
  <2>5. CASE SaveState(w) BY <2>5, SaveStateStep
  <2>6. CASE Reply(w) BY <1>1, <2>6, ReplyStep DEF Reply, files
  <2>7. CASE WriteFails(w) BY <1>1, <2>7, WriteFailsStep DEF WriteFails, files
  <2>8. CASE Kill(w) BY <1>1, <2>8, KillStep DEF Kill
  <2> QED BY <2>1, <2>2, <2>3, <2>4, <2>5, <2>6, <2>7, <2>8
<1> QED BY <1>2, <1>3

-----------------------------------------------------------------------------
(* Split views *)

\* Nothing was forgotten and no line is fused with a cut one.
Clear == ~lost /\ Intact

\* The history and the evidence once the writes a request has still to do are done.
PastWith(p, j)  == Items(history) \cup (IF j.new /\ p \in {"record", "history"} THEN {j.cp} ELSE {})
PairsWith(p, j) == Items(evidence) \cup (IF p = "record" THEN j.ev ELSE {})

\* A request under way leaves the books in order, its own answer included; they are
\* the ones on disk before it is answered.
JobBooks(p, j) ==
  /\ Books(answered \cup {j.cp}, j.st, PastWith(p, j), PairsWith(p, j))
  /\ p = "reply" => j.st = state

\* The second inductive invariant: the books are in order on disk, whenever a request
\* is cut short, and in each request under way.
SplitInv ==
  Clear => /\ Books(answered, state, Items(history), Items(evidence))
           /\ \A w \in Workers : pc[w] # "idle" => JobBooks(pc[w], job[w])

\* It holds at the start.
LEMMA SplitInit == Init => SplitInv
<1> SUFFICES ASSUME Init PROVE SplitInv
  OBVIOUS
<1>1. /\ state.prev = NoCp /\ state.seen = << >> /\ answered = {} /\ \A w \in Workers : pc[w] = "idle"
  BY DEF Init
<1>2. Items(<< >>) = {} BY DEF Items
<1> QED BY <1>1, <1>2 DEF SplitInv, Books

\* The lock is taken and the request decided.
LEMMA EnterSplit ==
  ASSUME WitInv, SplitInv, NEW w \in Workers, NEW r \in Request, Enter(w, r)
  PROVE  SplitInv'
<1> SUFFICES ASSUME Clear' PROVE /\ Books(answered, state, Items(history), Items(evidence))'
                                /\ \A v \in Workers : pc'[v] # "idle" => JobBooks(pc[v], job[v])'
  BY DEF SplitInv
<1> DEFINE k == Outcome(r)
           S == signed \cup {r.cp}
           p == Step(k, 1)
<1>0. TypeOK /\ pc[w] = "idle" /\ LockFree BY DEF WitInv, Enter
<1>1. /\ job' = [job EXCEPT ![w] = k] /\ pc' = [pc EXCEPT ![w] = Step(job'[w], 1)] /\ lost' = (lost \/ job'[w].lost)
      /\ state' = state /\ evidence' = evidence /\ history' = history /\ answered' = answered
  BY DEF Enter, files
<1>2. job'[w] = k BY <1>1 DEF WitInv
<1>3. pc'[w] = p /\ \A v \in Workers : v # w => pc'[v] = "idle"
  <2>1. pc' = [pc EXCEPT ![w] = p] BY <1>1, <1>2
  <2> HIDE DEF p
  <2> QED BY <1>0, <2>1, OthersIdle
<1>4. Clear /\ ~ k.lost BY <1>1, <1>2 DEF Clear, Intact
<1>5. Books(answered, state, Items(history), Items(evidence)) BY <1>4 DEF SplitInv
<1>6. r.cp \in Checkpoint /\ S \subseteq Checkpoint /\ answered \in SUBSET S BY <1>0 DEF TypeOK, Request, Presentable
<1>7. GoodSt(state, S) /\ HistoryOk(S)
  <2>1. GoodSt(state, signed) /\ HistoryOk(signed) /\ signed \subseteq S BY DEF WitInv
  <2> HIDE DEF S
  <2> QED BY <2>1, GoodGrows
<1>8. GoodJob(k, S, state) /\ k.cp = r.cp
  <2>1. r.cp \in S OBVIOUS
  <2> HIDE DEF S, k
  <2> QED BY <1>6, <1>7, <2>1, OutcomeGood DEF k
<1>9. Books(answered \cup {r.cp}, k.st, Past(k), Items(evidence) \cup k.ev)
  <2> DEFINE A == answered
             E == Items(evidence)
  <2>1. r.cp \in S /\ A \in SUBSET S /\ Books(A, state, Items(history), E) /\ ~ Outcome(r).lost BY <1>4, <1>5, <1>6
  <2> HIDE DEF S, A, E, k
  <2>2. Books(A \cup {r.cp}, Outcome(r).st, Past(Outcome(r)), E \cup Outcome(r).ev)
    BY <1>6, <1>7, <2>1, OutcomeBooks
  <2> QED BY <2>2 DEF A, E, k
<1>10. k \in Job BY <1>8 DEF GoodJob
<1> HIDE DEF k
<1>11. /\ p # "record" => k.ev = {}
       /\ p \notin {"record", "history"} => ~ k.new
       /\ p = "reply" => ~ k.dirty
  BY <1>10, FirstStep
<1> HIDE DEF p
<1>12. PastWith(p, k) = Past(k) BY <1>11 DEF Past, PastWith
<1>13. PairsWith(p, k) = Items(evidence) \cup k.ev BY <1>11 DEF PairsWith
<1>14. JobBooks(p, k)
  <2>1. p = "reply" => k.st = state BY <1>8, <1>11 DEF GoodJob
  <2> QED BY <1>8, <1>9, <1>12, <1>13, <2>1 DEF JobBooks
<1>15. JobBooks(pc[w], job[w])' BY <1>1, <1>2, <1>3, <1>14 DEF JobBooks, PastWith, PairsWith
<1> QED BY <1>1, <1>3, <1>5, <1>15

\* A write of a request: what it writes moves from the request to the file.
LEMMA WriteSplit ==
  ASSUME WitInv, SplitInv, NEW w \in Workers, pc[w] # "idle", NEW x, pc' = [pc EXCEPT ![w] = x], job' = job,
         answered' = answered, lost' = lost, state' = state,
         Items(evidence) \subseteq Items(evidence'), Items(history) \subseteq Items(history'),
         Clear' => PastWith(pc[w], job[w]) \subseteq PastWith(x, job[w])' /\ PairsWith(pc[w], job[w]) \subseteq PairsWith(x, job[w])',
         x = "reply" => job[w].st = state
  PROVE  SplitInv'
<1> SUFFICES ASSUME Clear' PROVE /\ Books(answered, state, Items(history), Items(evidence))'
                                /\ \A v \in Workers : pc'[v] # "idle" => JobBooks(pc[v], job[v])'
  BY DEF SplitInv
<1>1. Clear BY DEF Clear, Intact
<1>2. Books(answered, state, Items(history), Items(evidence)) /\ JobBooks(pc[w], job[w]) BY <1>1 DEF SplitInv
<1>3. pc'[w] = x /\ \A v \in Workers : v # w => pc'[v] = "idle" BY OthersIdle
<1>4. Books(answered, state, Items(history), Items(evidence))'
  <2> DEFINE A == answered
             st == state
             H == Items(history)
             G == Items(history')
             E == Items(evidence)
             F == Items(evidence')
  <2>1. Books(A, st, H, E) /\ A \subseteq A /\ H \subseteq G /\ E \subseteq F BY <1>2
  <2> HIDE DEF A, st, H, G, E, F
  <2>2. Books(A, st, G, F) BY <2>1, BooksGrow
  <2> QED BY <2>2 DEF A, st, G, F
<1>5. JobBooks(x, job[w])'
  <2> DEFINE A == answered \cup {job[w].cp}
             st == job[w].st
             H == PastWith(pc[w], job[w])
             G == PastWith(x, job[w])'
             E == PairsWith(pc[w], job[w])
             F == PairsWith(x, job[w])'
  <2>1. Books(A, st, H, E) /\ A \subseteq A /\ H \subseteq G /\ E \subseteq F BY <1>2 DEF JobBooks
  <2> HIDE DEF A, st, H, G, E, F
  <2>2. Books(A, st, G, F) BY <2>1, BooksGrow
  <2> QED BY <2>2 DEF A, st, G, F, JobBooks
<1> QED BY <1>3, <1>4, <1>5

\* The pair is appended to the evidence.
LEMMA RecordEvidenceSplit ==
  ASSUME WitInv, SplitInv, NEW w \in Workers, RecordEvidence(w)
  PROVE  SplitInv'
<1> DEFINE j == job[w]
<1>x. PICK x : x = After(j, "record") OBVIOUS
<1>0. TypeOK /\ pc[w] = "record" BY DEF WitInv, RecordEvidence
<1>1. /\ pc' = [pc EXCEPT ![w] = x] /\ state' = state /\ history' = history /\ job' = job
      /\ answered' = answered /\ lost' = lost
  BY <1>x DEF RecordEvidence, ghost
<1>2. Carries("record", j) BY <1>0 DEF WitInv
<1>3. j \in Job /\ GoodJob(j, signed, state) BY <1>2 DEF Carries
<1>4. PICK e \in j.ev : evidence' = Append(evidence, IF cut["evidence"] THEN Garbage ELSE e) BY DEF RecordEvidence
<1>5. e \in Pair /\ j.ev = {e} BY <1>3 DEF GoodJob, SeenOk, Job
<1> DEFINE y == IF cut["evidence"] THEN Garbage ELSE e
<1>6. Items(evidence') = Items(evidence) \cup {y}
  <2>1. evidence \in Seq(Pair \cup {Garbage}) /\ y \in Pair \cup {Garbage} BY <1>0, <1>5 DEF TypeOK
  <2>2. evidence' = Append(evidence, y) BY <1>4
  <2> HIDE DEF y
  <2> QED BY <2>1, <2>2, AppendItems
<1>7. /\ x \in {"history", "save", "reply"} /\ (x = "reply" => ~ j.dirty) /\ (x \in {"save", "reply"} => ~ j.new)
  BY <1>3, <1>x, NextStep
<1>8. x = "reply" => j.st = state BY <1>3, <1>7 DEF GoodJob
<1>9. ASSUME Clear' PROVE PastWith("record", j) \subseteq PastWith(x, j)' /\ PairsWith("record", j) \subseteq PairsWith(x, j)'
  <2>1. y = e BY <1>6, <1>9 DEF Clear, Intact
  <2>2. PairsWith("record", j) \subseteq Items(evidence') BY <1>5, <1>6, <2>1 DEF PairsWith
  <2>3. PairsWith(x, j)' = Items(evidence') BY <1>1, <1>7 DEF PairsWith
  <2>4. PastWith("record", j) = PastWith(x, j)' BY <1>1, <1>7 DEF PastWith
  <2> QED BY <2>2, <2>3, <2>4
<1> QED BY <1>0, <1>1, <1>6, <1>8, <1>9, WriteSplit

\* The cosigned checkpoint is appended to the history.
LEMMA RecordHistorySplit ==
  ASSUME WitInv, SplitInv, NEW w \in Workers, RecordHistory(w)
  PROVE  SplitInv'
<1> DEFINE j == job[w]
           y == IF cut["history"] THEN NoCp ELSE j.cp
<1>x. PICK x : x = After(j, "history") OBVIOUS
<1>0. TypeOK /\ pc[w] = "history" BY DEF WitInv, RecordHistory
<1>1. /\ pc' = [pc EXCEPT ![w] = x] /\ state' = state /\ evidence' = evidence /\ job' = job
      /\ answered' = answered /\ lost' = lost /\ history' = Append(history, y)
  BY <1>x DEF RecordHistory, ghost
<1>2. Carries("history", j) BY <1>0 DEF WitInv
<1>3. j \in Job /\ GoodJob(j, signed, state) /\ j.cp \in Checkpoint BY <1>2 DEF Carries, Job
<1>6. Items(history') = Items(history) \cup {y}
  <2>1. history \in Seq(Checkpoint \cup {NoCp}) /\ y \in Checkpoint \cup {NoCp} BY <1>0, <1>3 DEF TypeOK
  <2> HIDE DEF y
  <2> QED BY <1>1, <2>1, AppendItems
<1>7. x \in {"save", "reply"} /\ (x = "reply" => ~ j.dirty) BY <1>3, <1>x, NextStep
<1>8. x = "reply" => j.st = state BY <1>3, <1>7 DEF GoodJob
<1>9. ASSUME Clear' PROVE PastWith("history", j) \subseteq PastWith(x, j)' /\ PairsWith("history", j) \subseteq PairsWith(x, j)'
  <2>1. y = j.cp BY <1>6, <1>9 DEF Clear, Intact
  <2>2. PastWith("history", j) \subseteq Items(history') BY <1>6, <2>1 DEF PastWith
  <2>3. PastWith(x, j)' = Items(history') BY <1>1, <1>7 DEF PastWith
  <2>4. PairsWith("history", j) = PairsWith(x, j)' BY <1>1, <1>7 DEF PairsWith
  <2> QED BY <2>2, <2>3, <2>4
<1> QED BY <1>0, <1>1, <1>6, <1>8, <1>9, WriteSplit

\* The state file is replaced: the books of the request are those on disk.
LEMMA SaveStateSplit ==
  ASSUME WitInv, SplitInv, NEW w \in Workers, SaveState(w)
  PROVE  SplitInv'
<1> SUFFICES ASSUME Clear' PROVE /\ Books(answered, state, Items(history), Items(evidence))'
                                /\ \A v \in Workers : pc'[v] # "idle" => JobBooks(pc[v], job[v])'
  BY DEF SplitInv
<1> DEFINE j == job[w]
<1>0. TypeOK /\ pc[w] = "save" BY DEF WitInv, SaveState
<1>1. /\ state' = j.st /\ pc' = [pc EXCEPT ![w] = After(j, "save")] /\ evidence' = evidence /\ history' = history
      /\ job' = job /\ answered' = answered /\ lost' = lost
  BY DEF SaveState, ghost
<1>2. Carries("save", j) BY <1>0 DEF WitInv
<1>3. After(j, "save") = "reply" BY <1>2, NextStep DEF Carries
<1>4. pc'[w] = "reply" /\ \A v \in Workers : v # w => pc'[v] = "idle" BY <1>0, <1>1, <1>3, OthersIdle
<1>5. Clear BY <1>1 DEF Clear, Intact
<1>6. JobBooks("save", j) BY <1>0, <1>5 DEF SplitInv
<1>7. Books(answered \cup {j.cp}, j.st, Items(history), Items(evidence)) BY <1>6 DEF JobBooks, PastWith, PairsWith
<1>8. Books(answered, j.st, Items(history), Items(evidence))
  <2> DEFINE A == answered \cup {j.cp}
             B == answered
             st == j.st
             H == Items(history)
             E == Items(evidence)
  <2>1. Books(A, st, H, E) /\ B \subseteq A /\ H \subseteq H /\ E \subseteq E BY <1>7
  <2> HIDE DEF A, B, st, H, E
  <2>2. Books(B, st, H, E) BY <2>1, BooksGrow
  <2> QED BY <2>2 DEF B, st, H, E
<1>9. JobBooks("reply", j)' BY <1>1, <1>7 DEF JobBooks, PastWith, PairsWith
<1> QED BY <1>1, <1>4, <1>8, <1>9

\* The answer is sent: its root is in the books on disk.
LEMMA ReplySplit ==
  ASSUME WitInv, SplitInv, NEW w \in Workers, Reply(w)
  PROVE  SplitInv'
<1> SUFFICES ASSUME Clear' PROVE /\ Books(answered, state, Items(history), Items(evidence))'
                                /\ \A v \in Workers : pc'[v] # "idle" => JobBooks(pc[v], job[v])'
  BY DEF SplitInv
<1> DEFINE j == job[w]
<1>0. TypeOK /\ pc[w] = "reply" BY DEF WitInv, Reply
<1>1. /\ answered' = answered \cup {j.cp} /\ pc' = [pc EXCEPT ![w] = "idle"]
      /\ state' = state /\ evidence' = evidence /\ history' = history /\ lost' = lost
  BY DEF Reply, files, Leave
<1>2. pc'[w] = "idle" /\ \A v \in Workers : v # w => pc'[v] = "idle" BY <1>0, <1>1, OthersIdle
<1>3. Clear BY <1>1 DEF Clear, Intact
<1>4. JobBooks("reply", j) BY <1>0, <1>3 DEF SplitInv
<1>5. Books(answered \cup {j.cp}, state, Items(history), Items(evidence)) BY <1>4 DEF JobBooks, PastWith, PairsWith
<1> QED BY <1>1, <1>2, <1>5

\* A request is cut short: the books on disk are as they were.
LEMMA CutShortSplit ==
  ASSUME WitInv, SplitInv, NEW w \in Workers, pc[w] # "idle", Leave(w),
         state' = state, evidence' = evidence, history' = history, answered' = answered, lost' = lost
  PROVE  SplitInv'
<1>1. pc' = [pc EXCEPT ![w] = "idle"] BY DEF Leave
<1>2. pc'[w] = "idle" /\ \A v \in Workers : v # w => pc'[v] = "idle" BY <1>1, OthersIdle
<1>3. Clear' => Clear BY DEF Clear, Intact
<1> QED BY <1>2, <1>3 DEF SplitInv

\* Every step keeps the books.
LEMMA SplitStep == WitInv /\ SplitInv /\ [Next]_vars => SplitInv'
<1> SUFFICES ASSUME WitInv, SplitInv, [Next]_vars PROVE SplitInv'
  OBVIOUS
<1>1. CASE UNCHANGED vars
  <2>1. /\ state' = state /\ evidence' = evidence /\ history' = history /\ pc' = pc /\ job' = job
        /\ answered' = answered /\ lost' = lost
    BY <1>1 DEF vars, files, ghost
  <2> QED BY <2>1 DEF SplitInv, Clear, Intact, JobBooks, PastWith, PairsWith
<1>2. CASE Next
  <2>1. PICK w \in Workers :
          \/ \E r \in Request : Enter(w, r)
          \/ RecordEvidence(w) \/ RecordHistory(w) \/ SaveState(w) \/ Reply(w)
          \/ WriteFails(w) \/ Kill(w)
    BY <1>2 DEF Next
  <2>2. CASE \E r \in Request : Enter(w, r) BY <2>2, EnterSplit
  <2>3. CASE RecordEvidence(w) BY <2>3, RecordEvidenceSplit
  <2>4. CASE RecordHistory(w) BY <2>4, RecordHistorySplit
  <2>5. CASE SaveState(w) BY <2>5, SaveStateSplit
  <2>6. CASE Reply(w) BY <2>6, ReplySplit
  <2>7. CASE WriteFails(w) BY <2>7, CutShortSplit DEF WriteFails, files, ghost
  <2>8. CASE Kill(w) BY <2>8, CutShortSplit DEF Kill, ghost
  <2> QED BY <2>1, <2>2, <2>3, <2>4, <2>5, <2>6, <2>7, <2>8
<1> QED BY <1>1, <1>2

-----------------------------------------------------------------------------
(* Each root of a split view *)

\* At each size at which roots A were presented, one of them can still meet another.
Meets(A, st, H) == \A a \in A : a.size # 0 => \E b \in A : b.size = a.size /\ Kept(b, st, H)

\* Each of two roots that differ is in a pair.
Recorded(A, E) == \A a, b \in A : Split(a, b) => \E e \in E : e.size = a.size /\ a.root \in e.roots

\* Both hold in longer files.
LEMMA RootsGrow ==
  ASSUME NEW A, NEW st, NEW H, NEW G, NEW E, NEW F, H \subseteq G, E \subseteq F
  PROVE  (Meets(A, st, H) => Meets(A, st, G)) /\ (Recorded(A, E) => Recorded(A, F))
<1>1. \A c : Kept(c, st, H) => Kept(c, st, G) BY DEF Kept
<1>2. Meets(A, st, H) => Meets(A, st, G) BY <1>1 DEF Meets
<1>3. Recorded(A, E) => Recorded(A, F) BY DEF Recorded
<1> QED BY <1>2, <1>3

\* Checkpoints of one size and root are the same.
LEMMA SameCheckpoint ==
  ASSUME NEW a \in Checkpoint, NEW b \in Checkpoint, a.size = b.size, a.root = b.root
  PROVE  a = b
<1> DEFINE T == 0..MaxSize
<1>1. a \in [size : T, root : Roots] /\ b \in [size : T, root : Roots] BY DEF Checkpoint
<1> HIDE DEF T
<1> QED BY <1>1

\* A set of two elements has one beside any other.
LEMMA TwoOf ==
  ASSUME NEW S, Cardinality(S) = 2, NEW x
  PROVE  \E y \in S : y # x
<1> SUFFICES ASSUME S \subseteq {x} PROVE FALSE
  OBVIOUS
<1>1. IsFiniteSet({x}) /\ Cardinality({x}) = 1 BY FS_Singleton
<1>2. Cardinality(S) <= 1 BY <1>1, FS_Subset
<1> QED BY <1>2

\* A request that meets another root of its size finds a pair with its own; when
\* the roots known at that size were all one, that one is the other of the pair.
LEMMA RootsAfter ==
  ASSUME NEW S, NEW s0, NEW k, GoodJob(k, S, s0),
         NEW A, NEW H, NEW G, NEW E, S = A \cup {k.cp}, Meets(A, s0, H), Recorded(A, E),
         Items(s0.seen) \subseteq E, \A e \in Items(s0.seen) : Genuine(e, S),
         \A c \in S : c.size # 0 /\ Kept(c, s0, H) => Kept(c, k.st, G) \/ (k.paired /\ c.size = k.cp.size),
         k.cp.size # 0 => Kept(k.cp, k.st, G) \/ Supplanted(k),
         \A c : c.size # 0 /\ Kept(c, s0, H) /\ c.size = k.cp.size /\ c.root # k.cp.root => k.paired
  PROVE  Meets(S, k.st, G) /\ Recorded(S, E \cup k.ev)
<1> DEFINE n == k.cp.size
           F == E \cup k.ev
<1>0. S \subseteq Checkpoint /\ (\A c \in S : c.size \in Nat) /\ k.cp \in S
  BY WitnessConstants DEF GoodJob, Checkpoint
<1>1. Meets(S, k.st, G)
  <2> SUFFICES ASSUME NEW a \in S, a.size # 0 PROVE \E b \in S : b.size = a.size /\ Kept(b, k.st, G)
    BY DEF Meets
  <2>1. CASE a.size # n
    <3>1. PICK b \in A : b.size = a.size /\ Kept(b, s0, H) BY <2>1 DEF Meets
    <3> QED BY <2>1, <3>1
  <2>2. CASE a.size = n /\ Kept(k.cp, k.st, G) BY <1>0, <2>2
  <2>3. CASE a.size = n /\ Supplanted(k)
    <3> DEFINE b == k.st.prev
    <3>1. b # NoCp /\ b.size = n BY <2>3 DEF Supplanted
    <3>2. b \in S BY <3>1 DEF GoodJob, GoodSt
    <3>3. StoredSize(k.st) = b.size BY <3>1 DEF StoredSize
    <3>4. b.size \in Nat BY <1>0, <3>2
    <3>5. Kept(b, k.st, G) BY <3>3, <3>4 DEF Kept
    <3> QED BY <2>3, <3>1, <3>2, <3>5
  <2> QED BY <2>1, <2>2, <2>3
<1>2. ASSUME k.paired PROVE \E e \in F : e.size = n /\ k.cp.root \in e.roots /\ Genuine(e, S)
  <2>1. PICK e \in Items(s0.seen) \cup k.ev : e.size = n /\ k.cp.root \in e.roots BY <1>2 DEF GoodJob
  <2>2. Genuine(e, S) BY DEF GoodJob
  <2> QED BY <2>1, <2>2
<1> HIDE DEF F
<1>3. ASSUME NEW a \in S, NEW b \in S, Split(a, b) PROVE \E e \in F : e.size = a.size /\ a.root \in e.roots
  <2>1. a.size = b.size /\ a.root # b.root /\ a.size # 0 BY <1>3 DEF Split, BadEmpty
  <2>2. CASE a \in A /\ b \in A
    <3>1. \E e \in E : e.size = a.size /\ a.root \in e.roots BY <1>3, <2>2 DEF Recorded
    <3> QED BY <3>1 DEF F
  <2>3. CASE ~ (a \in A /\ b \in A)
    <3>1. a.size = n /\ \E c \in A : c.size = n BY <2>1, <2>3
    <3>2. PICK c \in A : c.size = n /\ Kept(c, s0, H) BY <2>1, <3>1 DEF Meets
    <3>3. c.root # k.cp.root
      <4>1. ASSUME c.root = k.cp.root PROVE FALSE
        <5>1. c = k.cp BY <1>0, <3>2, <4>1, SameCheckpoint DEF n
        <5> QED BY <2>3, <5>1
      <4> QED BY <4>1
    <3>4. k.paired BY <2>1, <3>1, <3>2, <3>3
    <3>5. PICK e \in F : e.size = n /\ k.cp.root \in e.roots /\ Genuine(e, S) BY <1>2, <3>4
    <3>6. CASE a.root = k.cp.root BY <3>1, <3>5, <3>6
    <3>7. CASE a.root # k.cp.root /\ \E d \in A : d.size = n /\ d.root # a.root
      <4>1. PICK d \in A : d.size = n /\ d.root # a.root BY <3>7
      <4>2. a \in A BY <3>7
      <4>3. Split(a, d) BY <2>1, <3>1, <4>1 DEF Split, BadEmpty
      <4>4. \E x \in E : x.size = a.size /\ a.root \in x.roots BY <4>1, <4>2, <4>3 DEF Recorded
      <4> QED BY <4>4 DEF F
    <3>8. CASE a.root # k.cp.root /\ \A d \in A : d.size = n => d.root = a.root
      <4>1. PICK q \in e.roots : q # k.cp.root BY <3>5, TwoOf DEF Genuine
      <4>2. [size |-> e.size, root |-> q] \in S BY <3>5 DEF Genuine
      <4>3. PICK d \in S : d.size = n /\ d.root = q BY <3>5, <4>2
      <4>4. d # k.cp BY <4>1, <4>3
      <4>5. q = a.root BY <3>8, <4>3, <4>4
      <4> QED BY <3>1, <3>5, <4>5
    <3> QED BY <3>6, <3>7, <3>8
  <2> QED BY <2>2, <2>3
<1>4. Recorded(S, F) BY <1>3 DEF Recorded
<1> QED BY <1>1, <1>4 DEF F

\* A request under way: its root and those answered are the ones presented, one of
\* each size can still meet another, and once its pair is written each of two that
\* differ is in a pair.
JobRoots(p, j) ==
  /\ signed = answered \cup {j.cp}
  /\ Meets(answered \cup {j.cp}, j.st, PastWith(p, j))
  /\ Recorded(answered \cup {j.cp}, PairsWith(p, j))

\* The third inductive invariant: it is about behaviours in which nothing fails.
RootInv ==
  Calm => /\ Intact /\ ~cut["history"]
          /\ Recorded(answered, Items(evidence))
          /\ LockFree => signed = answered /\ Meets(answered, state, Items(history))
          /\ \A w \in Workers : pc[w] # "idle" => JobRoots(pc[w], job[w])

\* It holds at the start.
LEMMA RootInit == Init => RootInv
<1> SUFFICES ASSUME Init PROVE RootInv
  OBVIOUS
<1>1. /\ evidence = << >> /\ history = << >> /\ cut = [f \in {"evidence", "history"} |-> FALSE]
      /\ signed = {} /\ answered = {} /\ \A w \in Workers : pc[w] = "idle"
  BY DEF Init
<1>2. Items(<< >>) = {} BY DEF Items
<1>3. Intact BY <1>1, <1>2 DEF Intact
<1>4. ~ cut["history"] BY <1>1
<1> QED BY <1>1, <1>3, <1>4 DEF RootInv, Recorded, Meets

\* Behaviours in which nothing fails forget nothing.
LEMMA CalmClear ==
  ASSUME WitInv, SplitInv, RootInv, Calm
  PROVE  /\ Clear /\ ~ cut["evidence"] /\ ~ cut["history"]
         /\ Books(answered, state, Items(history), Items(evidence))
         /\ \A w \in Workers : pc[w] # "idle" => JobBooks(pc[w], job[w])
<1>1. Clear BY DEF Calm, RootInv, Clear
<1>2. ~ cut["evidence"] /\ ~ cut["history"] BY DEF Calm, WitInv, RootInv
<1> QED BY <1>1, <1>2 DEF SplitInv

\* The lock is taken and the request decided.
LEMMA EnterRoots ==
  ASSUME WitInv, SplitInv, RootInv, NEW w \in Workers, NEW r \in Request, Enter(w, r)
  PROVE  RootInv'
<1> DEFINE k == Outcome(r)
           S == signed \cup {r.cp}
           p == Step(k, 1)
<1>0. TypeOK /\ pc[w] = "idle" /\ LockFree BY DEF WitInv, Enter
<1>1. /\ job' = [job EXCEPT ![w] = k] /\ pc' = [pc EXCEPT ![w] = Step(job'[w], 1)] /\ lost' = (lost \/ job'[w].lost)
      /\ state' = state /\ evidence' = evidence /\ history' = history /\ cut' = cut /\ answered' = answered
      /\ signed' = S /\ fails' = fails /\ kills' = kills
  BY DEF Enter, files
<1>2. job'[w] = k BY <1>1 DEF WitInv
<1>3. pc'[w] = p /\ \A v \in Workers : v # w => pc'[v] = "idle"
  <2>1. pc' = [pc EXCEPT ![w] = p] BY <1>1, <1>2
  <2> HIDE DEF p
  <2> QED BY <1>0, <2>1, OthersIdle
<1>4. SUFFICES ASSUME Calm'
               PROVE  /\ Intact' /\ ~cut'["history"]
                      /\ Recorded(answered, Items(evidence))'
                      /\ LockFree' => signed' = answered' /\ Meets(answered, state, Items(history))'
                      /\ \A v \in Workers : pc'[v] # "idle" => JobRoots(pc[v], job[v])'
  BY DEF RootInv
<1>5. Calm /\ ~ k.lost BY <1>1, <1>2, <1>4 DEF Calm
<1>6. /\ Intact /\ ~cut["history"] /\ Recorded(answered, Items(evidence))
      /\ signed = answered /\ Meets(answered, state, Items(history))
  BY <1>0, <1>5 DEF RootInv
<1>7. Books(answered, state, Items(history), Items(evidence)) BY <1>5, CalmClear
<1>8. r.cp \in Checkpoint /\ S \subseteq Checkpoint BY <1>0 DEF TypeOK, Request, Presentable
<1>9. GoodSt(state, S) /\ HistoryOk(S)
  <2>1. GoodSt(state, signed) /\ HistoryOk(signed) /\ signed \subseteq S BY DEF WitInv
  <2> HIDE DEF S
  <2> QED BY <2>1, GoodGrows
<1>10. GoodJob(k, S, state) /\ k.cp = r.cp
  <2>1. r.cp \in S OBVIOUS
  <2> HIDE DEF S, k
  <2> QED BY <1>8, <1>9, <2>1, OutcomeGood DEF k
<1>11. Meets(S, k.st, Past(k)) /\ Recorded(S, Items(evidence) \cup k.ev)
  <2> DEFINE A == answered
             st == state
             H == Items(history)
             G == Past(k)
             E == Items(evidence)
  <2>1. r.cp \in S /\ (state.prev # NoCp => state.prev \in Items(history)) BY <1>7 DEF Books
  <2>2. /\ \A c \in S : c.size # 0 /\ Kept(c, st, H) => Kept(c, k.st, G) \/ (k.paired /\ c.size = k.cp.size)
        /\ k.cp.size # 0 => Kept(k.cp, k.st, G) \/ Supplanted(k)
        /\ \A c : c.size # 0 /\ Kept(c, st, H) /\ c.size = k.cp.size /\ c.root # k.cp.root => k.paired
    <3> HIDE DEF S
    <3> QED BY <1>5, <1>8, <1>9, <2>1, OutcomeKept
  <2>3. Items(st.seen) \subseteq E BY <1>7 DEF Books
  <2>4. \A e \in Items(st.seen) : Genuine(e, S)
    <3>1. state.seen \in Seq(Pair) BY <1>0 DEF TypeOK, State
    <3>2. \A e \in Items(st.seen) : Genuine(e, signed) BY <1>6, <2>3 DEF WitInv, Accuses, Intact
    <3> QED BY <3>2 DEF Genuine
  <2>5. S = A \cup {k.cp} /\ Meets(A, st, H) /\ Recorded(A, E) /\ GoodJob(k, S, st) BY <1>6, <1>10
  <2> HIDE DEF S, A, st, H, G, E, k
  <2>6. Meets(S, k.st, G) /\ Recorded(S, E \cup k.ev) BY <2>2, <2>3, <2>4, <2>5, RootsAfter
  <2> QED BY <2>6 DEF G, E
<1>12. S = answered \cup {k.cp} BY <1>6, <1>10
<1>13. k \in Job BY <1>10 DEF GoodJob
<1> HIDE DEF k, S
<1>14. (p # "record" => k.ev = {}) /\ (p \notin {"record", "history"} => ~ k.new) /\ p # "idle" BY <1>13, FirstStep
<1> HIDE DEF p
<1>15. PastWith(p, k) = Past(k) /\ PairsWith(p, k) = Items(evidence) \cup k.ev BY <1>14 DEF Past, PastWith, PairsWith
<1>16. JobRoots(pc[w], job[w])'
  <2>1. PastWith(pc[w], job[w])' = Past(k) /\ PairsWith(pc[w], job[w])' = Items(evidence) \cup k.ev
    BY <1>1, <1>2, <1>3, <1>15 DEF PastWith, PairsWith
  <2>2. answered' \cup {job'[w].cp} = S /\ signed' = S BY <1>1, <1>2, <1>12
  <2> QED BY <1>2, <1>11, <2>1, <2>2 DEF JobRoots
<1>17. Intact' BY <1>1, <1>6 DEF Intact
<1> QED BY <1>1, <1>3, <1>6, <1>14, <1>16, <1>17 DEF LockFree

\* A write of a request.
LEMMA WriteRoots ==
  ASSUME WitInv, RootInv, NEW w \in Workers, pc[w] # "idle", NEW x, x # "idle", pc' = [pc EXCEPT ![w] = x], job' = job,
         signed' = signed, answered' = answered, Calm' => Calm,
         Items(evidence) \subseteq Items(evidence'),
         Calm => /\ Intact' /\ ~cut'["history"]
                 /\ PastWith(pc[w], job[w]) \subseteq PastWith(x, job[w])'
                 /\ PairsWith(pc[w], job[w]) \subseteq PairsWith(x, job[w])'
  PROVE  RootInv'
<1>1. SUFFICES ASSUME Calm'
               PROVE  /\ Recorded(answered, Items(evidence))'
                      /\ LockFree' => signed' = answered' /\ Meets(answered, state, Items(history))'
                      /\ \A v \in Workers : pc'[v] # "idle" => JobRoots(pc[v], job[v])'
  BY DEF RootInv
<1>2. Calm /\ JobRoots(pc[w], job[w]) /\ Recorded(answered, Items(evidence)) BY <1>1 DEF RootInv
<1>3. pc'[w] = x /\ \A v \in Workers : v # w => pc'[v] = "idle" BY OthersIdle
<1>4. Recorded(answered, Items(evidence))' BY <1>2 DEF Recorded
<1>5. JobRoots(x, job[w])'
  <2> DEFINE A == answered \cup {job[w].cp}
             st == job[w].st
             H == PastWith(pc[w], job[w])
             G == PastWith(x, job[w])'
             E == PairsWith(pc[w], job[w])
             F == PairsWith(x, job[w])'
  <2>1. Meets(A, st, H) /\ Recorded(A, E) /\ H \subseteq G /\ E \subseteq F BY <1>2 DEF JobRoots
  <2> HIDE DEF A, st, H, G, E, F
  <2>2. Meets(A, st, G) /\ Recorded(A, F) BY <2>1, RootsGrow
  <2> QED BY <1>2, <2>2 DEF A, st, G, F, JobRoots
<1> QED BY <1>3, <1>4, <1>5 DEF LockFree

\* The pair is appended to the evidence.
LEMMA RecordEvidenceRoots ==
  ASSUME WitInv, SplitInv, RootInv, NEW w \in Workers, RecordEvidence(w)
  PROVE  RootInv'
<1> DEFINE j == job[w]
<1>x. PICK x : x = After(j, "record") OBVIOUS
<1>0. TypeOK /\ pc[w] = "record" BY DEF WitInv, RecordEvidence
<1>1. /\ pc' = [pc EXCEPT ![w] = x] /\ history' = history /\ job' = job /\ cut' = [cut EXCEPT !["evidence"] = FALSE]
      /\ signed' = signed /\ answered' = answered /\ lost' = lost /\ fails' = fails /\ kills' = kills
  BY <1>x DEF RecordEvidence, ghost, budget
<1>2. Carries("record", j) BY <1>0 DEF WitInv
<1>3. j \in Job /\ GoodJob(j, signed, state) BY <1>2 DEF Carries
<1>4. PICK e \in j.ev : evidence' = Append(evidence, IF cut["evidence"] THEN Garbage ELSE e) BY DEF RecordEvidence
<1>5. e \in Pair /\ j.ev = {e} BY <1>3 DEF GoodJob, SeenOk, Job
<1> DEFINE y == IF cut["evidence"] THEN Garbage ELSE e
<1>6. Items(evidence') = Items(evidence) \cup {y}
  <2>1. evidence \in Seq(Pair \cup {Garbage}) /\ y \in Pair \cup {Garbage} BY <1>0, <1>5 DEF TypeOK
  <2>2. evidence' = Append(evidence, y) BY <1>4
  <2> HIDE DEF y
  <2> QED BY <2>1, <2>2, AppendItems
<1>7. x \in {"history", "save", "reply"} /\ (x \in {"save", "reply"} => ~ j.new) BY <1>3, <1>x, NextStep
<1>8. Calm' => Calm BY <1>1 DEF Calm
<1>9. ASSUME Calm
      PROVE  /\ Intact' /\ ~cut'["history"]
             /\ PastWith("record", j) \subseteq PastWith(x, j)' /\ PairsWith("record", j) \subseteq PairsWith(x, j)'
  <2>0. Intact /\ ~ cut["evidence"] /\ ~ cut["history"] BY <1>9, CalmClear DEF Clear
  <2>1. y = e /\ e # Garbage
    <3>1. e.size \in Nat BY <1>5, WitnessConstants DEF Pair
    <3> QED BY <2>0, <3>1 DEF Garbage
  <2>2. PairsWith("record", j) \subseteq Items(evidence') BY <1>5, <1>6, <2>1 DEF PairsWith
  <2>3. PairsWith(x, j)' = Items(evidence') BY <1>1, <1>7 DEF PairsWith
  <2>4. PastWith("record", j) = PastWith(x, j)' BY <1>1, <1>7 DEF PastWith
  <2>5. Intact' BY <1>1, <1>6, <2>0, <2>1 DEF Intact
  <2>6. ~ cut'["history"] BY <1>0, <1>1, <2>0 DEF TypeOK
  <2> QED BY <2>2, <2>3, <2>4, <2>5, <2>6
<1>10. x # "idle" BY <1>7
<1> QED BY <1>0, <1>1, <1>6, <1>8, <1>9, <1>10, WriteRoots

\* The cosigned checkpoint is appended to the history.
LEMMA RecordHistoryRoots ==
  ASSUME WitInv, SplitInv, RootInv, NEW w \in Workers, RecordHistory(w)
  PROVE  RootInv'
<1> DEFINE j == job[w]
           y == IF cut["history"] THEN NoCp ELSE j.cp
<1>x. PICK x : x = After(j, "history") OBVIOUS
<1>0. TypeOK /\ pc[w] = "history" BY DEF WitInv, RecordHistory
<1>1. /\ pc' = [pc EXCEPT ![w] = x] /\ evidence' = evidence /\ job' = job /\ cut' = [cut EXCEPT !["history"] = FALSE]
      /\ signed' = signed /\ answered' = answered /\ lost' = lost /\ fails' = fails /\ kills' = kills
      /\ history' = Append(history, y)
  BY <1>x DEF RecordHistory, ghost, budget
<1>2. Carries("history", j) BY <1>0 DEF WitInv
<1>3. j \in Job /\ j.cp \in Checkpoint BY <1>2 DEF Carries, Job
<1>6. Items(history') = Items(history) \cup {y}
  <2>1. history \in Seq(Checkpoint \cup {NoCp}) /\ y \in Checkpoint \cup {NoCp} BY <1>0, <1>3 DEF TypeOK
  <2> HIDE DEF y
  <2> QED BY <1>1, <2>1, AppendItems
<1>7. x \in {"save", "reply"} BY <1>3, <1>x, NextStep
<1>8. Calm' => Calm BY <1>1 DEF Calm
<1>9. ASSUME Calm
      PROVE  /\ Intact' /\ ~cut'["history"]
             /\ PastWith("history", j) \subseteq PastWith(x, j)' /\ PairsWith("history", j) \subseteq PairsWith(x, j)'
  <2>0. Intact /\ ~ cut["history"] BY <1>9, CalmClear DEF Clear
  <2>1. y = j.cp /\ j.cp # NoCp
    <3>1. j.cp.size \in Nat BY <1>3, WitnessConstants DEF Checkpoint
    <3> QED BY <2>0, <3>1 DEF NoCp
  <2>2. PastWith("history", j) \subseteq Items(history') BY <1>6, <2>1 DEF PastWith
  <2>3. PastWith(x, j)' = Items(history') BY <1>1, <1>7 DEF PastWith
  <2>4. PairsWith("history", j) = PairsWith(x, j)' BY <1>1, <1>7 DEF PairsWith
  <2>5. Intact' BY <1>1, <1>6, <2>0, <2>1 DEF Intact
  <2>6. ~ cut'["history"] BY <1>0, <1>1 DEF TypeOK
  <2> QED BY <2>2, <2>3, <2>4, <2>5, <2>6
<1>10. Items(evidence) \subseteq Items(evidence') /\ x # "idle" BY <1>1, <1>7
<1> QED BY <1>0, <1>1, <1>8, <1>9, <1>10, WriteRoots

\* The state file is replaced.
LEMMA SaveStateRoots ==
  ASSUME WitInv, SplitInv, RootInv, NEW w \in Workers, SaveState(w)
  PROVE  RootInv'
<1> DEFINE j == job[w]
<1>x. PICK x : x = After(j, "save") OBVIOUS
<1>0. pc[w] = "save" BY DEF SaveState
<1>1. /\ pc' = [pc EXCEPT ![w] = x] /\ evidence' = evidence /\ history' = history /\ job' = job /\ cut' = cut
      /\ signed' = signed /\ answered' = answered /\ lost' = lost /\ fails' = fails /\ kills' = kills
  BY <1>x DEF SaveState, ghost, budget
<1>2. Carries("save", j) BY <1>0 DEF WitInv
<1>3. x = "reply" BY <1>2, <1>x, NextStep DEF Carries
<1>4. Calm' => Calm BY <1>1 DEF Calm
<1>5. ASSUME Calm
      PROVE  /\ Intact' /\ ~cut'["history"]
             /\ PastWith("save", j) \subseteq PastWith(x, j)' /\ PairsWith("save", j) \subseteq PairsWith(x, j)'
  <2>1. Intact /\ ~ cut["history"] BY <1>5, CalmClear DEF Clear
  <2> QED BY <1>1, <1>3, <2>1 DEF Intact, PastWith, PairsWith
<1>6. Items(evidence) \subseteq Items(evidence') /\ x # "idle" BY <1>1, <1>3
<1> QED BY <1>0, <1>1, <1>4, <1>5, <1>6, WriteRoots

\* The answer is sent.
LEMMA ReplyRoots ==
  ASSUME WitInv, SplitInv, RootInv, NEW w \in Workers, Reply(w)
  PROVE  RootInv'
<1> DEFINE j == job[w]
<1>0. pc[w] = "reply" BY DEF Reply
<1>1. /\ answered' = answered \cup {j.cp} /\ pc' = [pc EXCEPT ![w] = "idle"] /\ cut' = cut /\ signed' = signed
      /\ state' = state /\ evidence' = evidence /\ history' = history
      /\ lost' = lost /\ fails' = fails /\ kills' = kills
  BY DEF Reply, files, Leave, budget
<1>2. pc'[w] = "idle" /\ \A v \in Workers : v # w => pc'[v] = "idle" BY <1>0, <1>1, OthersIdle
<1>3. Calm' => Calm BY <1>1 DEF Calm
<1>4. ASSUME Calm
      PROVE  /\ Intact' /\ ~cut'["history"] /\ signed' = answered'
             /\ Recorded(answered, Items(evidence))' /\ Meets(answered, state, Items(history))'
  <2>1. Clear /\ JobBooks("reply", j) /\ ~cut["history"] BY <1>0, <1>4, CalmClear
  <2>2. j.st = state BY <2>1 DEF JobBooks
  <2>3. JobRoots("reply", j) BY <1>0, <1>4 DEF RootInv
  <2>4. /\ signed = answered \cup {j.cp} /\ Meets(answered \cup {j.cp}, state, Items(history))
        /\ Recorded(answered \cup {j.cp}, Items(evidence))
    BY <2>2, <2>3 DEF JobRoots, PastWith, PairsWith
  <2>5. Intact' BY <1>1, <2>1 DEF Clear, Intact
  <2> QED BY <1>1, <2>1, <2>4, <2>5
<1> QED BY <1>2, <1>3, <1>4 DEF RootInv

\* Every step keeps the invariant; a failure and a kill leave nothing to keep.
LEMMA RootStep == WitInv /\ SplitInv /\ RootInv /\ [Next]_vars => RootInv'
<1> SUFFICES ASSUME WitInv, SplitInv, RootInv, [Next]_vars PROVE RootInv'
  OBVIOUS
<1>0. fails \in Nat /\ kills \in Nat BY WitnessConstants DEF WitInv, TypeOK
<1>1. CASE UNCHANGED vars
  <2>1. /\ state' = state /\ evidence' = evidence /\ history' = history /\ cut' = cut /\ pc' = pc /\ job' = job
        /\ signed' = signed /\ answered' = answered /\ lost' = lost /\ fails' = fails /\ kills' = kills
    BY <1>1 DEF vars, files, ghost, budget
  <2> QED BY <2>1 DEF RootInv, Calm, Intact, LockFree, JobRoots, PastWith, PairsWith
<1>2. CASE Next
  <2>1. PICK w \in Workers :
          \/ \E r \in Request : Enter(w, r)
          \/ RecordEvidence(w) \/ RecordHistory(w) \/ SaveState(w) \/ Reply(w)
          \/ WriteFails(w) \/ Kill(w)
    BY <1>2 DEF Next
  <2>2. CASE \E r \in Request : Enter(w, r) BY <2>2, EnterRoots
  <2>3. CASE RecordEvidence(w) BY <2>3, RecordEvidenceRoots
  <2>4. CASE RecordHistory(w) BY <2>4, RecordHistoryRoots
  <2>5. CASE SaveState(w) BY <2>5, SaveStateRoots
  <2>6. CASE Reply(w) BY <2>6, ReplyRoots
  <2>7. CASE WriteFails(w)
    <3>1. fails' # 0 BY <1>0, <2>7 DEF WriteFails
    <3> QED BY <3>1 DEF RootInv, Calm
  <2>8. CASE Kill(w)
    <3>1. kills' # 0 BY <1>0, <2>8 DEF Kill
    <3> QED BY <3>1 DEF RootInv, Calm
  <2> QED BY <2>1, <2>2, <2>3, <2>4, <2>5, <2>6, <2>7, <2>8
<1> QED BY <1>1, <1>2

-----------------------------------------------------------------------------
(* The theorems *)

\* The invariant holds in every behaviour.
LEMMA WitAlways == Spec => []WitInv
BY WitInit, WitStep, PTL DEF Spec

\* The types hold, and a cosigned checkpoint is one that was answered.
THEOREM TypeCorrect == Spec => []TypeOK
<1>1. WitInv => TypeOK BY DEF WitInv
<1> QED BY <1>1, WitAlways, PTL

\* witness_cosign persists before it answers: whatever fails or is killed, each
\* cosigned checkpoint is a prefix of the stored one.
THEOREM Persisted == Spec => []CosignedPersisted
<1>1. WitInv => CosignedPersisted BY DEF WitInv
<1> QED BY <1>1, WitAlways, PTL

\* _save_state replaces the stored checkpoint only by an extension of it.
THEOREM Grows == Spec => StoredGrows
<1>1. WitInv /\ [Next]_vars => [state.prev # NoCp => IsPrefix(state.prev.root, state'.prev.root)]_vars
  BY WitStep
<1> QED BY <1>1, WitAlways, PTL DEF Spec, StoredGrows

\* _note_future, _refused and _proof keep the state file within its bounds
\* whatever is presented.
THEOREM Bounded == Spec => []StateBounded
<1>1. WitInv => StateBounded BY DEF WitInv, GoodSt, Within, NotesKept, StateBounded
<1> QED BY <1>1, WitAlways, PTL

\* _proof accuses the log of two roots it signed at one size, and of each such
\* pair once.
THEOREM Sound == Spec => []EvidenceSound
<1>1. ASSUME WitInv PROVE EvidenceSound
  <2>1. EvidenceGenuine BY <1>1 DEF WitInv, Accuses, Genuine, EvidenceGenuine
  <2>2. EvidenceOnce BY <1>1 DEF WitInv, Calm, EvidenceOnce
  <2> QED BY <2>1, <2>2 DEF EvidenceSound
<1> QED BY <1>1, WitAlways, PTL

\* _proof, _refused, _note_future and the acceptance of _cosign_locked lose no proof:
\* while the declared bounds forget nothing and no line is fused with a cut one, two
\* answers about different roots of one size leave a pair of that size in the
\* evidence, whatever failed or was killed.
THEOREM NoProofLost == Spec => []SplitViewRecorded
<1>1. SplitInv => SplitViewRecorded BY DEF SplitInv, Clear, Books, Sizes, SplitViewRecorded
<1> QED BY <1>1, WitAlways, SplitInit, SplitStep, PTL DEF Spec

\* _note_future: "one pair per request is proof enough": as long as nothing fails or is
\* forgotten, each of two different roots of one size that were answered is in some
\* pair, though a request writes one.
THEOREM EachRootProved == Spec => []EachRootRecorded
<1>1. RootInv => EachRootRecorded BY DEF RootInv, Calm, Recorded, EachRootRecorded
<1> QED BY <1>1, WitAlways, SplitInit, SplitStep, RootInit, RootStep, PTL DEF Spec
=============================================================================
