---------------------------- MODULE PartsProofs ----------------------------
(***************************************************************************)
(* Lemmas that the other proofs share: least numbers and induction on      *)
(* numbers (by sets of numbers), and the parts of sequences.               *)
(***************************************************************************)
EXTENDS Parts, SequenceTheorems, FiniteSetTheorems, WellFoundedInduction, TLAPS

-----------------------------------------------------------------------------
(* Induction on numbers, by sets *)

\* The order the induction goes down.
Below == {ss \in Nat \X Nat : ss[1] < ss[2]}

\* It is well-founded.
LEMMA BelowWellFounded == IsWellFoundedOn(Below, Nat)
BY NatLessThanWellFounded DEF OpToRel, Below

\* A non-empty set of numbers has a least one.
LEMMA LeastExists ==
  ASSUME NEW T \in SUBSET Nat, T # {}
  PROVE  \E x \in T : \A y \in T : x <= y
<1>1. PICK x \in T : \A y \in T : ~ (<<y, x>> \in Below) BY BelowWellFounded, WFMin
<1>2. ASSUME NEW y \in T PROVE x <= y
  <2>1. x \in Nat /\ y \in Nat OBVIOUS
  <2>2. ASSUME y < x PROVE FALSE
    <3>1. <<y, x>> \in Nat \X Nat BY <2>1
    <3>2. <<y, x>>[1] < <<y, x>>[2] BY <2>2
    <3>3. <<y, x>> \in Below BY <3>1, <3>2, Zenon DEF Below
    <3> QED BY <3>3, <1>1
  <2> QED BY <2>1, <2>2
<1> QED BY <1>2

\* A set of numbers that holds 0 and the successors of its members holds all.
LEMMA Induct ==
  ASSUME NEW S, 0 \in S, \A n \in Nat : n \in S => n + 1 \in S
  PROVE  \A n \in Nat : n \in S
<1> SUFFICES ASSUME NEW n \in Nat, n \notin S PROVE FALSE
  OBVIOUS
<1> DEFINE T == {k \in Nat : k \notin S}
<1>1. T \in SUBSET Nat /\ T # {} OBVIOUS
<1>2. PICK x \in T : \A y \in T : x <= y BY <1>1, LeastExists
<1>3. x \in Nat /\ x # 0 OBVIOUS
<1>4. x - 1 \in Nat /\ x - 1 \notin T BY <1>2, <1>3
<1>5. x - 1 \in S BY <1>4
<1>6. (x - 1) + 1 \in S BY <1>4, <1>5
<1> QED BY <1>3, <1>6

-----------------------------------------------------------------------------
(* The parts of a sequence that the code keeps *)

\* The numbers up to n that are in a set: those sets are finite.
LEMMA IndexSetFinite ==
  ASSUME NEW n \in Nat, NEW I \in SUBSET (1..n)
  PROVE  IsFiniteSet(I) /\ Cardinality(I) \in Nat /\ Cardinality(I) <= n
<1>1. IsFiniteSet(1..n) /\ Cardinality(1..n) = n BY FS_Interval
<1>2. IsFiniteSet(I) /\ Cardinality(I) <= Cardinality(1..n) BY <1>1, FS_Subset
<1> QED BY <1>1, <1>2, FS_CardinalityType

\* In a set of n indices each rank from 1 to n is taken.
LEMMA RankTaken ==
  ASSUME NEW n \in Nat, NEW I \in SUBSET (1..n), NEW k \in 1..Cardinality(I)
  PROVE  \E i \in I : Cardinality({m \in I : m <= i}) = k
<1> DEFINE Claim(x) == \A J \in SUBSET (1..x) : \A c \in 1..Cardinality(J) : \E i \in J : Cardinality({m \in J : m <= i}) = c
           S == {x \in Nat : Claim(x)}
<1>1. 0 \in S
  <2>1. \A J \in SUBSET (1..0) : J = {} OBVIOUS
  <2>2. Cardinality({}) = 0 BY FS_EmptySet
  <2> QED BY <2>1, <2>2
<1>2. ASSUME NEW x \in Nat, x \in S PROVE x + 1 \in S
  <2>1. ASSUME NEW J \in SUBSET (1..(x + 1)), NEW c \in 1..Cardinality(J)
        PROVE  \E i \in J : Cardinality({m \in J : m <= i}) = c
    <3>0. IsFiniteSet(J) /\ Cardinality(J) \in Nat
      <4>1. x + 1 \in Nat OBVIOUS
      <4> QED BY <4>1, IndexSetFinite
    <3>1. CASE x + 1 \notin J
      <4>1. J \in SUBSET (1..x) BY <3>1
      <4> QED BY <1>2, <4>1
    <3>2. CASE x + 1 \in J
      <4> DEFINE K == J \ {x + 1}
      <4>1. K \in SUBSET (1..x) OBVIOUS
      <4>2. Cardinality(K) = Cardinality(J) - 1 BY <3>0, <3>2, FS_RemoveElement
      <4>3. CASE c = Cardinality(J)
        <5>1. \A m \in J : m <= x + 1 OBVIOUS
        <5>2. {m \in J : m <= x + 1} = J BY <5>1
        <5> QED BY <3>2, <4>3, <5>2
      <4>4. CASE c # Cardinality(J)
        <5>1. c \in 1..Cardinality(K) BY <3>0, <4>2, <4>4
        <5>2. PICK i \in K : Cardinality({m \in K : m <= i}) = c BY <1>2, <4>1, <5>1
        <5>3. {m \in K : m <= i} = {m \in J : m <= i} BY <4>1
        <5> QED BY <5>2, <5>3
      <4> QED BY <4>3, <4>4
    <3> QED BY <3>1, <3>2
  <2> QED BY <2>1
<1> HIDE DEF Claim
<1>3. \A x \in Nat : x \in S
  <2> HIDE DEF S
  <2> QED BY <1>1, <1>2, Induct
<1>4. n \in S BY <1>3
<1>5. Claim(n) BY <1>4
<1> QED BY <1>5 DEF Claim

\* Nth is defined, and its ranks tell its values apart.
LEMMA NthRank ==
  ASSUME NEW n \in Nat, NEW I \in SUBSET (1..n), NEW k \in 1..Cardinality(I)
  PROVE  Nth(I, k) \in I /\ Cardinality({m \in I : m <= Nth(I, k)}) = k
<1>1. \E i \in I : Cardinality({m \in I : m <= i}) = k BY RankTaken
<1> QED BY <1>1, Zenon DEF Nth

\* The rank of an index among the indices I.
Rank(I, i) == Cardinality({m \in I : m <= i})

\* Larger indices have larger ranks.
LEMMA RankGrows ==
  ASSUME NEW n \in Nat, NEW I \in SUBSET (1..n), NEW i \in I
  PROVE  /\ Rank(I, i) \in 1..Cardinality(I)
         /\ \A j \in I : i < j => Rank(I, i) < Rank(I, j)
<1> DEFINE R(x) == {m \in I : m <= x}
<1>1. IsFiniteSet(I) /\ Cardinality(I) \in Nat BY IndexSetFinite
<1>2. \A x \in I : IsFiniteSet(R(x)) /\ Cardinality(R(x)) \in Nat /\ Cardinality(R(x)) <= Cardinality(I) /\ x \in R(x)
  <2>1. ASSUME NEW x \in I PROVE R(x) \in SUBSET I /\ x \in R(x) OBVIOUS
  <2> HIDE DEF R
  <2> QED BY <1>1, <2>1, FS_Subset, FS_CardinalityType
<1>3. Rank(I, i) \in 1..Cardinality(I)
  <2>1. R(i) # {} /\ IsFiniteSet(R(i)) BY <1>2
  <2>2. Rank(I, i) = Cardinality(R(i)) BY DEF Rank
  <2> HIDE DEF R
  <2>3. Cardinality(R(i)) # 0 BY <2>1, FS_EmptySet
  <2> QED BY <1>1, <1>2, <2>2, <2>3
<1>4. ASSUME NEW j \in I, i < j PROVE Rank(I, i) < Rank(I, j)
  <2>1. R(i) \in SUBSET R(j)
    <3>1. i \in Nat /\ j \in Nat /\ \A m \in I : m \in Nat OBVIOUS
    <3>2. ASSUME NEW m \in I, m <= i PROVE m <= j BY <1>4, <3>1, <3>2
    <3> QED BY <3>2
  <2>2. j \notin R(i) /\ j \in R(j) BY <1>2, <1>4
  <2>3. Rank(I, i) = Cardinality(R(i)) /\ Rank(I, j) = Cardinality(R(j)) BY DEF Rank
  <2>4. IsFiniteSet(R(j)) /\ Cardinality(R(i)) \in Nat /\ Cardinality(R(j)) \in Nat BY <1>2
  <2> HIDE DEF R
  <2>5. R(i) # R(j) BY <2>2
  <2>6. Cardinality(R(i)) <= Cardinality(R(j)) /\ (Cardinality(R(i)) = Cardinality(R(j)) => R(i) = R(j))
    BY <2>1, <2>4, FS_Subset
  <2> QED BY <2>3, <2>4, <2>5, <2>6
<1> QED BY <1>3, <1>4

\* Nth undoes Rank.
LEMMA NthOfRank ==
  ASSUME NEW n \in Nat, NEW I \in SUBSET (1..n), NEW i \in I
  PROVE  Rank(I, i) \in 1..Cardinality(I) /\ Nth(I, Rank(I, i)) = i
<1> DEFINE k == Rank(I, i)
<1>1. k \in 1..Cardinality(I) BY RankGrows
<1>2. Nth(I, k) \in I /\ Rank(I, Nth(I, k)) = k
  <2> HIDE DEF k
  <2> QED BY <1>1, NthRank DEF Rank
<1> DEFINE x == Nth(I, k)
<1>3. ~ (x < i) /\ ~ (i < x)
  <2>1. Rank(I, x) = Rank(I, i) /\ Rank(I, i) \in Nat /\ x \in I BY <1>1, <1>2
  <2> HIDE DEF x, k
  <2>2. x < i => Rank(I, x) < Rank(I, i) BY <2>1, RankGrows
  <2>3. i < x => Rank(I, i) < Rank(I, x) BY <2>1, RankGrows
  <2> QED BY <2>1, <2>2, <2>3
<1>4. x \in Nat /\ i \in Nat
  <2>1. x \in I BY <1>2
  <2> HIDE DEF x
  <2> QED BY <2>1
<1> HIDE DEF x
<1>5. x = i BY <1>3, <1>4
<1> QED BY <1>1, <1>5 DEF x

\* Nth gives the indices in their order.
LEMMA NthGrows ==
  ASSUME NEW n \in Nat, NEW I \in SUBSET (1..n), NEW k \in 1..Cardinality(I), NEW l \in 1..Cardinality(I), k < l
  PROVE  Nth(I, k) < Nth(I, l)
<1> DEFINE x == Nth(I, k)
           y == Nth(I, l)
<1>1. x \in I /\ Rank(I, x) = k /\ y \in I /\ Rank(I, y) = l BY NthRank DEF Rank
<1> HIDE DEF x, y
<1>2. x # y BY <1>1
<1>3. ~ (y < x)
  <2>1. y < x => Rank(I, y) < Rank(I, x) BY <1>1, RankGrows
  <2>2. Cardinality(I) \in Nat BY IndexSetFinite
  <2> QED BY <1>1, <2>1, <2>2
<1>4. x \in Nat /\ y \in Nat BY <1>1
<1>5. x < y BY <1>2, <1>3, <1>4
<1> QED BY <1>5 DEF x, y

\* One more index, after all the others.
LEMMA NthAppend ==
  ASSUME NEW n \in Nat, NEW I \in SUBSET (1..n)
  PROVE  /\ Cardinality(I \cup {n + 1}) = Cardinality(I) + 1
         /\ \A k \in 1..Cardinality(I) : Nth(I \cup {n + 1}, k) = Nth(I, k)
         /\ Nth(I \cup {n + 1}, Cardinality(I) + 1) = n + 1
<1> DEFINE J == I \cup {n + 1}
<1>1. IsFiniteSet(I) /\ Cardinality(I) \in Nat BY IndexSetFinite
<1>2. n + 1 \notin I /\ J \in SUBSET (1..(n + 1)) /\ n + 1 \in Nat OBVIOUS
<1>3. Cardinality(J) = Cardinality(I) + 1 BY <1>1, <1>2, FS_AddElement
<1>4. ASSUME NEW k \in 1..Cardinality(I) PROVE Nth(J, k) = Nth(I, k)
  <2> DEFINE x == Nth(I, k)
  <2>1. x \in I /\ Rank(I, x) = k BY NthRank DEF Rank
  <2> HIDE DEF x
  <2>2. {m \in J : m <= x} = {m \in I : m <= x}
    <3>1. x \in 1..n BY <2>1
    <3>2. ~ (n + 1 <= x) BY <3>1
    <3> QED BY <3>2
  <2>3. Rank(J, x) = k /\ x \in J BY <2>1, <2>2 DEF Rank
  <2> HIDE DEF J
  <2>4. Nth(J, Rank(J, x)) = x BY <1>2, <2>3, NthOfRank
  <2> QED BY <2>3, <2>4 DEF x
<1>5. Nth(J, Cardinality(I) + 1) = n + 1
  <2>1. \A m \in J : m <= n + 1 OBVIOUS
  <2>2. {m \in J : m <= n + 1} = J BY <2>1
  <2>3. Rank(J, n + 1) = Cardinality(I) + 1 BY <1>3, <2>2 DEF Rank
  <2>4. n + 1 \in J OBVIOUS
  <2> HIDE DEF J
  <2>5. Nth(J, Rank(J, n + 1)) = n + 1 BY <1>2, <2>4, NthOfRank
  <2> QED BY <2>3, <2>5
<1> QED BY <1>3, <1>4, <1>5

\* All indices: each has its own rank.
LEMMA NthOfAll ==
  ASSUME NEW n \in Nat
  PROVE  Cardinality(1..n) = n /\ \A k \in 1..n : Nth(1..n, k) = k
<1>1. \A k \in Nat : Cardinality(1..k) = k BY FS_Interval
<1>2. ASSUME NEW k \in 1..n PROVE Nth(1..n, k) = k
  <2>1. {m \in 1..n : m <= k} = 1..k OBVIOUS
  <2>2. k \in Nat /\ Cardinality(1..k) = k BY <1>1
  <2>3. Rank(1..n, k) = k BY <2>1, <2>2 DEF Rank
  <2> QED BY <2>3, NthOfRank
<1> QED BY <1>1, <1>2

\* Keep returns as many entries as there are indices, all of them of the sequence.
LEMMA KeepSeq ==
  ASSUME NEW S, NEW s \in Seq(S), NEW I \in SUBSET (1..Len(s))
  PROVE  /\ Keep(s, I) \in Seq(S) /\ Len(Keep(s, I)) = Cardinality(I) /\ Len(Keep(s, I)) <= Len(s)
         /\ \A k \in 1..Len(Keep(s, I)) : Nth(I, k) \in I /\ Keep(s, I)[k] = s[Nth(I, k)]
         /\ Items(Keep(s, I)) \subseteq Items(s)
<1> DEFINE c == Cardinality(I)
<1>1. Len(s) \in Nat BY LenProperties
<1>2. c \in Nat /\ c <= Len(s) BY <1>1, IndexSetFinite
<1>3. \A k \in 1..c : Nth(I, k) \in I BY <1>1, NthRank
<1>4. \A k \in 1..c : s[Nth(I, k)] \in S BY <1>3, ElementOfSeq
<1>5. Keep(s, I) = [k \in 1..c |-> s[Nth(I, k)]] BY DEF Keep
<1> HIDE DEF c
<1>6. Keep(s, I) \in Seq(S) /\ Len(Keep(s, I)) = c BY <1>2, <1>4, <1>5, IsASeq
<1>7. \A k \in 1..c : Keep(s, I)[k] = s[Nth(I, k)] BY <1>5
<1>8. Items(Keep(s, I)) \subseteq Items(s) BY <1>3, <1>6, <1>7 DEF Items
<1> QED BY <1>2, <1>3, <1>6, <1>7, <1>8 DEF c

\* Keep leaves out none of the indices.
LEMMA KeepAll ==
  ASSUME NEW S, NEW s \in Seq(S), NEW I \in SUBSET (1..Len(s)), NEW i \in I
  PROVE  s[i] \in Items(Keep(s, I))
<1>1. Len(s) \in Nat BY LenProperties
<1>2. PICK k \in 1..Cardinality(I) : Nth(I, k) = i BY <1>1, NthOfRank
<1>3. Len(Keep(s, I)) = Cardinality(I) /\ \A m \in 1..Len(Keep(s, I)) : Keep(s, I)[m] = s[Nth(I, m)] BY KeepSeq
<1>4. Keep(s, I)[k] = s[i] BY <1>2, <1>3
<1> QED BY <1>2, <1>3, <1>4 DEF Items

\* Keep holds no more entries of a kind than there are indices of that kind.
LEMMA KeepCount ==
  ASSUME NEW S, NEW s \in Seq(S), NEW I \in SUBSET (1..Len(s)), NEW K \in SUBSET (1..Len(s)),
         NEW A \in SUBSET (1..Len(Keep(s, I))), \A k \in A : Nth(I, k) \in K
  PROVE  Cardinality(A) <= Cardinality(I \cap K)
<1>1. Len(s) \in Nat /\ Len(Keep(s, I)) = Cardinality(I) /\ Len(Keep(s, I)) \in Nat BY LenProperties, KeepSeq, IndexSetFinite
<1>2. IsFiniteSet(A) BY <1>1, IndexSetFinite
<1>3. IsFiniteSet(I \cap K) BY <1>1, IndexSetFinite
<1> DEFINE f == [k \in A |-> Nth(I, k)]
<1>4. \A k \in A : Nth(I, k) \in I \cap K /\ Cardinality({m \in I : m <= Nth(I, k)}) = k
  BY <1>1, NthRank
<1>5. f \in Injection(A, I \cap K) BY <1>4 DEF Injection, IsInjective
<1> QED BY <1>2, <1>3, <1>5, FS_Injection

\* Appending adds one item.
LEMMA AppendItems ==
  ASSUME NEW S, NEW s \in Seq(S), NEW e \in S
  PROVE  Append(s, e) \in Seq(S) /\ Len(Append(s, e)) = Len(s) + 1 /\ Items(Append(s, e)) = Items(s) \cup {e}
<1>1. Len(s) \in Nat BY LenProperties
<1>2. /\ Append(s, e) \in Seq(S) /\ Len(Append(s, e)) = Len(s) + 1
      /\ \A i \in 1..Len(s) : Append(s, e)[i] = s[i]
      /\ Append(s, e)[Len(s) + 1] = e
  BY AppendProperties
<1>3. 1..(Len(s) + 1) = (1..Len(s)) \cup {Len(s) + 1} BY <1>1
<1> QED BY <1>2, <1>3 DEF Items

\* The items of two sequences put together.
LEMMA ConcatItems ==
  ASSUME NEW S, NEW s \in Seq(S), NEW t \in Seq(S)
  PROVE  s \o t \in Seq(S) /\ Items(s \o t) = Items(s) \cup Items(t)
<1>1. Len(s) \in Nat /\ Len(t) \in Nat BY LenProperties
<1>2. /\ s \o t \in Seq(S) /\ Len(s \o t) = Len(s) + Len(t)
      /\ \A i \in 1..(Len(s) + Len(t)) : (s \o t)[i] = IF i <= Len(s) THEN s[i] ELSE t[i - Len(s)]
  BY ConcatProperties
<1>3. ASSUME NEW i \in 1..Len(s \o t) PROVE (s \o t)[i] \in Items(s) \cup Items(t)
  <2>1. CASE i <= Len(s)
    <3>1. i \in 1..Len(s) BY <1>1, <1>2, <2>1
    <3> QED BY <1>2, <2>1, <3>1 DEF Items
  <2>2. CASE ~ (i <= Len(s))
    <3>1. i - Len(s) \in 1..Len(t) BY <1>1, <1>2, <2>2
    <3> QED BY <1>2, <2>2, <3>1 DEF Items
  <2> QED BY <2>1, <2>2
<1>4. ASSUME NEW i \in 1..Len(s) PROVE s[i] \in Items(s \o t)
  <2>1. i \in 1..Len(s \o t) /\ i \in 1..(Len(s) + Len(t)) /\ i <= Len(s) BY <1>1, <1>2
  <2> QED BY <1>2, <2>1 DEF Items
<1>5. ASSUME NEW i \in 1..Len(t) PROVE t[i] \in Items(s \o t)
  <2>1. i + Len(s) \in 1..Len(s \o t) /\ i + Len(s) \in 1..(Len(s) + Len(t)) BY <1>1, <1>2
  <2>2. ~ (i + Len(s) <= Len(s)) /\ (i + Len(s)) - Len(s) = i BY <1>1
  <2>3. (s \o t)[i + Len(s)] = t[i] BY <1>2, <2>1, <2>2
  <2> QED BY <2>1, <2>3 DEF Items
<1> QED BY <1>2, <1>3, <1>4, <1>5 DEF Items

=============================================================================
