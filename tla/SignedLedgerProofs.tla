------------------------- MODULE SignedLedgerProofs -------------------------
(***************************************************************************)
(* Proofs about the ledger and its signed tip for any number of writers,   *)
(* signers and verifiers, files of any length and any amount of tampering: *)
(* what passes was signed, and what nobody tampered with is never called   *)
(* rewritten.                                                              *)
(***************************************************************************)
EXTENDS SignedLedger, PartsProofs

-----------------------------------------------------------------------------
(* Files and their chains *)

\* A hash, with the data it commits to; the last hash of a chain.
IsHash(h) == DOMAIN h = 1..5 /\ h[3] \in Nat
LastOf(c) == IF c = << >> THEN GENESIS ELSE c[Len(c)]

IsLine(l) ==
  /\ l.kind \in {"entry", "blank", "broken"}
  /\ l.kind = "entry" =>
       /\ l = [kind |-> "entry", idx |-> l.idx, data |-> l.data, prev |-> l.prev, extra |-> l.extra, self |-> l.self]
       /\ l.idx \in Nat /\ IsHash(l.self)
IsFile(s) == s \in Seq(Items(s)) /\ \A i \in 1..Len(s) : IsLine(s[i])

\* A sequence over any set is one over its items.
LEMMA SeqOfItems ==
  ASSUME NEW S, NEW s \in Seq(S)
  PROVE  s \in Seq(Items(s)) /\ Len(s) \in Nat /\ Items(s) \subseteq S
<1>1. Len(s) \in Nat /\ s = [i \in 1..Len(s) |-> s[i]] /\ \A i \in 1..Len(s) : s[i] \in S
  BY LenProperties, ElementOfSeq
<1>2. \A i \in 1..Len(s) : s[i] \in Items(s) BY DEF Items
<1>3. [i \in 1..Len(s) |-> s[i]] \in Seq(Items(s)) BY <1>1, <1>2, IsASeq
<1> QED BY <1>1, <1>3 DEF Items

\* The entries of a file and the chain of their hashes.
LEMMA ChainFacts ==
  ASSUME NEW s, IsFile(s)
  PROVE  /\ EntryLines(s) \in SUBSET (1..Len(s)) /\ Len(s) \in Nat
         /\ Len(Entries(s)) = Cardinality(EntryLines(s)) /\ Len(Entries(s)) \in Nat
         /\ Len(Chain(s)) = Len(Entries(s))
         /\ \A k \in 1..Len(Entries(s)) :
              /\ Nth(EntryLines(s), k) \in EntryLines(s)
              /\ Entries(s)[k] = s[Nth(EntryLines(s), k)]
              /\ Entries(s)[k].kind = "entry" /\ IsLine(Entries(s)[k])
              /\ Chain(s)[k] = Entries(s)[k].self /\ IsHash(Chain(s)[k])
         /\ Entries(s) = << >> <=> Len(Entries(s)) = 0
         /\ Chain(s) = << >> <=> Len(Entries(s)) = 0
         /\ LastSelf(Entries(s)) = LastOf(Chain(s))
<1> DEFINE P == EntryLines(s)
           es == Entries(s)
<1>1. P \in SUBSET (1..Len(s)) BY DEF EntryLines
<1>2. s \in Seq(Items(s)) /\ Len(s) \in Nat BY LenProperties DEF IsFile
<1>3. /\ es \in Seq(Items(s)) /\ Len(es) = Cardinality(P)
      /\ \A k \in 1..Len(es) : Nth(P, k) \in P /\ es[k] = s[Nth(P, k)]
  <2> HIDE DEF P
  <2> QED BY <1>1, <1>2, KeepSeq DEF Entries, P
<1> HIDE DEF es
<1>4. Len(es) \in Nat BY <1>3, LenProperties
<1>5. \A k \in 1..Len(es) : es[k].kind = "entry" /\ IsLine(es[k])
  BY <1>1, <1>3 DEF EntryLines, IsFile
<1>6. \A k \in 1..Len(es) : IsHash(es[k].self) BY <1>5 DEF IsLine
<1>7. Chain(s) = [k \in 1..Len(es) |-> es[k].self] BY DEF Chain, es
<1>8. Chain(s) \in Seq({es[k].self : k \in 1..Len(es)}) /\ Len(Chain(s)) = Len(es)
  BY <1>4, <1>7, IsASeq
<1>9. \A k \in 1..Len(es) : Chain(s)[k] = es[k].self BY <1>7
<1>10. (es = << >> <=> Len(es) = 0) /\ (Chain(s) = << >> <=> Len(Chain(s)) = 0)
  BY <1>3, <1>8, EmptySeq
<1>11. LastSelf(es) = LastOf(Chain(s)) BY <1>4, <1>8, <1>9, <1>10 DEF LastSelf, LastOf
<1> QED BY <1>1, <1>2, <1>3, <1>4, <1>5, <1>6, <1>8, <1>9, <1>10, <1>11 DEF es

\* c is what is left of d after leaving hashes out.
Part(c, d) ==
  \E m \in [1..Len(c) -> 1..Len(d)] :
    /\ \A k \in 1..Len(c) : c[k] = d[m[k]] /\ k <= m[k]
    /\ \A k, l \in 1..Len(c) : k < l => m[k] < m[l]

\* Lines t that come from lines s, in the same order, with their hashes.
LEMMA MappedPart ==
  ASSUME NEW s, IsFile(s), NEW t, IsFile(t), NEW f \in [EntryLines(t) -> EntryLines(s)],
         \A i \in EntryLines(t) : t[i].self = s[f[i]].self,
         \A i, j \in EntryLines(t) : i < j => f[i] < f[j]
  PROVE  Part(Chain(t), Chain(s))
<1> DEFINE P == EntryLines(s)
           Q == EntryLines(t)
           g(k) == f[Nth(Q, k)]
           m == [k \in 1..Len(Chain(t)) |-> Rank(P, g(k))]
<1>1. /\ P \in SUBSET (1..Len(s)) /\ Q \in SUBSET (1..Len(t)) /\ Len(s) \in Nat /\ Len(t) \in Nat
      /\ Len(Chain(t)) = Cardinality(Q) /\ Len(Chain(s)) = Cardinality(P)
      /\ Cardinality(P) \in Nat /\ Cardinality(Q) \in Nat
      /\ \A k \in 1..Cardinality(Q) : Nth(Q, k) \in Q /\ Chain(t)[k] = t[Nth(Q, k)].self
      /\ \A k \in 1..Cardinality(P) : Chain(s)[k] = s[Nth(P, k)].self
  BY ChainFacts
<1>1a. f \in [Q -> P] OBVIOUS
<1> HIDE DEF P, Q
<1>2. ASSUME NEW k \in 1..Cardinality(Q)
      PROVE  g(k) \in P /\ Rank(P, g(k)) \in 1..Cardinality(P) /\ Nth(P, Rank(P, g(k))) = g(k)
  <2>1. g(k) \in P BY <1>1, <1>1a
  <2> HIDE DEF g
  <2> QED BY <1>1, <2>1, NthOfRank
<1>3. ASSUME NEW k \in 1..Cardinality(Q) PROVE Chain(t)[k] = Chain(s)[Rank(P, g(k))]
  <2>1. Chain(t)[k] = s[g(k)].self BY <1>1 DEF Q
  <2> HIDE DEF g
  <2> QED BY <1>1, <1>2, <2>1
<1>4. ASSUME NEW k \in 1..Cardinality(Q), NEW l \in 1..Cardinality(Q), k < l
      PROVE  Rank(P, g(k)) < Rank(P, g(l))
  <2>1. Nth(Q, k) < Nth(Q, l) BY <1>1, <1>4, NthGrows
  <2>2. g(k) < g(l) BY <1>1, <2>1 DEF Q
  <2>3. g(k) \in P /\ g(l) \in P BY <1>2
  <2> HIDE DEF g
  <2> QED BY <1>1, <2>2, <2>3, RankGrows
<1>5. \A k \in 1..Cardinality(Q) : k <= Rank(P, g(k))
  <2> DEFINE Late == {k \in 1..Cardinality(Q) : ~ (k <= Rank(P, g(k)))}
  <2> SUFFICES ASSUME Late # {} PROVE FALSE
    OBVIOUS
  <2>1. Late \in SUBSET Nat OBVIOUS
  <2>2. PICK k \in Late : \A l \in Late : k <= l BY <2>1, LeastExists
  <2>3. k \in 1..Cardinality(Q) /\ Rank(P, g(k)) \in 1..Cardinality(P) /\ Rank(P, g(k)) < k
    <3>1. k \in 1..Cardinality(Q) /\ ~ (k <= Rank(P, g(k))) OBVIOUS
    <3>2. Rank(P, g(k)) \in 1..Cardinality(P) BY <3>1, <1>2
    <3> HIDE DEF g
    <3> QED BY <3>1, <3>2, <1>1
  <2>4. k # 1 BY <2>3, <1>1
  <2>5. k - 1 \in 1..Cardinality(Q) /\ k - 1 < k BY <1>1, <2>3, <2>4
  <2>6. Rank(P, g(k - 1)) < Rank(P, g(k)) BY <1>4, <2>3, <2>5
  <2>7. Rank(P, g(k - 1)) \in 1..Cardinality(P) BY <1>2, <2>5
  <2>8. k - 1 \notin Late BY <2>1, <2>2, <2>5
  <2>9. k - 1 <= Rank(P, g(k - 1)) BY <2>5, <2>8
  <2> HIDE DEF g, Late
  <2> QED BY <1>1, <2>3, <2>5, <2>6, <2>7, <2>9
<1>6. m \in [1..Len(Chain(t)) -> 1..Len(Chain(s))] BY <1>1, <1>2
<1>7. \A k \in 1..Len(Chain(t)) : m[k] = Rank(P, g(k)) OBVIOUS
<1> HIDE DEF m, g
<1>8. \A k \in 1..Len(Chain(t)) : Chain(t)[k] = Chain(s)[m[k]] /\ k <= m[k] BY <1>1, <1>3, <1>5, <1>7
<1>9. \A k, l \in 1..Len(Chain(t)) : k < l => m[k] < m[l] BY <1>1, <1>4, <1>7
<1> QED BY <1>6, <1>8, <1>9 DEF Part

\* One more line, and one more hash if it is an entry.
LEMMA AppendFile ==
  ASSUME NEW s, IsFile(s), NEW e, IsLine(e)
  PROVE  /\ IsFile(Append(s, e)) /\ Len(Append(s, e)) = Len(s) + 1
         /\ \A i \in 1..Len(s) : Append(s, e)[i] = s[i]
         /\ Append(s, e)[Len(s) + 1] = e
         /\ e.kind = "entry" => /\ Len(Chain(Append(s, e))) = Len(Chain(s)) + 1
                                /\ \A k \in 1..Len(Chain(s)) : Chain(Append(s, e))[k] = Chain(s)[k]
                                /\ Chain(Append(s, e))[Len(Chain(s)) + 1] = e.self
         /\ e.kind # "entry" => Chain(Append(s, e)) = Chain(s) /\ Entries(Append(s, e)) = Entries(s)
<1> DEFINE t == Append(s, e)
           A == Items(s) \cup {e}
           P == EntryLines(s)
           Q == EntryLines(t)
<1>1. s \in Seq(Items(s)) /\ Len(s) \in Nat BY LenProperties DEF IsFile
<1>2. s \in Seq(A) /\ e \in A
  <2>1. Items(s) \subseteq A OBVIOUS
  <2> HIDE DEF A
  <2>2. s \in Seq(A) BY <1>1, <2>1, SeqMonotonic
  <2> QED BY <2>2 DEF A
<1>3. /\ t \in Seq(A) /\ Len(t) = Len(s) + 1
      /\ \A i \in 1..Len(s) : t[i] = s[i]
      /\ t[Len(s) + 1] = e
  <2> HIDE DEF A
  <2> QED BY <1>2, AppendProperties
<1> HIDE DEF t
<1>4. t \in Seq(Items(t)) BY <1>3, SeqOfItems
<1>5. \A i \in 1..Len(t) : i = Len(s) + 1 \/ i \in 1..Len(s) BY <1>1, <1>3
<1>6. IsFile(t) BY <1>3, <1>4, <1>5 DEF IsFile
<1>7. /\ P \in SUBSET (1..Len(s))
      /\ Len(Chain(s)) = Cardinality(P) /\ Cardinality(P) \in Nat
      /\ \A k \in 1..Cardinality(P) : Nth(P, k) \in P /\ Entries(s)[k] = s[Nth(P, k)] /\ Chain(s)[k] = s[Nth(P, k)].self
  BY ChainFacts
<1>8. /\ Len(Chain(t)) = Cardinality(Q)
      /\ \A k \in 1..Cardinality(Q) : Chain(t)[k] = t[Nth(Q, k)].self
  BY <1>6, ChainFacts
<1>9. Q = P \cup {i \in {Len(s) + 1} : e.kind = "entry"} BY <1>1, <1>3, <1>5 DEF EntryLines
<1>10. CASE e.kind = "entry"
  <2>1. Q = P \cup {Len(s) + 1} BY <1>9, <1>10
  <2> HIDE DEF P, Q
  <2>2. /\ Cardinality(Q) = Cardinality(P) + 1
        /\ \A k \in 1..Cardinality(P) : Nth(Q, k) = Nth(P, k)
        /\ Nth(Q, Cardinality(P) + 1) = Len(s) + 1
    BY <1>1, <1>7, <2>1, NthAppend
  <2>3. \A k \in 1..Cardinality(P) : Chain(t)[k] = Chain(s)[k]
    <3> TAKE k \in 1..Cardinality(P)
    <3>1. k \in 1..Cardinality(Q) BY <1>7, <2>2
    <3>2. Nth(P, k) \in P BY <1>7
    <3>3. Nth(P, k) \in 1..Len(s) BY <1>7, <3>2
    <3> QED BY <1>3, <1>7, <1>8, <2>2, <3>1, <3>3
  <2>4. Cardinality(P) + 1 \in 1..Cardinality(Q) BY <1>7, <2>2
  <2> QED BY <1>3, <1>6, <1>7, <1>8, <1>10, <2>2, <2>3, <2>4 DEF t
<1>11. CASE e.kind # "entry"
  <2>1. Q = P BY <1>9, <1>11
  <2>2. Entries(t) = [k \in 1..Cardinality(P) |-> t[Nth(P, k)]] BY <2>1 DEF Entries, Keep
  <2>3. Entries(s) = [k \in 1..Cardinality(P) |-> s[Nth(P, k)]] BY DEF Entries, Keep
  <2>4. \A k \in 1..Cardinality(P) : t[Nth(P, k)] = s[Nth(P, k)] BY <1>3, <1>7
  <2>5. Entries(t) = Entries(s) BY <2>2, <2>3, <2>4
  <2>6. Chain(t) = Chain(s) BY <2>5 DEF Chain
  <2> QED BY <1>3, <1>6, <1>11, <2>5, <2>6 DEF t
<1> QED BY <1>10, <1>11

\* Lines of s that were left out or are no entries any more.
LEMMA LinesPart ==
  ASSUME NEW s, IsFile(s), NEW t, IsFile(t), NEW f \in [1..Len(t) -> 1..Len(s)],
         \A i \in EntryLines(t) : s[f[i]].kind = "entry" /\ t[i].self = s[f[i]].self,
         \A i, j \in 1..Len(t) : i < j => f[i] < f[j]
  PROVE  Part(Chain(t), Chain(s))
<1> DEFINE g == [i \in EntryLines(t) |-> f[i]]
<1>1. \A i \in EntryLines(t) : i \in 1..Len(t) /\ f[i] \in EntryLines(s) BY DEF EntryLines
<1>2. g \in [EntryLines(t) -> EntryLines(s)] /\ \A i \in EntryLines(t) : g[i] = f[i] BY <1>1
<1> HIDE DEF g
<1> QED BY <1>1, <1>2, MappedPart

\* The first lines of a file.
LEMMA FirstLines ==
  ASSUME NEW s, IsFile(s), NEW n \in 0..Len(s)
  PROVE  /\ IsFile(SubSeq(s, 1, n)) /\ Len(SubSeq(s, 1, n)) = n
         /\ \A i \in 1..n : SubSeq(s, 1, n)[i] = s[i]
         /\ Part(Chain(SubSeq(s, 1, n)), Chain(s))
<1> DEFINE t == SubSeq(s, 1, n)
<1>1. s \in Seq(Items(s)) /\ Len(s) \in Nat BY LenProperties DEF IsFile
<1>2. \A i \in 1..n : s[i] \in Items(s) BY <1>1 DEF Items
<1>3. t \in Seq(Items(s)) /\ Len(t) = n /\ \A i \in 1..n : t[i] = s[i]
  <2>1. 1 \in 1..(Len(s) + 1) /\ n \in 0..Len(s) BY <1>1
  <2>2. /\ t \in Seq(Items(s))
        /\ Len(t) = IF 1 <= n THEN n - 1 + 1 ELSE 0
        /\ \A i \in 1..(n - 1 + 1) : t[i] = s[1 + i - 1]
    BY <1>1, <1>2, <2>1, SubSeqProperties
  <2> HIDE DEF t
  <2> QED BY <1>1, <2>2
<1> HIDE DEF t
<1>4. IsFile(t)
  <2>1. t \in Seq(Items(t)) BY <1>3, SeqOfItems
  <2> QED BY <1>1, <1>3, <2>1 DEF IsFile
<1> DEFINE f == [i \in 1..n |-> i]
<1>5. f \in [1..Len(t) -> 1..Len(s)] /\ \A i \in 1..n : f[i] = i BY <1>1, <1>3
<1> HIDE DEF f
<1>6. \A i \in EntryLines(t) : s[f[i]].kind = "entry" /\ t[i].self = s[f[i]].self
  BY <1>3, <1>5 DEF EntryLines
<1>7. Part(Chain(t), Chain(s)) BY <1>3, <1>4, <1>5, <1>6, LinesPart
<1> QED BY <1>3, <1>4, <1>7 DEF t

\* A file of entries only.
LEMMA OnlyEntries ==
  ASSUME NEW s, IsFile(s), \A i \in 1..Len(s) : s[i].kind = "entry"
  PROVE  Entries(s) = s
<1>1. Len(s) \in Nat /\ s = [i \in 1..Len(s) |-> s[i]] BY LenProperties, ElementOfSeq DEF IsFile
<1>2. EntryLines(s) = 1..Len(s) BY DEF EntryLines
<1>3. Cardinality(1..Len(s)) = Len(s) /\ \A k \in 1..Len(s) : Nth(1..Len(s), k) = k BY <1>1, NthOfAll
<1>4. Entries(s) = [k \in 1..Len(s) |-> s[Nth(1..Len(s), k)]] BY <1>2, <1>3 DEF Entries, Keep
<1>5. [k \in 1..Len(s) |-> s[Nth(1..Len(s), k)]] = [k \in 1..Len(s) |-> s[k]] BY <1>3
<1> QED BY <1>1, <1>4, <1>5

\* Lines left out, or one put in that is no entry.
LEMMA OtherLine ==
  ASSUME NEW s, IsFile(s), NEW j \in 0..Len(s), NEW i \in j..Len(s), NEW new \in {<< >>, <<Blank>>, <<Broken>>},
         NEW t, t = SubSeq(s, 1, j) \o new \o SubSeq(s, i + 1, Len(s))
  PROVE  IsFile(t) /\ Part(Chain(t), Chain(s))
<1> DEFINE A == Items(s) \cup {Blank, Broken}
           a == SubSeq(s, 1, j)
           b == SubSeq(s, i + 1, Len(s))
           m == Len(new)
<1>1. Len(s) \in Nat /\ j \in Nat /\ i \in Nat /\ j <= i /\ i <= Len(s)
  <2>1. Len(s) \in Nat BY LenProperties DEF IsFile
  <2> QED BY <2>1
<1>2. \A k \in 1..Len(s) : s[k] \in A BY DEF Items
<1>3. new \in Seq(A) /\ m \in {0, 1} /\ \A k \in 1..m : new[k].kind # "entry" /\ IsLine(new[k])
  <2>1. CASE new = << >> BY <2>1
  <2>2. ASSUME NEW l \in {Blank, Broken}, new = <<l>>
        PROVE  new \in Seq(A) /\ m \in {0, 1} /\ \A k \in 1..m : new[k].kind # "entry" /\ IsLine(new[k])
    BY <2>2 DEF Blank, Broken, IsLine
  <2> QED BY <2>1, <2>2
<1> HIDE DEF A
<1>4. /\ a \in Seq(A) /\ Len(a) = j /\ \A k \in 1..j : a[k] = s[k]
  <2>1. \A k \in 1..j : s[k] \in A BY <1>1, <1>2
  <2>2. j \in Int /\ 1 \in Int BY <1>1
  <2>3. /\ a \in Seq(A) /\ Len(a) = IF 1 <= j THEN j - 1 + 1 ELSE 0
        /\ \A k \in 1..(j - 1 + 1) : a[k] = s[1 + k - 1]
    BY <2>1, <2>2, SubSeqProperties
  <2> HIDE DEF a
  <2> QED BY <1>1, <2>3
<1>5. b \in Seq(A) /\ Len(b) = Len(s) - i /\ \A k \in 1..(Len(s) - i) : b[k] = s[i + k]
  <2>1. \A k \in (i + 1)..Len(s) : s[k] \in A BY <1>1, <1>2
  <2>2. i + 1 \in Int /\ Len(s) \in Int BY <1>1
  <2>3. /\ b \in Seq(A) /\ Len(b) = IF i + 1 <= Len(s) THEN Len(s) - (i + 1) + 1 ELSE 0
        /\ \A k \in 1..(Len(s) - (i + 1) + 1) : b[k] = s[(i + 1) + k - 1]
    BY <2>1, <2>2, SubSeqProperties
  <2> HIDE DEF b
  <2>4. PICK n : n = Len(s) OBVIOUS
  <2>5. n \in Nat /\ i \in Nat /\ i <= n BY <1>1, <2>4
  <2>6. (IF i + 1 <= n THEN n - (i + 1) + 1 ELSE 0) = n - i /\ n - (i + 1) + 1 = n - i BY <2>5
  <2>7. Len(b) = n - i BY <2>3, <2>4, <2>6
  <2>8. ASSUME NEW k \in 1..(n - i) PROVE b[k] = s[i + k]
    <3>1. b[k] = s[(i + 1) + k - 1] BY <2>3, <2>4, <2>6
    <3>2. (i + 1) + k - 1 = i + k BY <2>5
    <3> QED BY <3>1, <3>2
  <2> QED BY <2>3, <2>4, <2>7, <2>8
<1>6. t = a \o new \o b OBVIOUS
<1> HIDE DEF a, b, m
<1>7. PICK c : c = a \o new OBVIOUS
<1>8. /\ c \in Seq(A) /\ Len(c) = j + m
      /\ \A k \in 1..(j + m) : c[k] = IF k <= j THEN a[k] ELSE new[k - j]
  <2>1. /\ a \o new \in Seq(A) /\ Len(a \o new) = Len(a) + Len(new)
        /\ \A k \in 1..(Len(a) + Len(new)) : (a \o new)[k] = IF k <= Len(a) THEN a[k] ELSE new[k - Len(a)]
    <3>1. a \in Seq(A) /\ new \in Seq(A) BY <1>3, <1>4
    <3> QED BY <3>1, ConcatProperties
  <2>2. Len(new) = m BY DEF m
  <2> QED BY <1>4, <1>7, <2>1, <2>2
<1>9. /\ t \in Seq(A) /\ Len(t) = j + m + (Len(s) - i)
      /\ \A k \in 1..Len(t) : t[k] = IF k <= j + m THEN c[k] ELSE b[k - (j + m)]
  <2>1. t = c \o b BY <1>6, <1>7
  <2>2. /\ t \in Seq(A) /\ Len(t) = Len(c) + Len(b)
        /\ \A k \in 1..(Len(c) + Len(b)) : t[k] = IF k <= Len(c) THEN c[k] ELSE b[k - Len(c)]
    <3>1. b \in Seq(A) /\ c \in Seq(A) BY <1>5, <1>8
    <3>2. /\ c \o b \in Seq(A) /\ Len(c \o b) = Len(c) + Len(b)
          /\ \A k \in 1..(Len(c) + Len(b)) : (c \o b)[k] = IF k <= Len(c) THEN c[k] ELSE b[k - Len(c)]
      BY <3>1, ConcatProperties
    <3> QED BY <2>1, <3>2
  <2> QED BY <1>5, <1>8, <2>2
<1> DEFINE from(k) == IF k <= j THEN k ELSE k - (j + m) + i
<1>10. ASSUME NEW k \in 1..Len(t)
       PROVE  \/ from(k) \in 1..Len(s) /\ t[k] = s[from(k)] /\ (k <= j \/ k > j + m)
              \/ t[k].kind # "entry" /\ IsLine(t[k])
  <2>0. k \in Nat /\ 1 <= k /\ k <= j + m + (Len(s) - i) /\ m \in Nat
    <3>1. m = 0 \/ m = 1 BY <1>3
    <3>2. Len(t) = j + m + (Len(s) - i) BY <1>9
    <3>3. m \in Nat /\ Len(s) - i \in Nat BY <1>1, <3>1
    <3>4. PICK r : r = Len(s) - i OBVIOUS
    <3>5. k \in 1..(j + m + r) BY <3>2, <3>4
    <3>6. k \in Nat /\ 1 <= k /\ k <= j + m + r BY <1>1, <3>3, <3>4, <3>5
    <3> QED BY <3>3, <3>4, <3>6
  <2>1. CASE k <= j
    <3>1. k \in 1..j /\ k \in 1..(j + m) /\ k <= j + m /\ from(k) = k /\ k \in 1..Len(s)
      BY <1>1, <2>0, <2>1
    <3>2. t[k] = c[k] BY <1>9, <3>1
    <3>3. c[k] = a[k] BY <1>8, <2>1, <3>1
    <3>4. a[k] = s[k] BY <1>4, <3>1
    <3> QED BY <2>1, <3>1, <3>2, <3>3, <3>4
  <2>2. CASE ~ (k <= j) /\ k <= j + m
    <3>1. k \in 1..(j + m) /\ k - j \in 1..m BY <1>1, <2>0, <2>2
    <3>2. t[k] = c[k] BY <1>9, <2>2
    <3>3. c[k] = new[k - j] BY <1>8, <2>2, <3>1
    <3>4. new[k - j].kind # "entry" /\ IsLine(new[k - j]) BY <1>3, <3>1
    <3> QED BY <3>2, <3>3, <3>4
  <2>3. CASE ~ (k <= j + m)
    <3>1. /\ k - (j + m) \in 1..(Len(s) - i) /\ i + (k - (j + m)) = k - (j + m) + i
          /\ k - (j + m) + i \in 1..Len(s) /\ from(k) = k - (j + m) + i /\ k > j + m
      BY <1>1, <2>0, <2>3
    <3>2. t[k] = b[k - (j + m)] BY <1>9, <2>3
    <3>3. b[k - (j + m)] = s[i + (k - (j + m))] BY <1>5, <3>1
    <3>4. t[k] = s[k - (j + m) + i] BY <3>1, <3>2, <3>3
    <3> QED BY <3>1, <3>4
  <2> QED BY <2>1, <2>2, <2>3
<1>11. ASSUME NEW k \in 1..Len(t), NEW l \in 1..Len(t), k < l, k <= j \/ k > j + m, l <= j \/ l > j + m
       PROVE  from(k) < from(l)
  <2>1. k \in Int /\ l \in Int /\ m \in Nat BY <1>3
  <2> QED BY <1>1, <1>11, <2>1
<1> HIDE DEF from
<1>12. IsFile(t)
  <2>1. t \in Seq(Items(t)) BY <1>9, SeqOfItems
  <2>2. \A k \in 1..Len(t) : IsLine(t[k]) BY <1>10 DEF IsFile
  <2> QED BY <2>1, <2>2 DEF IsFile
<1> DEFINE f == [k \in EntryLines(t) |-> from(k)]
<1>13. \A k \in EntryLines(t) : /\ k \in 1..Len(t) /\ from(k) \in 1..Len(s) /\ t[k] = s[from(k)]
                                /\ k <= j \/ k > j + m
                                /\ from(k) \in EntryLines(s)
  BY <1>10 DEF EntryLines
<1>14. f \in [EntryLines(t) -> EntryLines(s)] /\ \A k \in EntryLines(t) : f[k] = from(k) BY <1>13
<1> HIDE DEF f
<1>15. \A k \in EntryLines(t) : t[k].self = s[f[k]].self BY <1>13, <1>14
<1>16. \A k, l \in EntryLines(t) : k < l => f[k] < f[l] BY <1>11, <1>13, <1>14
<1> QED BY <1>12, <1>14, <1>15, <1>16, MappedPart

\* One field of a line edited.
LEMMA EditedLine ==
  ASSUME NEW s, IsFile(s), NEW i \in 1..Len(s), s[i].kind = "entry",
         NEW t, \/ t = [s EXCEPT ![i].data = -1] \/ t = [s EXCEPT ![i].extra = TRUE]
                \/ t = [s EXCEPT ![i].idx = @ + 1] \/ t = [s EXCEPT ![i].prev = GENESIS]
  PROVE  IsFile(t) /\ Part(Chain(t), Chain(s))
<1>1. Len(s) \in Nat /\ s \in Seq(Items(s)) /\ \A k \in 1..Len(s) : IsLine(s[k]) BY LenProperties DEF IsFile
<1>2. PICK l : /\ t = [s EXCEPT ![i] = l]
               /\ \/ l = [s[i] EXCEPT !.data = -1] \/ l = [s[i] EXCEPT !.extra = TRUE]
                  \/ l = [s[i] EXCEPT !.idx = @ + 1] \/ l = [s[i] EXCEPT !.prev = GENESIS]
  OBVIOUS
<1>3. IsLine(l) /\ l.kind = "entry" /\ l.self = s[i].self
  <2>1. PICK e : e = s[i] OBVIOUS
  <2>2. IsLine(e) /\ e.kind = "entry" BY <1>1, <2>1
  <2>3. e = [kind |-> "entry", idx |-> e.idx, data |-> e.data, prev |-> e.prev, extra |-> e.extra, self |-> e.self]
        /\ e.idx \in Nat /\ IsHash(e.self)
    BY <2>2 DEF IsLine
  <2>4. PICK g : g = GENESIS OBVIOUS
  <2>5. CASE l = [e EXCEPT !.data = -1] BY <2>1, <2>3, <2>5 DEF IsLine
  <2>6. CASE l = [e EXCEPT !.extra = TRUE] BY <2>1, <2>3, <2>6 DEF IsLine
  <2>7. CASE l = [e EXCEPT !.idx = @ + 1]
    <3>1. l = [kind |-> "entry", idx |-> e.idx + 1, data |-> e.data, prev |-> e.prev, extra |-> e.extra, self |-> e.self]
      BY <2>3, <2>7
    <3> QED BY <2>1, <2>3, <3>1 DEF IsLine
  <2>8. CASE l = [e EXCEPT !.prev = g] BY <2>1, <2>3, <2>8 DEF IsLine
  <2> QED BY <1>2, <2>1, <2>4, <2>5, <2>6, <2>7, <2>8
<1>4. DOMAIN s = 1..Len(s) BY <1>1, LenProperties
<1>5. DOMAIN t = 1..Len(s) /\ t[i] = l /\ \A k \in 1..Len(s) : k # i => t[k] = s[k] BY <1>2, <1>4
<1>6. t \in Seq(Items(s) \cup {l}) /\ Len(t) = Len(s)
  <2> DEFINE A == Items(s) \cup {l}
  <2>1. Items(s) \subseteq A /\ l \in A OBVIOUS
  <2> HIDE DEF A
  <2>2. s \in Seq(A) BY <1>1, <2>1, SeqMonotonic
  <2>3. t \in Seq(A) /\ Len(t) = Len(s) BY <1>2, <2>1, <2>2, ExceptSeq
  <2> QED BY <2>3 DEF A
<1>7. IsFile(t)
  <2>1. t \in Seq(Items(t)) BY <1>6, SeqOfItems
  <2>2. \A k \in 1..Len(t) : IsLine(t[k]) BY <1>1, <1>3, <1>5, <1>6
  <2> QED BY <2>1, <2>2 DEF IsFile
<1> DEFINE f == [k \in 1..Len(t) |-> k]
<1>8. f \in [1..Len(t) -> 1..Len(s)] /\ \A k \in 1..Len(t) : f[k] = k BY <1>6
<1> HIDE DEF f
<1>9. \A k \in EntryLines(t) : s[f[k]].kind = "entry" /\ t[k].self = s[f[k]].self
  BY <1>3, <1>5, <1>6, <1>8 DEF EntryLines
<1> QED BY <1>7, <1>8, <1>9, LinesPart

-----------------------------------------------------------------------------
(* What a hash commits to *)

\* The hashes of a chain that verify_ledger accepts.
IsChain(L) ==
  /\ Len(L) \in Nat
  /\ \A i \in 1..Len(L) :
       /\ IsHash(L[i]) /\ L[i][2] = i - 1
       /\ L[i][5] = IF i = 1 THEN GENESIS ELSE L[i - 1]

\* In a chain that holds h, g comes before it.
Embeds(g, h) == \A L : IsChain(L) => \A j \in 1..Len(L) : L[j] = h => \E i \in 1..(j - 1) : L[i] = g

\* Each hash of c commits to those before it.
Linked(c) == \A j \in 1..Len(c) : \A i \in 1..(j - 1) : Embeds(c[i], c[j])

\* A hash commits to the one its entry names as the previous one.
LEMMA EmbedsPrev ==
  ASSUME NEW h, IsHash(h), IsHash(h[5])
  PROVE  Embeds(h[5], h)
<1> SUFFICES ASSUME NEW L, IsChain(L), NEW j \in 1..Len(L), L[j] = h PROVE \E i \in 1..(j - 1) : L[i] = h[5]
  BY DEF Embeds
<1>1. GENESIS # h[5]
  <2>1. DOMAIN GENESIS = {} BY DEF GENESIS
  <2>2. 1 \in DOMAIN h[5] BY DEF IsHash
  <2> QED BY <2>1, <2>2
<1>2. h[5] = IF j = 1 THEN GENESIS ELSE L[j - 1] BY DEF IsChain
<1>3. j # 1 /\ L[j - 1] = h[5] BY <1>1, <1>2
<1>4. j - 1 \in 1..(j - 1) BY <1>3 DEF IsChain
<1> QED BY <1>3, <1>4

\* And to what that one commits to.
LEMMA EmbedsTransitive ==
  ASSUME NEW f, NEW g, NEW h, Embeds(f, g), Embeds(g, h)
  PROVE  Embeds(f, h)
<1> SUFFICES ASSUME NEW L, IsChain(L), NEW j \in 1..Len(L), L[j] = h PROVE \E i \in 1..(j - 1) : L[i] = f
  BY DEF Embeds
<1>1. PICK k \in 1..(j - 1) : L[k] = g BY DEF Embeds
<1>2. k \in 1..Len(L) BY DEF IsChain
<1>3. PICK i \in 1..(k - 1) : L[i] = f BY <1>1, <1>2 DEF Embeds
<1>4. i \in 1..(j - 1) BY <1>2
<1> QED BY <1>3, <1>4

\* Leaving hashes out keeps that.
LEMMA PartLinked ==
  ASSUME NEW c, NEW d, Len(c) \in Nat, Len(d) \in Nat, Part(c, d), Linked(d)
  PROVE  Linked(c)
<1>1. PICK m \in [1..Len(c) -> 1..Len(d)] :
        /\ \A k \in 1..Len(c) : c[k] = d[m[k]] /\ k <= m[k]
        /\ \A k, l \in 1..Len(c) : k < l => m[k] < m[l]
  BY DEF Part
<1>2. ASSUME NEW j \in 1..Len(c), NEW i \in 1..(j - 1) PROVE Embeds(c[i], c[j])
  <2>1. i \in 1..Len(c) /\ i < j OBVIOUS
  <2>2. m[i] \in 1..Len(d) /\ m[j] \in 1..Len(d) /\ m[i] < m[j] BY <1>1, <2>1
  <2>3. m[i] \in 1..(m[j] - 1) BY <2>2
  <2> QED BY <1>1, <2>1, <2>2, <2>3 DEF Linked
<1> QED BY <1>2 DEF Linked

\* A new hash that names the last one as the previous one keeps it too.
LEMMA AppendLinked ==
  ASSUME NEW c, NEW d, Len(d) \in Nat, Linked(d), NEW h, IsHash(h),
         Len(c) = Len(d) + 1, \A k \in 1..Len(d) : c[k] = d[k], c[Len(d) + 1] = h,
         Len(d) > 0 => IsHash(d[Len(d)]) /\ h[5] = d[Len(d)]
  PROVE  Linked(c)
<1>1. ASSUME NEW j \in 1..Len(c), NEW i \in 1..(j - 1) PROVE Embeds(c[i], c[j])
  <2>1. i \in 1..Len(d) /\ c[i] = d[i] OBVIOUS
  <2>2. CASE j \in 1..Len(d) BY <2>1, <2>2 DEF Linked
  <2>3. CASE j = Len(d) + 1
    <3>1. Len(d) \in 1..Len(d) BY <2>1
    <3>2. Embeds(d[Len(d)], h) BY <3>1, EmbedsPrev
    <3>3. CASE i = Len(d) BY <2>1, <2>3, <3>2, <3>3
    <3>4. CASE i # Len(d)
      <4>1. i \in 1..(Len(d) - 1) BY <2>1, <3>4
      <4>2. Embeds(d[i], d[Len(d)]) BY <3>1, <4>1 DEF Linked
      <4> QED BY <2>1, <2>3, <3>2, <4>2, EmbedsTransitive
    <3> QED BY <3>3, <3>4
  <2> QED BY <2>2, <2>3
<1> QED BY <1>1 DEF Linked

\* A chain that ends with the hash that linked hashes end with is those hashes,
\* unless it is longer.
LEMMA SameChain ==
  ASSUME NEW c, NEW n \in Nat \ {0}, Len(c) = n, Linked(c),
         NEW L, IsChain(L), Len(L) > 0, L[Len(L)] = c[n], Len(L) <= n
  PROVE  Len(L) = n /\ \A k \in 1..n : c[k] = L[k]
<1> DEFINE p(k) == c[k][2] + 1
<1>1. Len(L) \in Nat BY DEF IsChain
<1>2. ASSUME NEW j \in 1..Len(L) PROVE L[j][2] + 1 = j BY <1>1 DEF IsChain
<1>3. \A k \in 1..n : p(k) \in 1..Len(L) /\ L[p(k)] = c[k]
  <2> TAKE k \in 1..n
  <2>1. \E j \in 1..Len(L) : L[j] = c[k]
    <3>1. CASE k = n BY <1>1, <3>1
    <3>2. CASE k # n
      <4>1. k \in 1..(n - 1) /\ n \in 1..n BY <3>2
      <4>2. Embeds(c[k], c[n]) BY <4>1 DEF Linked
      <4>3. Len(L) \in 1..Len(L) BY <1>1
      <4>4. PICK i \in 1..(Len(L) - 1) : L[i] = c[k] BY <4>2, <4>3 DEF Embeds
      <4>5. i \in 1..Len(L) BY <1>1
      <4> QED BY <4>4, <4>5
    <3> QED BY <3>1, <3>2
  <2>2. PICK j \in 1..Len(L) : L[j] = c[k] BY <2>1
  <2>3. p(k) = j BY <1>2, <2>2
  <2> QED BY <2>2, <2>3
<1>4. \A k, l \in 1..n : k < l => p(k) < p(l)
  <2> SUFFICES ASSUME NEW k \in 1..n, NEW l \in 1..n, k < l PROVE p(k) < p(l)
    OBVIOUS
  <2>1. k \in 1..(l - 1) OBVIOUS
  <2>2. Embeds(c[k], c[l]) BY <2>1 DEF Linked
  <2>3. p(l) \in 1..Len(L) /\ L[p(l)] = c[l] BY <1>3
  <2>4. PICK i \in 1..(p(l) - 1) : L[i] = c[k]
    <3> HIDE DEF p
    <3> QED BY <2>2, <2>3 DEF Embeds
  <2>5. i \in 1..Len(L) /\ i < p(l)
    <3> HIDE DEF p
    <3> QED BY <1>1, <2>3
  <2>6. p(k) = i BY <1>2, <2>4, <2>5
  <2> QED BY <2>5, <2>6
<1>5. p(n) = Len(L)
  <2>1. Len(L) \in 1..Len(L) BY <1>1
  <2> QED BY <1>2, <2>1
<1> HIDE DEF p
<1>6. \A k \in 1..n : k <= p(k)
  <2> DEFINE T == {k \in 1..n : ~ (k <= p(k))}
  <2> SUFFICES ASSUME T # {} PROVE FALSE
    OBVIOUS
  <2>1. T \in SUBSET Nat OBVIOUS
  <2>2. PICK k \in T : \A l \in T : k <= l BY <2>1, LeastExists
  <2>3. k \in 1..n /\ p(k) \in 1..Len(L) /\ p(k) < k
    <3>1. k \in 1..n /\ ~ (k <= p(k)) OBVIOUS
    <3> QED BY <1>1, <1>3, <3>1
  <2>4. k # 1 BY <1>1, <2>3
  <2>5. k - 1 \in 1..n /\ k - 1 < k BY <2>3, <2>4
  <2>6. p(k - 1) < p(k) /\ p(k - 1) \in 1..Len(L) BY <1>3, <1>4, <2>3, <2>5
  <2>7. k - 1 <= p(k - 1) BY <2>1, <2>2, <2>5
  <2> HIDE DEF T
  <2> QED BY <1>1, <2>3, <2>5, <2>6, <2>7
<1>7. Len(L) = n
  <2>1. n \in 1..n OBVIOUS
  <2> QED BY <1>1, <1>5, <1>6, <2>1
<1>8. \A k \in 1..n : p(k) <= k
  <2> DEFINE T == {x \in Nat : \E k \in 1..n : x = n - k /\ ~ (p(k) <= k)}
  <2> SUFFICES ASSUME NEW q \in 1..n, ~ (p(q) <= q) PROVE FALSE
    OBVIOUS
  <2>1. n - q \in T /\ T \in SUBSET Nat OBVIOUS
  <2>2. PICK x \in T : \A y \in T : x <= y BY <2>1, LeastExists
  <2>3. PICK k \in 1..n : x = n - k /\ ~ (p(k) <= k) OBVIOUS
  <2>4. p(k) \in 1..n /\ k < p(k) BY <1>3, <1>7, <2>3
  <2>5. k + 1 \in 1..n /\ k < k + 1 BY <2>4
  <2>6. p(k) < p(k + 1) /\ p(k + 1) \in 1..n BY <1>3, <1>4, <1>7, <2>5
  <2>7. ~ (p(k + 1) <= k + 1) BY <2>4, <2>6
  <2>8. n - (k + 1) \in T BY <2>5, <2>7
  <2>9. x <= n - (k + 1) BY <2>2, <2>8
  <2> HIDE DEF T
  <2> QED BY <2>3, <2>5, <2>9
<1>9. \A k \in 1..n : p(k) = k BY <1>1, <1>3, <1>6, <1>7, <1>8
<1> QED BY <1>3, <1>7, <1>9

-----------------------------------------------------------------------------
(* The chains that are around and what was signed of them *)

\* A chain of hashes of data that was there before d was next.
Fresh(c, d) == c \in Seq(Items(c)) /\ \A i \in 1..Len(c) : IsHash(c[i]) /\ c[i][3] < d

\* No chain of FF holds h after place n.
Bounded(h, n, FF) == \A F \in FF : \A k \in 1..Len(F) : F[k] = h => k <= n

\* What the log key signed: the number of entries may be wrong after tampering,
\* but then no file holds its last hash any further back.
Sealed(s, FF, d) ==
  /\ Linked(s.chain) /\ Fresh(s.chain, d)
  /\ s.last = LastOf(s.chain) /\ s.ts \in Nat /\ s.n \in Nat
  /\ s.n = Len(s.chain) \/ Bounded(s.last, Len(s.chain), FF)

\* A chain that a step makes of the chains FF while the data goes from d to e:
\* hashes are left out, and the hash of new data may be put at the end.
Extends(G, E, d, e) ==
  /\ Len(G) = Len(E) + 1 /\ \A k \in 1..Len(E) : G[k] = E[k]
  /\ IsHash(G[Len(G)]) /\ G[Len(G)][3] = d /\ d < e
Derived(G, FF, d, e) ==
  /\ G \in Seq(Items(G))
  /\ \E F \in FF : Part(G, F) \/ \E E : Len(E) \in Nat /\ Part(E, F) /\ Extends(G, E, d, e)

\* A chain is a part of itself.
LEMMA PartSame ==
  ASSUME NEW c, Len(c) \in Nat
  PROVE  Part(c, c)
<1> DEFINE m == [k \in 1..Len(c) |-> k]
<1>1. m \in [1..Len(c) -> 1..Len(c)] /\ \A k \in 1..Len(c) : m[k] = k OBVIOUS
<1> HIDE DEF m
<1>2. \A k \in 1..Len(c) : c[k] = c[m[k]] /\ k <= m[k] BY <1>1
<1>3. \A k, l \in 1..Len(c) : k < l => m[k] < m[l] BY <1>1
<1> QED BY <1>1, <1>2, <1>3 DEF Part

\* The hash of a chain is not that of the empty file.
LEMMA LastHash ==
  ASSUME NEW c, NEW d, Fresh(c, d)
  PROVE  /\ Len(c) \in Nat
         /\ c = << >> <=> Len(c) = 0
         /\ LastOf(c) = GENESIS <=> Len(c) = 0
         /\ Len(c) > 0 => LastOf(c) = c[Len(c)] /\ IsHash(LastOf(c)) /\ LastOf(c)[3] < d
         /\ \A k \in 1..Len(c) : c[k] # GENESIS
<1>1. Len(c) \in Nat /\ (c = << >> <=> Len(c) = 0) BY LenProperties, EmptySeq DEF Fresh
<1>2. \A h : IsHash(h) => h # GENESIS
  <2>1. DOMAIN GENESIS = {} BY DEF GENESIS
  <2>2. \A h : IsHash(h) => 1 \in DOMAIN h BY DEF IsHash
  <2> QED BY <2>1, <2>2
<1>3. \A k \in 1..Len(c) : IsHash(c[k]) /\ c[k] # GENESIS /\ c[k][3] < d BY <1>2 DEF Fresh
<1>4. Len(c) > 0 => LastOf(c) = c[Len(c)] /\ Len(c) \in 1..Len(c) BY <1>1 DEF LastOf
<1> QED BY <1>1, <1>3, <1>4 DEF LastOf

\* The chains a step makes are fresh, and hold no older hash further back.
LEMMA DerivedChains ==
  ASSUME NEW FF, NEW GG, NEW d \in Nat, NEW e \in Nat, d <= e,
         \A F \in FF : Fresh(F, d), \A G \in GG : Derived(G, FF, d, e)
  PROVE  /\ \A G \in GG : Fresh(G, e)
         /\ \A h, n : (h # GENESIS => h[3] < d) /\ n \in Nat /\ Bounded(h, n, FF) => Bounded(h, n, GG)
<1>1. ASSUME NEW E, NEW F \in FF, Len(E) \in Nat, Part(E, F)
      PROVE  /\ \A k \in 1..Len(E) : IsHash(E[k]) /\ E[k][3] < d
             /\ \A h, n : n \in Nat /\ Bounded(h, n, FF) => \A k \in 1..Len(E) : E[k] = h => k <= n
  <2>1. Len(F) \in Nat BY LenProperties DEF Fresh
  <2>2. PICK m \in [1..Len(E) -> 1..Len(F)] : \A k \in 1..Len(E) : E[k] = F[m[k]] /\ k <= m[k] BY <1>1 DEF Part
  <2>3. \A k \in 1..Len(E) : m[k] \in 1..Len(F) BY <2>2
  <2>4. \A k \in 1..Len(E) : IsHash(E[k]) /\ E[k][3] < d BY <2>2, <2>3 DEF Fresh
  <2>5. ASSUME NEW h, NEW n \in Nat, Bounded(h, n, FF), NEW k \in 1..Len(E), E[k] = h PROVE k <= n
    <3>1. F[m[k]] = h /\ m[k] \in 1..Len(F) /\ k <= m[k] BY <2>2, <2>3, <2>5
    <3>2. m[k] <= n BY <2>5, <3>1 DEF Bounded
    <3> QED BY <2>1, <3>1, <3>2
  <2> QED BY <2>4, <2>5
<1>2. ASSUME NEW G \in GG
      PROVE  /\ Fresh(G, e)
             /\ \A h, n : (h # GENESIS => h[3] < d) /\ n \in Nat /\ Bounded(h, n, FF) =>
                  \A k \in 1..Len(G) : G[k] = h => k <= n
  <2>1. G \in Seq(Items(G)) /\ Len(G) \in Nat BY LenProperties DEF Derived
  <2>2. PICK F \in FF : Part(G, F) \/ \E E : Len(E) \in Nat /\ Part(E, F) /\ Extends(G, E, d, e) BY DEF Derived
  <2>3. CASE Part(G, F)
    <3>1. \A k \in 1..Len(G) : IsHash(G[k]) /\ G[k][3] < d BY <1>1, <2>1, <2>3
    <3>2. \A k \in 1..Len(G) : G[k][3] < e BY <3>1 DEF IsHash
    <3> QED BY <1>1, <2>1, <2>3, <3>1, <3>2 DEF Fresh
  <2>4. ASSUME NEW E, Len(E) \in Nat, Part(E, F), Extends(G, E, d, e)
        PROVE  /\ Fresh(G, e)
               /\ \A h, n : (h # GENESIS => h[3] < d) /\ n \in Nat /\ Bounded(h, n, FF) =>
                    \A k \in 1..Len(G) : G[k] = h => k <= n
    <3>1. \A k \in 1..Len(E) : IsHash(E[k]) /\ E[k][3] < d BY <1>1, <2>4
    <3>2. /\ Len(G) = Len(E) + 1 /\ \A k \in 1..Len(E) : G[k] = E[k]
          /\ IsHash(G[Len(G)]) /\ G[Len(G)][3] = d /\ d < e
      BY <2>4 DEF Extends
    <3>3. \A k \in 1..Len(G) : k \in 1..Len(E) \/ k = Len(G) BY <2>4, <3>2
    <3>4. \A k \in 1..Len(G) : IsHash(G[k]) /\ G[k][3] < e BY <3>1, <3>2, <3>3 DEF IsHash
    <3>5. ASSUME NEW h, NEW n \in Nat, h # GENESIS => h[3] < d, Bounded(h, n, FF), NEW k \in 1..Len(G), G[k] = h
          PROVE  k <= n
      <4>1. h # GENESIS
        <5>1. Fresh(G, e) BY <2>1, <3>4 DEF Fresh
        <5> QED BY <3>5, <5>1, LastHash
      <4>2. k # Len(G) BY <3>2, <3>5, <4>1
      <4>3. k \in 1..Len(E) /\ E[k] = h BY <3>2, <3>3, <3>5, <4>2
      <4> QED BY <1>1, <2>4, <3>5, <4>3
    <3> QED BY <2>1, <3>4, <3>5 DEF Fresh
  <2> QED BY <2>2, <2>3, <2>4
<1>3. ASSUME NEW h, NEW n, (h # GENESIS => h[3] < d) /\ n \in Nat /\ Bounded(h, n, FF) PROVE Bounded(h, n, GG)
  BY <1>2, <1>3 DEF Bounded
<1> QED BY <1>2, <1>3

-----------------------------------------------------------------------------
(* The inductive invariant *)

\* The lines verifiers have read, the chains of all files.
Reading == {r \in Readers : reader[r].at = "read"}
Files   == {Chain(ledger)} \cup {Chain(reader[r].lines) : r \in Reading}

\* The files are lines, and the hashes of the ledger commit to those before them.
FilesInv ==
  /\ IsFile(ledger) /\ data \in Nat /\ now \in Nat /\ tampers \in Nat
  /\ DOMAIN reader = Readers /\ DOMAIN signer = Signers
  /\ \A r \in Reading : IsFile(reader[r].lines)
  /\ Linked(Chain(ledger)) /\ \A F \in Files : Fresh(F, data)

\* What sign_tip has read and will sign.
SignerInv == \A s \in Signers : signer[s].at = "read" =>
  /\ signer[s].n = Len(signer[s].chain) /\ signer[s].last = LastOf(signer[s].chain)
  /\ Linked(signer[s].chain) /\ Fresh(signer[s].chain, data)

SealInv == \A s \in signed : Sealed(s, Files, data)

\* What the writer that holds the lock will sign.
LockInv == lock # "free" => Chain(ledger) # << >> /\ Bounded(LastOf(Chain(ledger)), Len(Chain(ledger)), Files)

\* The tip t says what s was signed for, with its companion or without.
Names(t, s) ==
  /\ t.entries = s.n /\ t.id = s.id /\ t.last = s.last /\ t.ts = s.ts
  /\ t.pq \in {s.pq, "none", "malformed"}

TipFileInv ==
  /\ issued \subseteq {Tip(s.n, s.id, s.last, s.ts, "log", s.pq) : s \in signed}
  /\ tip.kind \in {"none", "unreadable", "tip"}
  /\ tip.kind = "tip" /\ tip.key = "log" => \E s \in signed : Names(tip, s)

(* Only the log key makes a tip that verifies, and everything it signed    *)
(* was the chain of a file, whose last hash is in no file behind that      *)
(* place: a hash commits to all before it and to data of its own.          *)
SignedInv == FilesInv /\ SignerInv /\ SealInv /\ LockInv /\ TipFileInv

LEMMA InitSigned == Init => SignedInv
<1> SUFFICES ASSUME Init PROVE SignedInv
  OBVIOUS
<1> USE DEF Init
<1>1. IsFile(ledger) /\ Len(ledger) = 0 BY DEF IsFile, Items
<1>2. Len(Chain(ledger)) = 0 /\ Chain(ledger) = << >>
  <2>1. EntryLines(ledger) = {} BY <1>1 DEF EntryLines
  <2>2. Len(Chain(ledger)) = Cardinality({}) BY <1>1, <2>1, ChainFacts
  <2>3. Len(Chain(ledger)) = 0 BY <2>2, FS_EmptySet
  <2> QED BY <1>1, <2>3, ChainFacts
<1>3. Reading = {} BY DEF Reading, Idle
<1>4. Files = {<< >>} BY <1>2, <1>3 DEF Files
<1>5. FilesInv BY <1>1, <1>2, <1>3, <1>4 DEF FilesInv, Linked, Fresh, Items
<1>6. SignerInv BY DEF SignerInv, Idle
<1>7. SealInv BY DEF SealInv
<1>8. LockInv BY DEF LockInv
<1>9. TipFileInv BY DEF TipFileInv, NoTip
<1> QED BY <1>5, <1>6, <1>7, <1>8, <1>9 DEF SignedInv

\* A step that makes the files out of those there were keeps what was signed.
LEMMA FilesStep ==
  ASSUME SignedInv, data' \in Nat, data <= data', \A G \in Files' : Derived(G, Files, data, data')
  PROVE  /\ \A G \in Files' : Fresh(G, data')
         /\ \A s \in signed : Sealed(s, Files', data')
         /\ \A s \in Signers : signer[s].at = "read" => Fresh(signer[s].chain, data')
         /\ \A c : Fresh(c, data) => Fresh(c, data')
<1>1. PICK GG, e : GG = Files' /\ e = data' OBVIOUS
<1>2. data \in Nat /\ \A F \in Files : Fresh(F, data) BY DEF SignedInv, FilesInv
<1>3. e \in Nat /\ data <= e /\ \A G \in GG : Derived(G, Files, data, e) BY <1>1
<1>4. /\ \A G \in GG : Fresh(G, e)
      /\ \A h, n : (h # GENESIS => h[3] < data) /\ n \in Nat /\ Bounded(h, n, Files) => Bounded(h, n, GG)
  BY <1>2, <1>3, DerivedChains
<1>5. ASSUME NEW c, Fresh(c, data) PROVE Fresh(c, e)
  BY <1>2, <1>3, <1>5 DEF Fresh, IsHash
<1>6. ASSUME NEW s \in signed PROVE Sealed(s, GG, e)
  <2>1. Sealed(s, Files, data) BY DEF SignedInv, SealInv
  <2>2. Fresh(s.chain, data) /\ s.last = LastOf(s.chain) BY <2>1 DEF Sealed
  <2>3. s.last # GENESIS => s.last[3] < data BY <2>2, LastHash
  <2>4. Len(s.chain) \in Nat BY <2>2, LastHash
  <2>5. Fresh(s.chain, e) BY <1>5, <2>2
  <2> QED BY <1>4, <2>1, <2>3, <2>4, <2>5 DEF Sealed
<1>7. \A s \in Signers : signer[s].at = "read" => Fresh(signer[s].chain, e)
  BY <1>5 DEF SignedInv, SignerInv
<1> QED BY <1>1, <1>4, <1>5, <1>6, <1>7

\* A file that is there already.
LEMMA SameFile ==
  ASSUME SignedInv, NEW F \in Files, NEW e \in Nat
  PROVE  Derived(F, Files, data, e)
<1>1. Fresh(F, data) BY DEF SignedInv, FilesInv
<1>2. F \in Seq(Items(F)) /\ Len(F) \in Nat BY <1>1, LenProperties DEF Fresh
<1> QED BY <1>2, PartSame DEF Derived

\* The chain of a file is a sequence.
LEMMA ChainSeq ==
  ASSUME NEW s, IsFile(s)
  PROVE  Chain(s) \in Seq(Items(Chain(s)))
<1>1. Len(Entries(s)) \in Nat /\ Len(Chain(s)) = Len(Entries(s)) BY ChainFacts
<1>2. Chain(s) = [i \in 1..Len(Entries(s)) |-> Entries(s)[i].self] BY DEF Chain
<1>3. \A i \in 1..Len(Entries(s)) : Entries(s)[i].self \in Items(Chain(s))
  BY <1>1, <1>2 DEF Items
<1> QED BY <1>1, <1>2, <1>3, IsASeq

\* Steps that leave the files alone.
LEMMA UnchangedFiles ==
  ASSUME SignedInv, ledger' = ledger, reader' = reader, data' = data,
         now' \in Nat, tampers' \in Nat, DOMAIN signer' = Signers
  PROVE  FilesInv' /\ Files' = Files
<1>1. Reading' = Reading BY DEF Reading
<1>2. Chain(ledger)' = Chain(ledger) OBVIOUS
<1>3. \A r \in Readers : Chain(reader[r].lines)' = Chain(reader[r].lines) OBVIOUS
<1>4. Files' = Files BY <1>1, <1>2, <1>3 DEF Files, Reading
<1> QED BY <1>1, <1>2, <1>3, <1>4 DEF SignedInv, FilesInv

LEMMA UnchangedSeals ==
  ASSUME SignedInv, Files' = Files, data' = data, UNCHANGED <<tip, signed, issued>>
  PROVE  SealInv' /\ TipFileInv'
BY DEF SignedInv, SealInv, TipFileInv

\* A new tip.
LEMMA WriteTipStep ==
  ASSUME SignedInv, Files' = Files, data' = data,
         NEW t, NEW chain, NEW pq \in {"none", "pq"}, WriteTip(t, chain, pq),
         t.n \in Nat, t.last = LastOf(chain), Linked(chain), Fresh(chain, data),
         t.n = Len(chain) \/ Bounded(t.last, Len(chain), Files)
  PROVE  SealInv' /\ TipFileInv'
<1> DEFINE s == [n |-> t.n, id |-> t.id, last |-> t.last, ts |-> now, pq |-> pq, chain |-> chain]
<1>1. /\ tip' = Tip(s.n, s.id, s.last, s.ts, "log", s.pq)
      /\ issued' = issued \cup {tip'} /\ signed' = signed \cup {s}
  BY DEF WriteTip
<1>2. now \in Nat BY DEF SignedInv, FilesInv
<1>3. Sealed(s, Files, data) BY <1>2 DEF Sealed
<1>4. SealInv' BY <1>1, <1>3 DEF SignedInv, SealInv
<1>5. s \in signed' BY <1>1
<1>6. Names(tip', s) BY <1>1 DEF Names, Tip
<1>7. tip'.kind = "tip" BY <1>1 DEF Tip
<1>8. issued' \subseteq {Tip(x.n, x.id, x.last, x.ts, "log", x.pq) : x \in signed'}
  <2>1. issued \subseteq {Tip(x.n, x.id, x.last, x.ts, "log", x.pq) : x \in signed} BY DEF SignedInv, TipFileInv
  <2>2. signed \subseteq signed' BY <1>1
  <2> HIDE DEF s
  <2>3. tip' \in {Tip(x.n, x.id, x.last, x.ts, "log", x.pq) : x \in signed'} BY <1>1, <1>5
  <2> QED BY <1>1, <2>1, <2>2, <2>3
<1>9. \E x \in signed' : Names(tip', x) BY <1>5, <1>6
<1>10. TipFileInv' BY <1>7, <1>8, <1>9 DEF TipFileInv, Names
<1> QED BY <1>4, <1>10

LEMMA SealTailSigned ==
  ASSUME SignedInv, NEW w \in Writers, SealTail(w)
  PROVE  SignedInv'
<1> DEFINE es == Entries(ledger)
           n == es[Len(es)].idx + 1
<1>1. /\ lock = w /\ es # << >> /\ lock' = "free"
      /\ WriteTip([n |-> n, id |-> FirstLineSelf, last |-> LastSelf(es)], Chain(ledger), "none")
      /\ ledger' = ledger /\ signer' = signer /\ reader' = reader
      /\ now' = now /\ data' = data /\ tampers' = tampers
  BY DEF SealTail
<1>2. FilesInv' /\ Files' = Files BY <1>1, UnchangedFiles DEF SignedInv, FilesInv
<1>3. lock # "free" BY <1>1, SignedLedgerConstants
<1>4. IsFile(ledger) BY DEF SignedInv, FilesInv
<1>5. n \in Nat /\ LastSelf(es) = LastOf(Chain(ledger))
  <2>1. /\ Len(es) \in Nat /\ Len(es) # 0 /\ LastSelf(es) = LastOf(Chain(ledger))
        /\ \A k \in 1..Len(es) : es[k].kind = "entry" /\ IsLine(es[k])
    BY <1>1, <1>4, ChainFacts
  <2>2. es[Len(es)].idx \in Nat
    <3>1. Len(es) \in 1..Len(es) BY <2>1
    <3> HIDE DEF es
    <3> QED BY <2>1, <3>1 DEF IsLine
  <2> QED BY <2>1, <2>2
<1>6. Chain(ledger) \in Files BY DEF Files
<1>7. Linked(Chain(ledger)) /\ Fresh(Chain(ledger), data) BY <1>6 DEF SignedInv, FilesInv
<1>8. Bounded(LastSelf(es), Len(Chain(ledger)), Files) BY <1>3, <1>5 DEF SignedInv, LockInv
<1>9. PICK t : t = [n |-> n, id |-> FirstLineSelf, last |-> LastSelf(es)] OBVIOUS
<1>10. t.n = n /\ t.last = LastSelf(es) BY <1>9
<1>11. WriteTip(t, Chain(ledger), "none") BY <1>1, <1>9
<1> HIDE DEF es, n
<1>12. PICK c : c = Chain(ledger) OBVIOUS
<1>13. SealInv' /\ TipFileInv'
  <2>1. WriteTip(t, c, "none") BY <1>11, <1>12
  <2>2. t.n \in Nat /\ t.last = LastOf(c) /\ Linked(c) /\ Fresh(c, data) BY <1>5, <1>7, <1>10, <1>12
  <2>3. Bounded(t.last, Len(c), Files) BY <1>8, <1>10, <1>12
  <2> QED BY <1>1, <1>2, <2>1, <2>2, <2>3, WriteTipStep
<1>14. SignerInv' BY <1>1 DEF SignedInv, SignerInv
<1>15. LockInv' BY <1>1 DEF LockInv
<1> QED BY <1>2, <1>13, <1>14, <1>15 DEF SignedInv

LEMMA ReadChainSigned ==
  ASSUME SignedInv, NEW x \in Signers, ReadChain(x)
  PROVE  SignedInv'
<1> DEFINE es == Entries(ledger)
<1>1. /\ signer' = [signer EXCEPT ![x] = [at |-> "read", n |-> Len(es), id |-> FirstSelf(es), last |-> LastSelf(es), chain |-> Chain(ledger)]]
      /\ ledger' = ledger /\ tip' = tip /\ lock' = lock /\ reader' = reader /\ now' = now /\ data' = data
      /\ tampers' = tampers /\ signed' = signed /\ issued' = issued
  BY DEF ReadChain
<1>2. FilesInv' /\ Files' = Files
  <2>1. now' \in Nat /\ tampers' \in Nat /\ DOMAIN signer' = Signers BY <1>1 DEF SignedInv, FilesInv
  <2> QED BY <1>1, <2>1, UnchangedFiles
<1>3. SealInv' /\ TipFileInv' BY <1>1, <1>2, UnchangedSeals
<1>4. LockInv'
  <2>1. Chain(ledger)' = Chain(ledger) BY <1>1
  <2> QED BY <1>1, <1>2, <2>1 DEF SignedInv, LockInv
<1>5. SignerInv'
  <2>1. IsFile(ledger) /\ DOMAIN signer = Signers BY DEF SignedInv, FilesInv
  <2>2. Len(es) = Len(Chain(ledger)) /\ LastSelf(es) = LastOf(Chain(ledger)) BY <2>1, ChainFacts
  <2>3. Chain(ledger) \in Files BY DEF Files
  <2>4. Linked(Chain(ledger)) /\ Fresh(Chain(ledger), data) BY <2>3 DEF SignedInv, FilesInv
  <2>5. signer'[x] = [at |-> "read", n |-> Len(es), id |-> FirstSelf(es), last |-> LastSelf(es), chain |-> Chain(ledger)]
    BY <1>1, <2>1
  <2>6. \A y \in Signers : y # x => signer'[y] = signer[y] BY <1>1, <2>1
  <2>7. PICK c : c = Chain(ledger) OBVIOUS
  <2>8. signer'[x].n = Len(c) /\ signer'[x].last = LastOf(c) /\ signer'[x].chain = c BY <2>2, <2>5, <2>7
  <2>9. Linked(c) /\ Fresh(c, data) BY <2>4, <2>7
  <2> HIDE DEF es
  <2> QED BY <1>1, <2>6, <2>8, <2>9 DEF SignedInv, SignerInv
<1> QED BY <1>2, <1>3, <1>4, <1>5 DEF SignedInv

LEMMA SignTipSigned ==
  ASSUME SignedInv, NEW x \in Signers, SignTip(x)
  PROVE  SignedInv'
<1>1. /\ signer[x].at = "read" /\ WriteTip(signer[x], signer[x].chain, "pq")
      /\ signer' = [signer EXCEPT ![x] = Idle]
      /\ ledger' = ledger /\ lock' = lock /\ reader' = reader /\ now' = now /\ data' = data /\ tampers' = tampers
  BY DEF SignTip
<1>2. DOMAIN signer' = Signers /\ DOMAIN signer = Signers BY <1>1 DEF SignedInv, FilesInv
<1>3. FilesInv' /\ Files' = Files
  <2>1. now' \in Nat /\ tampers' \in Nat BY <1>1 DEF SignedInv, FilesInv
  <2> QED BY <1>1, <1>2, <2>1, UnchangedFiles
<1>4. SealInv' /\ TipFileInv'
  <2>1. PICK t, c : t = signer[x] /\ c = t.chain OBVIOUS
  <2>2. t.n = Len(c) /\ t.last = LastOf(c) /\ Linked(c) /\ Fresh(c, data) BY <1>1, <2>1 DEF SignedInv, SignerInv
  <2>3. Len(c) \in Nat BY <2>2, LastHash
  <2>4. WriteTip(t, c, "pq") BY <1>1, <2>1
  <2> QED BY <1>1, <1>3, <2>2, <2>3, <2>4, WriteTipStep
<1>5. LockInv'
  <2>1. Chain(ledger)' = Chain(ledger) BY <1>1
  <2> QED BY <1>1, <1>3, <2>1 DEF SignedInv, LockInv
<1>6. SignerInv'
  <2>1. signer'[x].at # "read" /\ \A y \in Signers : y # x => signer'[y] = signer[y] BY <1>1, <1>2 DEF Idle
  <2> QED BY <1>1, <2>1 DEF SignedInv, SignerInv
<1> QED BY <1>3, <1>4, <1>5, <1>6 DEF SignedInv

\* An entry that names the last hash as the previous one, on top of a file.
LEMMA AppendEntry ==
  ASSUME NEW s, IsFile(s), NEW l, IsLine(l), l.kind = "entry",
         NEW FF, NEW F \in FF, Part(Chain(s), F), Linked(Chain(s)), NEW d, NEW e, d < e,
         l.self[3] = d, l.self[5] = LastSelf(Entries(s))
  PROVE  /\ IsFile(Append(s, l)) /\ Linked(Chain(Append(s, l)))
         /\ Derived(Chain(Append(s, l)), FF, d, e)
<1> DEFINE t == Append(s, l)
<1>1. PICK c, g : c = Chain(s) /\ g = Chain(t) OBVIOUS
<1>2. /\ IsFile(t) /\ Len(g) = Len(c) + 1
      /\ \A k \in 1..Len(c) : g[k] = c[k]
      /\ g[Len(c) + 1] = l.self
  BY <1>1, AppendFile
<1>3. /\ Len(c) \in Nat /\ LastSelf(Entries(s)) = LastOf(c) /\ (c = << >> <=> Len(c) = 0)
      /\ \A k \in 1..Len(c) : IsHash(c[k])
  BY <1>1, ChainFacts
<1>4. IsHash(l.self) BY DEF IsLine
<1>5. Linked(g)
  <2>1. ASSUME Len(c) > 0 PROVE IsHash(c[Len(c)]) /\ l.self[5] = c[Len(c)]
    <3>1. Len(c) \in 1..Len(c) BY <1>3, <2>1
    <3> QED BY <1>3, <3>1 DEF LastOf
  <2> QED BY <1>1, <1>2, <1>3, <1>4, <2>1, AppendLinked
<1>6. g \in Seq(Items(g)) BY <1>1, <1>2, ChainSeq
<1>7. Extends(g, c, d, e) BY <1>2, <1>3, <1>4 DEF Extends
<1>8. Derived(g, FF, d, e) BY <1>1, <1>3, <1>6, <1>7 DEF Derived
<1> QED BY <1>1, <1>2, <1>5, <1>8

\* Another ledger made of the files there are.
LEMMA NewLedger ==
  ASSUME SignedInv, reader' = reader, signer' = signer, signed' = signed, now' = now, tampers' \in Nat,
         data' \in Nat, data <= data', IsFile(ledger'), Linked(Chain(ledger')),
         Derived(Chain(ledger'), Files, data, data')
  PROVE  FilesInv' /\ SealInv' /\ SignerInv'
<1>1. Reading' = Reading BY DEF Reading
<1>2. Files' = {Chain(ledger')} \cup {Chain(reader[r].lines) : r \in Reading} BY <1>1 DEF Files
<1>3. \A G \in Files' : Derived(G, Files, data, data')
  <2>1. \A r \in Reading : Chain(reader[r].lines) \in Files BY DEF Files
  <2>2. \A F \in Files : Derived(F, Files, data, data') BY SameFile
  <2> QED BY <1>2, <2>1, <2>2
<1>4. /\ \A G \in Files' : Fresh(G, data')
      /\ \A s \in signed : Sealed(s, Files', data')
      /\ \A s \in Signers : signer[s].at = "read" => Fresh(signer[s].chain, data')
  BY <1>3, FilesStep
<1>5. FilesInv' BY <1>1, <1>4 DEF SignedInv, FilesInv
<1>6. SealInv' BY <1>4 DEF SealInv
<1>7. SignerInv' BY <1>4 DEF SignedInv, SignerInv
<1> QED BY <1>5, <1>6, <1>7

\* An entry whose hash is that of its fields.
IsEntry(l) == l = [kind |-> "entry", idx |-> l.idx, data |-> l.data, prev |-> l.prev, extra |-> l.extra, self |-> l.self]
LEMMA HashedLine ==
  ASSUME NEW algo, NEW l, IsEntry(l), l.idx \in Nat, l.data \in Nat, l.self = HashOf(algo, l)
  PROVE  IsLine(l) /\ l.kind = "entry" /\ l.self[3] = l.data /\ l.self[5] = l.prev
<1>1. PICK h : h = <<algo, l.idx, l.data, l.extra, l.prev>> OBVIOUS
<1>2. DOMAIN h = 1..5 /\ h[3] = l.data /\ h[5] = l.prev BY <1>1
<1>3. l.self = h BY <1>1, Zenon DEF HashOf
<1>4. l.kind = "entry" BY DEF IsEntry
<1>5. IsHash(h) BY <1>2 DEF IsHash
<1> QED BY <1>2, <1>3, <1>4, <1>5 DEF IsLine, IsEntry

\* The entry a writer appends.
LEMMA NewEntry ==
  ASSUME NEW algo, NEW i \in Nat, NEW d \in Nat, NEW p
  PROVE  \A e : e = Entry(algo, i, d, p) =>
             /\ IsEntry(e) /\ e.idx = i /\ e.data = d /\ e.prev = p /\ ~e.extra /\ e.self = HashOf(algo, e)
             /\ IsLine(e) /\ e.kind = "entry" /\ e.self[3] = d /\ e.self[5] = p
<1> SUFFICES ASSUME NEW e, e = Entry(algo, i, d, p)
             PROVE  /\ IsEntry(e) /\ e.idx = i /\ e.data = d /\ e.prev = p /\ ~e.extra /\ e.self = HashOf(algo, e)
                    /\ IsLine(e) /\ e.kind = "entry" /\ e.self[3] = d /\ e.self[5] = p
  OBVIOUS
<1>1. PICK v : v = FALSE OBVIOUS
<1>2. PICK r : r = [kind |-> "entry", idx |-> i, data |-> d, prev |-> p, extra |-> v, self |-> << >>] OBVIOUS
<1>3. e = [r EXCEPT !.self = HashOf(algo, r)] BY <1>1, <1>2, Zenon DEF Entry
<1>4. PICK h : h = HashOf(algo, r) OBVIOUS
<1>5. e = [kind |-> "entry", idx |-> i, data |-> d, prev |-> p, extra |-> v, self |-> h] BY <1>2, <1>3, <1>4
<1>6. e.kind = "entry" /\ e.idx = i /\ e.data = d /\ e.prev = p /\ e.extra = v /\ e.self = h BY <1>5
<1>7. r.idx = i /\ r.data = d /\ r.extra = v /\ r.prev = p BY <1>2
<1>8. HashOf(algo, e) = h BY <1>4, <1>6, <1>7, Zenon DEF HashOf
<1>9. IsEntry(e) BY <1>5, <1>6 DEF IsEntry
<1>10. IsLine(e) /\ e.kind = "entry" /\ e.self[3] = d /\ e.self[5] = p BY <1>6, <1>8, <1>9, HashedLine
<1> QED BY <1>1, <1>6, <1>8, <1>9, <1>10, Zenon

\* The same with a field outside the schema, hashed again.
Rehashed(algo, e, u) == LET x == [e EXCEPT !.extra = u] IN [x EXCEPT !.self = HashOf(algo, x)]
LEMMA RehashedEntry ==
  ASSUME NEW algo, NEW e, IsEntry(e), e.idx \in Nat, e.data \in Nat, NEW u
  PROVE  \A y : y = Rehashed(algo, e, u) =>
              IsLine(y) /\ y.kind = "entry" /\ y.self[3] = e.data /\ y.self[5] = e.prev
<1>1. PICK i, d, p, v, o : i = e.idx /\ d = e.data /\ p = e.prev /\ v = e.extra /\ o = e.self OBVIOUS
<1>2. e = [kind |-> "entry", idx |-> i, data |-> d, prev |-> p, extra |-> v, self |-> o] BY <1>1, Zenon DEF IsEntry
<1>3. PICK x : x = [e EXCEPT !.extra = u] OBVIOUS
<1>4. x = [kind |-> "entry", idx |-> i, data |-> d, prev |-> p, extra |-> u, self |-> o] BY <1>2, <1>3
<1>5. PICK h : h = HashOf(algo, x) OBVIOUS
<1>6. PICK y : y = [x EXCEPT !.self = h] OBVIOUS
<1>7. y = [kind |-> "entry", idx |-> i, data |-> d, prev |-> p, extra |-> u, self |-> h] BY <1>4, <1>6
<1>8. y.idx = i /\ y.data = d /\ y.prev = p /\ y.extra = u /\ y.self = h BY <1>7
<1>9. x.idx = i /\ x.data = d /\ x.prev = p /\ x.extra = u BY <1>4
<1>10. HashOf(algo, y) = h BY <1>5, <1>8, <1>9, Zenon DEF HashOf
<1>11. IsEntry(y) BY <1>7, <1>8 DEF IsEntry
<1>12. i \in Nat /\ d \in Nat BY <1>1
<1>13. IsLine(y) /\ y.kind = "entry" /\ y.self[3] = d /\ y.self[5] = p BY <1>8, <1>10, <1>11, <1>12, HashedLine
<1>14. y = Rehashed(algo, e, u) BY <1>3, <1>5, <1>6, Zenon DEF Rehashed
<1> QED BY <1>1, <1>13, <1>14

LEMMA AppendLineSigned ==
  ASSUME SignedInv, NEW w \in Writers, AppendLine(w)
  PROVE  SignedInv'
<1>1. /\ lock' = w /\ data' = data + 1
      /\ reader' = reader /\ signer' = signer /\ signed' = signed /\ issued' = issued /\ tip' = tip
      /\ now' = now /\ tampers' = tampers
  BY DEF AppendLine
<1>2. PICK a \in 1..2 : ledger' = Append(ledger, Entry(Algos[a], TailState.idx, data, TailState.prev))
  BY DEF AppendLine
<1>3. IsFile(ledger) /\ data \in Nat /\ tampers \in Nat /\ Linked(Chain(ledger))
  BY DEF SignedInv, FilesInv
<1>4. TailState.idx \in Nat /\ TailState.prev = LastSelf(Entries(ledger))
  <2>1. PICK es : es = Entries(ledger) OBVIOUS
  <2>2. /\ Len(es) \in Nat /\ (es = << >> <=> Len(es) = 0)
        /\ \A k \in 1..Len(es) : es[k].kind = "entry" /\ IsLine(es[k])
    BY <1>3, <2>1, ChainFacts
  <2>3. Len(es) > 0 => es[Len(es)].idx \in Nat
    <3>1. Len(es) > 0 => Len(es) \in 1..Len(es) BY <2>2
    <3> QED BY <2>2, <3>1 DEF IsLine
  <2>4. TailState = IF es = << >> THEN [idx |-> 0, prev |-> GENESIS] ELSE [idx |-> es[Len(es)].idx + 1, prev |-> LastSelf(es)]
    BY <2>1 DEF TailState
  <2> QED BY <2>1, <2>2, <2>3, <2>4 DEF LastSelf
<1>5. PICK l : l = Entry(Algos[a], TailState.idx, data, TailState.prev) OBVIOUS
<1>6. IsLine(l) /\ l.kind = "entry" /\ l.self[3] = data /\ l.self[5] = LastSelf(Entries(ledger))
  <2>1. PICK i, p : i = TailState.idx /\ p = TailState.prev OBVIOUS
  <2>2. l = Entry(Algos[a], i, data, p) /\ i \in Nat BY <1>4, <1>5, <2>1
  <2>3. PICK d, algo : d = data /\ algo = Algos[a] OBVIOUS
  <2>4. IsLine(l) /\ l.kind = "entry" /\ l.self[3] = d /\ l.self[5] = p
    <3>1. l = Entry(algo, i, d, p) /\ i \in Nat /\ d \in Nat BY <1>3, <2>2, <2>3
    <3>2. i \in Nat /\ d \in Nat BY <3>1
    <3>3. \A e : e = Entry(algo, i, d, p) => IsLine(e) /\ e.kind = "entry" /\ e.self[3] = d /\ e.self[5] = p
      BY <3>2, NewEntry
    <3> QED BY <3>1, <3>3
  <2> QED BY <1>4, <2>1, <2>3, <2>4
<1>7. ledger' = Append(ledger, l) BY <1>2, <1>5
<1>8. Chain(ledger) \in Files /\ Len(Chain(ledger)) \in Nat BY <1>3, ChainFacts DEF Files
<1>9. IsFile(ledger') /\ Linked(Chain(ledger')) /\ Derived(Chain(ledger'), Files, data, data')
  <2>1. Part(Chain(ledger), Chain(ledger)) BY <1>8, PartSame
  <2>2. data < data + 1 BY <1>3
  <2> QED BY <1>1, <1>3, <1>6, <1>7, <1>8, <2>1, <2>2, AppendEntry
<1>10. FilesInv' /\ SealInv' /\ SignerInv' BY <1>1, <1>3, <1>9, NewLedger
<1>11. TipFileInv' BY <1>1 DEF SignedInv, TipFileInv
<1>12. LockInv'
  <2>1. PICK c, g : c = Chain(ledger) /\ g = Chain(ledger') OBVIOUS
  <2>2. Len(g) = Len(c) + 1 /\ g[Len(c) + 1] = l.self /\ Len(c) \in Nat BY <1>3, <1>6, <1>7, <1>8, <2>1, AppendFile
  <2>3. Files' = {g} \cup {Chain(reader[r].lines) : r \in Reading} BY <1>1, <2>1 DEF Files, Reading
  <2>4. g # << >> /\ LastOf(g) = l.self BY <2>2 DEF LastOf
  <2>5. Bounded(l.self, Len(g), Files')
    <3> SUFFICES ASSUME NEW F \in Files', NEW k \in 1..Len(F), F[k] = l.self PROVE k <= Len(g)
      BY DEF Bounded
    <3>1. CASE F = g BY <2>2, <3>1
    <3>2. ASSUME NEW r \in Reading, F = Chain(reader[r].lines) PROVE FALSE
      <4>1. F \in Files BY <3>2 DEF Files
      <4>2. F[k][3] < data BY <4>1 DEF SignedInv, FilesInv, Fresh
      <4> QED BY <1>3, <1>6, <4>2
    <3> QED BY <2>3, <3>1, <3>2
  <2> QED BY <2>1, <2>4, <2>5 DEF LockInv
<1> QED BY <1>10, <1>11, <1>12 DEF SignedInv

\* Steps that touch nothing the invariant is about.
LEMMA OtherSigned ==
  ASSUME SignedInv, UNCHANGED <<ledger, tip, signer, reader, data, tampers, signed, issued>>,
         lock' \in {lock, "free"}, now' \in Nat
  PROVE  SignedInv'
<1>1. FilesInv' /\ Files' = Files BY UnchangedFiles DEF SignedInv, FilesInv
<1>2. SealInv' /\ TipFileInv' BY <1>1, UnchangedSeals
<1>3. SignerInv' BY DEF SignedInv, SignerInv
<1>4. LockInv'
  <2>1. Chain(ledger)' = Chain(ledger) OBVIOUS
  <2> QED BY <1>1, <2>1 DEF SignedInv, LockInv
<1> QED BY <1>1, <1>2, <1>3, <1>4 DEF SignedInv

\* Verifiers come and go.
LEMMA ReaderSigned ==
  ASSUME SignedInv, UNCHANGED <<ledger, tip, lock, signer, now, data, tampers, signed, issued>>,
         DOMAIN reader' = Readers, \A r \in Reading' : IsFile(reader'[r].lines), Files' \subseteq Files
  PROVE  SignedInv'
<1>1. data \in Nat /\ data' = data BY DEF SignedInv, FilesInv
<1>2. \A G \in Files' : Derived(G, Files, data, data') BY <1>1, SameFile
<1>3. /\ \A G \in Files' : Fresh(G, data')
      /\ \A s \in signed : Sealed(s, Files', data')
  BY <1>1, <1>2, FilesStep
<1>4. FilesInv' BY <1>3 DEF SignedInv, FilesInv
<1>5. SignerInv' BY DEF SignedInv, SignerInv
<1>6. SealInv' BY <1>3 DEF SealInv
<1>7. TipFileInv' BY DEF SignedInv, TipFileInv
<1>8. LockInv'
  <2>1. Chain(ledger)' = Chain(ledger) OBVIOUS
  <2>2. \A h, n : Bounded(h, n, Files) => Bounded(h, n, Files') BY DEF Bounded
  <2> QED BY <2>1, <2>2 DEF SignedInv, LockInv
<1> QED BY <1>4, <1>5, <1>6, <1>7, <1>8 DEF SignedInv

\* What a verifier reads has the chain of the ledger.
LEMMA LinesReadChain ==
  ASSUME IsFile(ledger)
  PROVE  IsFile(LinesRead) /\ Chain(LinesRead) = Chain(ledger) /\ Entries(LinesRead) = Entries(ledger)
<1>1. IsLine(Broken) /\ Broken.kind # "entry" BY DEF IsLine, Broken
<1>2. /\ IsFile(Append(ledger, Broken)) /\ Chain(Append(ledger, Broken)) = Chain(ledger)
      /\ Entries(Append(ledger, Broken)) = Entries(ledger)
  BY <1>1, AppendFile
<1> QED BY <1>2 DEF LinesRead

LEMMA ReadLedgerSigned ==
  ASSUME SignedInv, NEW r \in Readers, ReadLedger(r)
  PROVE  SignedInv'
<1>1. /\ UNCHANGED <<ledger, tip, lock, signer, now, data, tampers, signed, issued>>
      /\ reader' = [reader EXCEPT ![r] = [at |-> "read", lines |-> LinesRead]]
  BY DEF ReadLedger
<1>2. DOMAIN reader = Readers /\ IsFile(ledger) BY DEF SignedInv, FilesInv
<1>3. PICK l : l = LinesRead OBVIOUS
<1>4. /\ DOMAIN reader' = Readers /\ reader'[r].lines = l
      /\ \A q \in Readers : q # r => reader'[q] = reader[q]
  BY <1>1, <1>2, <1>3
<1>5. IsFile(l) /\ Chain(l) = Chain(ledger) BY <1>2, <1>3, LinesReadChain
<1>6. \A q \in Reading' : q = r \/ (q \in Reading /\ reader'[q] = reader[q]) BY <1>4 DEF Reading
<1>7. \A q \in Reading' : IsFile(reader'[q].lines) BY <1>4, <1>5, <1>6 DEF SignedInv, FilesInv
<1>8. Chain(ledger') = Chain(ledger) BY <1>1
<1>9. \A q \in Reading' : Chain(reader'[q].lines) \in Files BY <1>4, <1>5, <1>6 DEF Files
<1>10. Files' \subseteq Files BY <1>8, <1>9 DEF Files
<1> QED BY <1>1, <1>4, <1>7, <1>10, ReaderSigned

LEMMA VerifySigned ==
  ASSUME SignedInv, NEW r \in Readers, Verify(r)
  PROVE  SignedInv'
<1>1. /\ UNCHANGED <<ledger, tip, lock, signer, now, data, tampers, signed, issued>>
      /\ reader' = [reader EXCEPT ![r] = Idle]
  BY DEF Verify
<1>2. DOMAIN reader = Readers BY DEF SignedInv, FilesInv
<1>3. /\ DOMAIN reader' = Readers /\ reader'[r].at # "read"
      /\ \A q \in Readers : q # r => reader'[q] = reader[q]
  BY <1>1, <1>2 DEF Idle
<1>4. \A q \in Reading' : q \in Reading /\ reader'[q] = reader[q] BY <1>3 DEF Reading
<1>5. \A q \in Reading' : IsFile(reader'[q].lines) BY <1>4 DEF SignedInv, FilesInv
<1>6. Chain(ledger') = Chain(ledger) BY <1>1
<1>7. \A q \in Reading' : Chain(reader'[q].lines) \in Files BY <1>4 DEF Files
<1>8. Files' \subseteq Files BY <1>6, <1>7 DEF Files
<1> QED BY <1>1, <1>3, <1>5, <1>8, ReaderSigned

\* Files cut or edited hold parts of what was there.
LEMMA CutLedger ==
  ASSUME SignedInv, IsFile(ledger'), Part(Chain(ledger'), Chain(ledger)), data' = data,
         UNCHANGED <<lock, signer, reader, now, signed, issued>>, tampers' \in Nat, lock = "free", TipFileInv'
  PROVE  SignedInv'
<1>1. IsFile(ledger) /\ Linked(Chain(ledger)) /\ data \in Nat BY DEF SignedInv, FilesInv
<1>2. PICK c, g : c = Chain(ledger) /\ g = Chain(ledger') OBVIOUS
<1>3. Len(c) \in Nat /\ Len(g) \in Nat BY <1>1, <1>2, ChainFacts
<1>4. Linked(g) BY <1>1, <1>2, <1>3, PartLinked
<1>5. g \in Seq(Items(g)) BY <1>2, ChainSeq
<1>6. c \in Files BY <1>2 DEF Files
<1>7. Derived(g, Files, data, data') BY <1>2, <1>5, <1>6 DEF Derived
<1>8. FilesInv' /\ SealInv' /\ SignerInv' BY <1>1, <1>2, <1>4, <1>7, NewLedger
<1>9. LockInv' BY DEF LockInv
<1> QED BY <1>8, <1>9 DEF SignedInv

\* The tips somebody without a key can put in place.
LEMMA OldTip ==
  ASSUME SignedInv, NEW t \in issued, UNCHANGED <<signed, issued>>,
         tip' \in {t, [t EXCEPT !.wellformed = FALSE], [t EXCEPT !.pq = "none"], [t EXCEPT !.pq = "malformed"]}
  PROVE  TipFileInv'
<1>1. PICK s \in signed : t = Tip(s.n, s.id, s.last, s.ts, "log", s.pq) BY DEF SignedInv, TipFileInv
<1>2. PICK n, id, last, ts, pq : n = s.n /\ id = s.id /\ last = s.last /\ ts = s.ts /\ pq = s.pq OBVIOUS
<1>3. PICK u : u = TRUE OBVIOUS
<1>4. t = [kind |-> "tip", wellformed |-> u, entries |-> n, id |-> id, last |-> last, ts |-> ts, key |-> "log", pq |-> pq]
  BY <1>1, <1>2, <1>3, Zenon DEF Tip
<1>5. \A v : [t EXCEPT !.wellformed = v].kind = "tip"
          /\ [t EXCEPT !.wellformed = v].entries = n /\ [t EXCEPT !.wellformed = v].id = id
          /\ [t EXCEPT !.wellformed = v].last = last /\ [t EXCEPT !.wellformed = v].ts = ts
          /\ [t EXCEPT !.wellformed = v].pq = pq
  BY <1>4
<1>6. \A v : [t EXCEPT !.pq = v].kind = "tip"
          /\ [t EXCEPT !.pq = v].entries = n /\ [t EXCEPT !.pq = v].id = id
          /\ [t EXCEPT !.pq = v].last = last /\ [t EXCEPT !.pq = v].ts = ts
          /\ [t EXCEPT !.pq = v].pq = v
  BY <1>4
<1>7. t.kind = "tip" /\ t.entries = n /\ t.id = id /\ t.last = last /\ t.ts = ts /\ t.pq = pq BY <1>4
<1>8. /\ tip'.kind = "tip" /\ tip'.entries = n /\ tip'.id = id /\ tip'.last = last /\ tip'.ts = ts
      /\ tip'.pq \in {pq, "none", "malformed"}
  <2>1. CASE tip' = t BY <1>7, <2>1
  <2>2. ASSUME NEW v, tip' = [t EXCEPT !.wellformed = v]
        PROVE  /\ tip'.kind = "tip" /\ tip'.entries = n /\ tip'.id = id /\ tip'.last = last /\ tip'.ts = ts
               /\ tip'.pq = pq
    BY <1>5, <2>2, Zenon
  <2>3. ASSUME NEW v \in {"none", "malformed"}, tip' = [t EXCEPT !.pq = v]
        PROVE  /\ tip'.kind = "tip" /\ tip'.entries = n /\ tip'.id = id /\ tip'.last = last /\ tip'.ts = ts
               /\ tip'.pq = v
    BY <1>6, <2>3, Zenon
  <2>4. tip' = t \/ (\E v : tip' = [t EXCEPT !.wellformed = v]) \/ (\E v \in {"none", "malformed"} : tip' = [t EXCEPT !.pq = v])
    BY Zenon
  <2> QED BY <2>1, <2>2, <2>3, <2>4
<1>9. Names(tip', s) BY <1>2, <1>8 DEF Names
<1>10. s \in signed' OBVIOUS
<1>11. issued' \subseteq {Tip(x.n, x.id, x.last, x.ts, "log", x.pq) : x \in signed'} BY DEF SignedInv, TipFileInv
<1>12. \E x \in signed' : Names(tip', x) BY <1>9, <1>10
<1> QED BY <1>8, <1>11, <1>12 DEF TipFileInv, Names

LEMMA TruncateSigned ==
  ASSUME SignedInv, Truncate, UNCHANGED <<lock, signer, reader, now, signed, issued>>, tampers' \in Nat, lock = "free",
         TipFileInv'
  PROVE  SignedInv'
<1>1. PICK n \in 0..(Len(ledger) - 1) : ledger' = SubSeq(ledger, 1, n) BY DEF Truncate
<1>2. IsFile(ledger) /\ Len(ledger) \in Nat BY ChainFacts DEF SignedInv, FilesInv
<1>3. n \in 0..Len(ledger) BY <1>1, <1>2
<1>4. IsFile(ledger') /\ Part(Chain(ledger'), Chain(ledger)) BY <1>1, <1>2, <1>3, FirstLines
<1>5. data' = data BY DEF Truncate
<1> QED BY <1>4, <1>5, CutLedger

LEMMA RechainSigned ==
  ASSUME SignedInv, Rechain, UNCHANGED <<lock, signer, reader, now, signed, issued>>, tampers' \in Nat, lock = "free",
         TipFileInv'
  PROVE  SignedInv'
<1>1. PICK n \in 0..Len(ledger) :
        /\ \A i \in 1..n : ledger[i].kind = "entry"
        /\ LET kept == SubSeq(ledger, 1, n)
               e    == Entry(DetectAlgo(kept), n, data, LastSelf(kept))
               x    == [e EXCEPT !.extra = TRUE]
           IN  ledger' \in {Append(kept, e), Append(kept, [x EXCEPT !.self = HashOf(DetectAlgo(kept), x)])}
  BY DEF Rechain
<1>2. data' = data + 1 BY DEF Rechain
<1>3. IsFile(ledger) /\ Linked(Chain(ledger)) /\ data \in Nat /\ Len(ledger) \in Nat /\ Len(Chain(ledger)) \in Nat
  BY ChainFacts DEF SignedInv, FilesInv
<1>4. PICK kept : kept = SubSeq(ledger, 1, n) OBVIOUS
<1>5. /\ IsFile(kept) /\ Len(kept) = n /\ \A i \in 1..n : kept[i] = ledger[i]
      /\ Part(Chain(kept), Chain(ledger))
  BY <1>3, <1>4, FirstLines
<1>6. Entries(kept) = kept
  <2>1. \A i \in 1..Len(kept) : kept[i].kind = "entry" BY <1>1, <1>5
  <2> QED BY <1>5, <2>1, OnlyEntries
<1>7. PICK algo, p, d : algo = DetectAlgo(kept) /\ p = LastSelf(kept) /\ d = data OBVIOUS
<1>8. PICK e : e = Entry(algo, n, d, p) OBVIOUS
<1>9. PICK u : u = TRUE OBVIOUS
<1>10. PICK y : y = Rehashed(algo, e, u) OBVIOUS
<1>12. n \in Nat /\ d \in Nat BY <1>3, <1>7
<1>13. ledger' = Append(kept, e) \/ ledger' = Append(kept, y)
  BY <1>1, <1>4, <1>7, <1>8, <1>9, <1>10, Zenon DEF Rehashed
<1>14. /\ IsEntry(e) /\ e.idx = n /\ e.data = d /\ e.prev = p
       /\ IsLine(e) /\ e.kind = "entry" /\ e.self[3] = d /\ e.self[5] = p
  <2>1. \A z : z = Entry(algo, n, d, p) =>
          /\ IsEntry(z) /\ z.idx = n /\ z.data = d /\ z.prev = p
          /\ IsLine(z) /\ z.kind = "entry" /\ z.self[3] = d /\ z.self[5] = p
    BY <1>12, NewEntry
  <2> QED BY <1>8, <2>1
<1>15. IsLine(y) /\ y.kind = "entry" /\ y.self[3] = d /\ y.self[5] = p
  <2>1. e.idx \in Nat /\ e.data \in Nat BY <1>12, <1>14
  <2>2. IsLine(y) /\ y.kind = "entry" /\ y.self[3] = e.data /\ y.self[5] = e.prev BY <1>10, <1>14, <2>1, RehashedEntry
  <2> QED BY <1>14, <2>2
<1>16. PICK l : (l = e \/ l = y) /\ ledger' = Append(kept, l) BY <1>13
<1>17. IsLine(l) /\ l.kind = "entry" /\ l.self[3] = data /\ l.self[5] = LastSelf(Entries(kept))
  BY <1>6, <1>7, <1>14, <1>15, <1>16
<1>18. Linked(Chain(kept))
  <2>1. Len(Chain(kept)) \in Nat BY <1>5, ChainFacts
  <2> QED BY <1>3, <1>5, <2>1, PartLinked
<1>19. Chain(ledger) \in Files BY DEF Files
<1>20. data < data + 1 BY <1>3
<1>21. /\ IsFile(Append(kept, l)) /\ Linked(Chain(Append(kept, l)))
       /\ Derived(Chain(Append(kept, l)), Files, data, data + 1)
  BY <1>5, <1>17, <1>18, <1>19, <1>20, AppendEntry
<1>22. FilesInv' /\ SealInv' /\ SignerInv'
  <2>1. data' \in Nat /\ data <= data' BY <1>2, <1>3
  <2> QED BY <1>2, <1>16, <1>21, <2>1, NewLedger
<1>23. LockInv' BY DEF LockInv
<1> QED BY <1>22, <1>23 DEF SignedInv

LEMMA EditSigned ==
  ASSUME SignedInv, Edit, UNCHANGED <<lock, signer, reader, now, signed, issued>>, tampers' \in Nat, lock = "free",
         TipFileInv'
  PROVE  SignedInv'
<1>1. IsFile(ledger) BY DEF SignedInv, FilesInv
<1>2. PICK i \in 1..Len(ledger) :
       /\ ledger[i].kind = "entry"
       /\ \/ ledger' = [ledger EXCEPT ![i].data = -1]
          \/ ledger' = [ledger EXCEPT ![i].extra = TRUE]
          \/ ledger' = [ledger EXCEPT ![i].idx = @ + 1]
          \/ ledger' = [ledger EXCEPT ![i].prev = GENESIS]
          \/ ledger' = SubSeq(ledger, 1, i - 1) \o SubSeq(ledger, i + 1, Len(ledger))
          \/ \E l \in {Blank, Broken} : ledger' = SubSeq(ledger, 1, i) \o <<l>> \o SubSeq(ledger, i + 1, Len(ledger))
  BY DEF Edit
<1>3. IsFile(ledger') /\ Part(Chain(ledger'), Chain(ledger))
  <2>1. Len(ledger) \in Nat BY <1>1, ChainFacts
  <2>2. i \in 0..Len(ledger) /\ i - 1 \in 0..Len(ledger) /\ i \in i..Len(ledger) /\ i \in (i - 1)..Len(ledger)
    BY <1>2, <2>1
  <2>3. CASE \/ ledger' = [ledger EXCEPT ![i].data = -1] \/ ledger' = [ledger EXCEPT ![i].extra = TRUE]
             \/ ledger' = [ledger EXCEPT ![i].idx = @ + 1] \/ ledger' = [ledger EXCEPT ![i].prev = GENESIS]
    BY <1>1, <1>2, <2>3, EditedLine
  <2>4. CASE ledger' = SubSeq(ledger, 1, i - 1) \o SubSeq(ledger, i + 1, Len(ledger))
    <3>1. PICK j, b : j = i - 1 /\ b = SubSeq(ledger, i + 1, Len(ledger)) OBVIOUS
    <3>2. SubSeq(ledger, 1, j) \o << >> = SubSeq(ledger, 1, j)
      <4>1. SubSeq(ledger, 1, j) \in Seq(Items(SubSeq(ledger, 1, j))) BY <1>1, <2>2, <3>1, FirstLines DEF IsFile
      <4> QED BY <4>1, ConcatEmptySeq
    <3>3. ledger' = SubSeq(ledger, 1, j) \o << >> \o SubSeq(ledger, i + 1, Len(ledger)) BY <2>4, <3>1, <3>2
    <3>4. j \in 0..Len(ledger) /\ i \in j..Len(ledger) BY <2>2, <3>1
    <3> QED BY <1>1, <3>3, <3>4, OtherLine
  <2>5. ASSUME NEW l \in {Blank, Broken}, ledger' = SubSeq(ledger, 1, i) \o <<l>> \o SubSeq(ledger, i + 1, Len(ledger))
        PROVE  IsFile(ledger') /\ Part(Chain(ledger'), Chain(ledger))
    <3>1. <<l>> \in {<< >>, <<Blank>>, <<Broken>>} OBVIOUS
    <3> QED BY <1>1, <2>2, <2>5, <3>1, OtherLine
  <2> QED BY <1>2, <2>3, <2>4, <2>5
<1>4. data' = data BY DEF Edit
<1> QED BY <1>3, <1>4, CutLedger

LEMMA SameTip ==
  ASSUME SignedInv, UNCHANGED <<tip, signed, issued>>
  PROVE  TipFileInv'
BY DEF SignedInv, TipFileInv

LEMMA SwapTipSigned ==
  ASSUME SignedInv, SwapTip, UNCHANGED <<lock, signer, reader, now, signed, issued>>, tampers' \in Nat
  PROVE  SignedInv'
<1>1. /\ tip' \in issued \cup {NoTip, BadTip, Tip(Len(Entries(ledger)), FirstSelf(Entries(ledger)), LastSelf(Entries(ledger)), now, "own", "own")}
           \cup {[t EXCEPT !.wellformed = FALSE] : t \in issued} \cup {[t EXCEPT !.pq = "none"] : t \in issued}
           \cup {[t EXCEPT !.pq = "malformed"] : t \in issued}
      /\ ledger' = ledger /\ data' = data
  BY DEF SwapTip
<1>2. FilesInv' /\ Files' = Files
  <2>1. now' \in Nat /\ DOMAIN signer' = Signers BY DEF SignedInv, FilesInv
  <2> QED BY <1>1, <2>1, UnchangedFiles
<1>3. SealInv' BY <1>1, <1>2 DEF SignedInv, SealInv
<1>4. SignerInv' BY <1>1 DEF SignedInv, SignerInv
<1>5. LockInv'
  <2>1. Chain(ledger)' = Chain(ledger) BY <1>1
  <2> QED BY <1>2, <2>1 DEF SignedInv, LockInv
<1>6. TipFileInv'
  <2>1. CASE \E t \in issued : tip' \in {t, [t EXCEPT !.wellformed = FALSE], [t EXCEPT !.pq = "none"], [t EXCEPT !.pq = "malformed"]}
    BY <2>1, OldTip
  <2>2. CASE tip' \in {NoTip, BadTip}
    <3>1. tip'.kind \in {"none", "unreadable"} BY <2>2 DEF NoTip, BadTip
    <3> QED BY <3>1 DEF SignedInv, TipFileInv
  <2>3. ASSUME NEW n, NEW f, NEW l, NEW z, tip' = Tip(n, f, l, z, "own", "own") PROVE TipFileInv'
    <3>1. tip'.kind = "tip" /\ tip'.key = "own" BY <2>3 DEF Tip
    <3> QED BY <3>1 DEF SignedInv, TipFileInv
  <2> QED BY <1>1, <2>1, <2>2, <2>3, Zenon
<1> QED BY <1>2, <1>3, <1>4, <1>5, <1>6 DEF SignedInv

LEMMA TamperSigned ==
  ASSUME SignedInv, Tamper
  PROVE  SignedInv'
<1>1. /\ tampers' = tampers + 1 /\ lock = "free"
      /\ UNCHANGED <<lock, signer, reader, now, signed, issued>>
  BY DEF Tamper, Tampering
<1>2. tampers' \in Nat BY <1>1 DEF SignedInv, FilesInv
<1>3. CASE (Truncate \/ Rechain) /\ tip' \in issued \cup {tip}
  <2>1. TipFileInv'
    <3>1. CASE tip' \in issued BY <1>1, <3>1, OldTip
    <3>2. CASE tip' = tip BY <1>1, <3>2, SameTip
    <3> QED BY <1>3, <3>1, <3>2
  <2> QED BY <1>1, <1>2, <1>3, <2>1, TruncateSigned, RechainSigned
<1>4. CASE Edit /\ UNCHANGED tip
  <2>1. TipFileInv' BY <1>1, <1>4, SameTip
  <2> QED BY <1>1, <1>2, <1>4, <2>1, EditSigned
<1>5. CASE SwapTip BY <1>1, <1>2, <1>5, SwapTipSigned
<1> QED BY <1>3, <1>4, <1>5 DEF Tamper

LEMMA NextSigned == SignedInv /\ [Next]_vars => SignedInv'
<1> SUFFICES ASSUME SignedInv, [Next]_vars PROVE SignedInv'
  OBVIOUS
<1>0. now \in Nat BY DEF SignedInv, FilesInv
<1>1. ASSUME NEW w \in Writers, AppendLine(w) PROVE SignedInv' BY <1>1, AppendLineSigned
<1>2. ASSUME NEW w \in Writers, AppendFails(w) PROVE SignedInv' BY <1>0, <1>2, OtherSigned DEF AppendFails
<1>3. ASSUME NEW w \in Writers, SealTail(w) PROVE SignedInv' BY <1>3, SealTailSigned
<1>4. ASSUME NEW w \in Writers, SealFails(w) PROVE SignedInv' BY <1>0, <1>4, OtherSigned DEF SealFails
<1>5. ASSUME NEW x \in Signers, ReadChain(x) PROVE SignedInv' BY <1>5, ReadChainSigned
<1>6. ASSUME NEW x \in Signers, SignTip(x) PROVE SignedInv' BY <1>6, SignTipSigned
<1>7. ASSUME NEW r \in Readers, ReadLedger(r) PROVE SignedInv' BY <1>7, ReadLedgerSigned
<1>8. ASSUME NEW r \in Readers, Verify(r) PROVE SignedInv' BY <1>8, VerifySigned
<1>9. CASE Tamper BY <1>9, TamperSigned
<1>10. CASE Tick
  <2>1. now' \in Nat BY <1>0, <1>10 DEF Tick
  <2> QED BY <1>10, <2>1, OtherSigned DEF Tick
<1>11. CASE UNCHANGED vars BY <1>0, <1>11, OtherSigned DEF vars
<1> QED BY <1>1, <1>2, <1>3, <1>4, <1>5, <1>6, <1>7, <1>8, <1>9, <1>10, <1>11 DEF Next

\* What the log key signed, in every reachable state.
THEOREM LedgersSigned == Spec => []SignedInv
<1>1. Init => SignedInv BY InitSigned
<1>2. SignedInv /\ [Next]_vars => SignedInv' BY NextSigned
<1> QED BY <1>1, <1>2, PTL DEF Spec

-----------------------------------------------------------------------------
(* What passes was signed *)

\* A file without errors has a chain.
LEMMA NoChainErrors ==
  ASSUME NEW s, IsFile(s), ChainErrors(s) = {}
  PROVE  IsChain(Chain(s)) /\ Len(Chain(s)) > 0
<1>1. PICK es, L, algo : es = Entries(s) /\ L = Chain(s) /\ algo = DetectAlgo(es) OBVIOUS
<1>2. /\ Len(es) \in Nat /\ Len(L) = Len(es) /\ (es = << >> <=> Len(es) = 0)
      /\ \A k \in 1..Len(es) : L[k] = es[k].self /\ IsHash(L[k])
  BY <1>1, ChainFacts
<1>3. /\ \A i \in 1..Len(es) : /\ es[i].self = HashOf(algo, es[i])
                               /\ es[i].prev = (IF i = 1 THEN GENESIS ELSE es[i - 1].self)
                               /\ es[i].idx = i - 1
      /\ es # << >>
  BY <1>1 DEF ChainErrors
<1>4. \A i \in 1..Len(es) : L[i][2] = i - 1 /\ L[i][5] = IF i = 1 THEN GENESIS ELSE L[i - 1]
  <2> TAKE i \in 1..Len(es)
  <2>1. L[i] = <<algo, es[i].idx, es[i].data, es[i].extra, es[i].prev>> BY <1>2, <1>3, Zenon DEF HashOf
  <2>2. L[i][2] = es[i].idx /\ L[i][5] = es[i].prev BY <2>1
  <2>3. i # 1 => i - 1 \in 1..Len(es) BY <1>2
  <2> QED BY <1>2, <1>3, <2>2, <2>3
<1> QED BY <1>1, <1>2, <1>3, <1>4 DEF IsChain

\* A verification has a trusted key, a trusted post-quantum key, a tip is required.
HasKey(o)   == o.key # ""
HasPqKey(o) == o.pq # ""
NeedsTip(o) == o.require \/ o.pq # ""

\* A tip without error was signed by the log key for what is asked of it.
LEMMA TipAccepted ==
  ASSUME NEW n, NEW f, NEW l, NEW t, NEW o \in Opts, HasKey(o), CheckTip(n, f, l, t, o) = "ok"
  PROVE  /\ t.key = "log" /\ t.pq # "malformed"
         /\ HasPqKey(o) => t.pq = o.pq /\ t.pq # "none"
         /\ o.expect # GENESIS => t.id = o.expect
         /\ o.notBefore = -1 \/ ~ (t.ts < o.notBefore)
         /\ ~ (n < t.entries) /\ ~ (n > t.entries) /\ l = t.last
<1>1. TipSignature(t, o) = "ok" BY Zenon DEF CheckTip
<1>2. t.key = o.key /\ o.key # "bad" /\ t.pq # "malformed" /\ (HasPqKey(o) => t.pq # "none" /\ t.pq = o.pq)
  BY <1>1, Zenon DEF TipSignature, HasPqKey
<1>3. o.key = "log"
  <2>1. o.key = "" \/ o.key = "log" \/ o.key = "bad" BY SignedLedgerConstants, Zenon
  <2> QED BY <1>2, <2>1, Zenon DEF HasKey
<1>4. /\ o.expect # GENESIS => t.id = o.expect
      /\ o.notBefore = -1 \/ ~ (t.ts < o.notBefore)
      /\ ~ (n < t.entries) /\ ~ (n > t.entries) /\ l = t.last
  BY <1>1 DEF CheckTip
<1> QED BY <1>2, <1>3, <1>4

\* A ledger without errors, where a tip is required, has a tip without error.
Passes(s, t, o) == t.kind \in {"none", "unreadable", "tip"} /\ NeedsTip(o) /\ VerifyLedger(s, t, o) = {}
TipPasses(s, t, o) ==
  /\ ChainErrors(s) = {} /\ t.kind = "tip" /\ HasKey(o)
  /\ CheckTip(Len(Entries(s)), FirstSelf(Entries(s)), LastSelf(Entries(s)), t, o) = "ok"
LEMMA LedgerAccepted ==
  ASSUME NEW s, NEW t, NEW o, Passes(s, t, o)
  PROVE  TipPasses(s, t, o)
<1> DEFINE check == CheckTip(Len(Entries(s)), FirstSelf(Entries(s)), LastSelf(Entries(s)), t, o)
           checked == IF t.kind = "none" THEN (IF NeedsTip(o) THEN "tip_missing" ELSE "ok")
                      ELSE IF ~HasKey(o) THEN (IF NeedsTip(o) THEN "tip_untrusted" ELSE "ok")
                      ELSE IF t.kind = "unreadable" THEN "tip_unreadable" ELSE check
<1>1. ChainErrors(s) = {} /\ TipErrors(s, t, o) = {} BY DEF Passes, VerifyLedger
<1> HIDE DEF check
<1>2. {checked} \ {"ok"} = {} BY <1>1, Zenon DEF TipErrors, NeedsTip, HasKey, check
<1>3. checked = "ok" BY <1>2
<1>4. t.kind = "tip" /\ HasKey(o) /\ check = "ok" BY <1>3 DEF Passes
<1> QED BY <1>1, <1>4 DEF check, TipPasses

LEMMA AcceptedChain ==
  ASSUME SignedInv, NEW r \in Reading, NEW o \in Opts, NEW lines, lines = reader[r].lines,
         ChainErrors(lines) = {}, tip.kind = "tip", HasKey(o),
         CheckTip(Len(Entries(lines)), FirstSelf(Entries(lines)), LastSelf(Entries(lines)), tip, o) = "ok"
  PROVE  \E s \in signed :
           /\ s.chain = Chain(lines)
           /\ s.ts >= o.notBefore
           /\ HasPqKey(o) => s.pq = o.pq
           /\ o.expect # GENESIS => s.id = o.expect
<1>1. PICK n, L : n = Len(Entries(lines)) /\ L = Chain(lines) OBVIOUS
<1>2. IsFile(lines) /\ L \in Files /\ Fresh(L, data)
  <2>1. L \in Files BY <1>1 DEF Files
  <2> QED BY <1>1, <2>1 DEF SignedInv, FilesInv
<1>5. PICK f, l : f = FirstSelf(Entries(lines)) /\ l = LastSelf(Entries(lines)) OBVIOUS
<1>6. CheckTip(n, f, l, tip, o) = "ok"
  BY <1>1, <1>5
<1>7. /\ tip.key = "log" /\ tip.pq # "malformed"
      /\ HasPqKey(o) => tip.pq = o.pq /\ tip.pq # "none"
      /\ o.expect # GENESIS => tip.id = o.expect
      /\ o.notBefore = -1 \/ ~ (tip.ts < o.notBefore)
      /\ ~ (n < tip.entries) /\ ~ (n > tip.entries) /\ l = tip.last
  BY <1>6, TipAccepted
<1>8. IsChain(L) /\ Len(L) > 0 BY <1>1, <1>2, NoChainErrors
<1>9. n \in Nat /\ Len(L) = n /\ l = LastOf(L) BY <1>1, <1>2, <1>5, ChainFacts
<1>10. PICK s \in signed : Names(tip, s) BY <1>7 DEF SignedInv, TipFileInv
<1>11. Sealed(s, Files, data) BY DEF SignedInv, SealInv
<1>12. PICK c : c = s.chain OBVIOUS
<1>13. Linked(c) /\ Fresh(c, data) /\ s.last = LastOf(c) /\ s.ts \in Nat /\ s.n \in Nat /\ (s.n = Len(c) \/ Bounded(s.last, Len(c), Files))
  BY <1>11, <1>12 DEF Sealed
<1>14. s.last = LastOf(L) /\ s.n = n
  <2>1. s.n = tip.entries /\ s.last = tip.last BY <1>10 DEF Names
  <2>2. s.n = n BY <1>7, <1>9, <1>13, <2>1
  <2> QED BY <1>7, <1>9, <2>1, <2>2
<1>15. LastOf(L) = L[n] /\ LastOf(L) # GENESIS /\ n > 0 BY <1>2, <1>8, <1>9, LastHash
<1>16. Len(c) \in Nat /\ Len(c) > 0 /\ LastOf(c) = c[Len(c)]
  <2>1. Len(c) \in Nat /\ Len(c) # 0 BY <1>13, <1>14, <1>15, LastHash
  <2>2. Len(c) > 0 BY <2>1
  <2> QED BY <1>13, <2>1, <2>2, LastHash
<1>17. n <= Len(c)
  <2>1. CASE s.n = Len(c) BY <1>9, <1>14, <2>1
  <2>2. CASE Bounded(s.last, Len(c), Files)
    <3>1. n \in 1..Len(L) BY <1>9, <1>15
    <3> QED BY <1>2, <1>14, <1>15, <2>2, <3>1 DEF Bounded
  <2> QED BY <1>13, <2>1, <2>2
<1>18. Len(c) = n /\ \A k \in 1..n : c[k] = L[k]
  <2>1. PICK m : m = Len(c) OBVIOUS
  <2>2. m \in Nat \ {0} /\ L[Len(L)] = c[m] /\ Len(L) <= m /\ Len(L) > 0
    <3>1. m \in Nat /\ m # 0 BY <1>16, <2>1
    <3>2. L[Len(L)] = c[m] BY <1>9, <1>13, <1>14, <1>15, <1>16, <2>1
    <3>3. Len(L) <= m BY <1>9, <1>17, <2>1
    <3> QED BY <1>8, <3>1, <3>2, <3>3
  <2>3. Len(L) = m /\ \A k \in 1..m : c[k] = L[k] BY <1>8, <1>13, <2>1, <2>2, SameChain
  <2> QED BY <1>9, <2>1, <2>3
<1>19. c = L
  <2>1. c = [k \in 1..Len(c) |-> c[k]] /\ L = [k \in 1..Len(L) |-> L[k]] BY <1>2, <1>13, LenProperties DEF Fresh
  <2> QED BY <1>9, <1>18, <2>1
<1>20. s.ts >= o.notBefore
  <2>1. o.notBefore \in Int BY SignedLedgerConstants, Zenon
  <2>2. tip.ts = s.ts BY <1>10 DEF Names
  <2> QED BY <1>7, <1>13, <2>1, <2>2
<1>21. HasPqKey(o) => s.pq = o.pq BY <1>7, <1>10 DEF Names
<1>22. o.expect # GENESIS => s.id = o.expect BY <1>7, <1>10 DEF Names
<1> QED BY <1>1, <1>12, <1>19, <1>20, <1>21, <1>22

LEMMA SignedAccepted == SignedInv => AcceptedWasSigned
<1> SUFFICES ASSUME SignedInv, NEW r \in Readers, NEW o \in Opts,
                    reader[r].at = "read", NeedsTip(o), Errors(r, o) = {}
             PROVE  \E s \in signed :
                      /\ s.chain = Chain(reader[r].lines)
                      /\ s.ts >= o.notBefore
                      /\ HasPqKey(o) => s.pq = o.pq
                      /\ o.expect # GENESIS => s.id = o.expect
  BY Zenon DEF AcceptedWasSigned, NeedsTip, HasPqKey
<1>1. PICK lines : lines = reader[r].lines OBVIOUS
<1>2. r \in Reading BY DEF Reading
<1>3. tip.kind \in {"none", "unreadable", "tip"} BY DEF SignedInv, TipFileInv
<1>4. VerifyLedger(lines, tip, o) = {} BY <1>1 DEF Errors
<1>5. /\ ChainErrors(lines) = {} /\ tip.kind = "tip" /\ HasKey(o)
      /\ CheckTip(Len(Entries(lines)), FirstSelf(Entries(lines)), LastSelf(Entries(lines)), tip, o) = "ok"
  <2>1. Passes(lines, tip, o) BY <1>3, <1>4 DEF Passes
  <2> QED BY <2>1, LedgerAccepted DEF TipPasses
<1> QED BY <1>1, <1>2, <1>5, AcceptedChain

\* With a required tip, PASS means that the log key signed just these entries.
THEOREM AcceptedSigned == Spec => []AcceptedWasSigned
BY LedgersSigned, SignedAccepted, PTL

-----------------------------------------------------------------------------
(* What nobody tampered with *)

\* A ledger as writers leave it.
Honest(s) == \A i \in 1..Len(s) :
  /\ s[i].kind = "entry" /\ s[i].idx = i - 1 /\ ~s[i].extra
  /\ s[i].prev = IF i = 1 THEN GENESIS ELSE s[i - 1].self
  /\ s[i].self = HashOf(DetectAlgo(s), s[i])

\* The first n lines of ledger l, and perhaps the torn one behind the last.
Starts(s, n, l) == n \in 0..Len(l) /\ \A i \in 1..n : s[i] = l[i]
Seen(s, n, l, more) ==
  /\ Starts(s, n, l)
  /\ Len(s) = n \/ (more /\ n = Len(l) /\ Len(s) = n + 1 /\ s[n + 1] = Broken)

\* t names the first n entries of ledger l.
Covers(t, n, l) ==
  /\ n \in 0..Len(l)
  /\ t.id = IF n = 0 THEN GENESIS ELSE l[1].self
  /\ t.last = IF n = 0 THEN GENESIS ELSE l[n].self

(* Without tampering the ledger only grows: what a verifier or sign_tip    *)
(* has read, and what the tip names, are its first entries.                *)
HonestInv == Untampered =>
  /\ Honest(ledger)
  /\ \A r \in Reading : \E n \in Nat : Seen(reader[r].lines, n, ledger, torn)
  /\ \A s \in Signers : signer[s].at = "read" => Covers(signer[s], signer[s].n, ledger)
  /\ tip.kind \in {"none", "tip"}
  /\ tip.kind = "tip" => tip.wellformed /\ tip.key = "log" /\ tip.pq \in {"none", "pq"} /\ Covers(tip, tip.entries, ledger)

LEMMA InitHonest == Init => HonestInv
<1> SUFFICES ASSUME Init PROVE HonestInv
  OBVIOUS
<1>1. ledger = << >> /\ tip = NoTip BY DEF Init
<1>2. Reading = {} BY DEF Init, Reading, Idle
<1>3. \A s \in Signers : signer[s].at # "read" BY DEF Init, Idle
<1>4. Honest(ledger) BY <1>1 DEF Honest
<1>5. tip.kind = "none" BY <1>1 DEF NoTip
<1> QED BY <1>2, <1>3, <1>4, <1>5 DEF HonestInv

\* The entries of an honest ledger are its lines.
LEMMA HonestEntries ==
  ASSUME NEW s, IsFile(s), Honest(s)
  PROVE  Entries(s) = s /\ Len(s) \in Nat /\ (s = << >> <=> Len(s) = 0)
<1>1. Entries(s) = s BY OnlyEntries DEF Honest
<1>2. Len(s) \in Nat /\ (s = << >> <=> Len(s) = 0) BY LenProperties, EmptySeq DEF IsFile
<1> QED BY <1>1, <1>2

\* The algorithm is that of the first entry.
LEMMA SameAlgo ==
  ASSUME NEW s, NEW t, s # << >>, t # << >>, s[1] = t[1]
  PROVE  DetectAlgo(s) = DetectAlgo(t)
BY DEF DetectAlgo

\* The first lines of an honest ledger are one.
LEMMA HonestStart ==
  ASSUME NEW s, IsFile(s), Honest(s), NEW t, IsFile(t), Len(t) <= Len(s), \A i \in 1..Len(t) : t[i] = s[i]
  PROVE  Honest(t)
<1> SUFFICES ASSUME NEW i \in 1..Len(t)
             PROVE  /\ t[i].kind = "entry" /\ t[i].idx = i - 1 /\ ~t[i].extra
                    /\ t[i].prev = IF i = 1 THEN GENESIS ELSE t[i - 1].self
                    /\ t[i].self = HashOf(DetectAlgo(t), t[i])
  BY DEF Honest
<1>1. /\ Len(s) \in Nat /\ Len(t) \in Nat /\ (s = << >> <=> Len(s) = 0) /\ (t = << >> <=> Len(t) = 0)
  BY LenProperties, EmptySeq DEF IsFile
<1>2. i \in 1..Len(s) /\ 1 \in 1..Len(t) /\ s # << >> /\ t # << >> BY <1>1
<1>3. DetectAlgo(t) = DetectAlgo(s) BY <1>2, SameAlgo
<1>4. i # 1 => i - 1 \in 1..Len(t) BY <1>1
<1> QED BY <1>2, <1>3, <1>4 DEF Honest

\* A writer appends the next entry, with the algorithm of the log.
LEMMA HonestAppend ==
  ASSUME NEW s, IsFile(s), Honest(s), NEW a \in 1..2, NEW e, IsLine(e), e.kind = "entry", e.idx = Len(s), ~e.extra,
         e.prev = LastSelf(s), e.self = HashOf(Algos[a], e), s # << >> => Algos[a] = DetectAlgo(s)
  PROVE  Honest(Append(s, e))
<1>1. PICK t, algo : t = Append(s, e) /\ algo = Algos[a] OBVIOUS
<1>2. /\ IsFile(t) /\ Len(t) = Len(s) + 1
      /\ \A i \in 1..Len(s) : t[i] = s[i]
      /\ t[Len(s) + 1] = e
  BY <1>1, AppendFile
<1>3. /\ Len(s) \in Nat /\ (s = << >> <=> Len(s) = 0) /\ (t = << >> <=> Len(t) = 0)
  BY <1>2, LenProperties, EmptySeq DEF IsFile
<1>4. DetectAlgo(t) = algo
  <2>1. CASE s = << >>
    <3>1. t # << >> /\ t[1] = e BY <1>2, <1>3, <2>1
    <3>2. CASE a = 2 BY <1>1, <3>1, <3>2 DEF DetectAlgo
    <3>3. CASE a = 1
      <4>1. Algos[1] = "sha256" /\ Algos[2] = "sha3_256" BY DEF Algos
      <4>2. \A x : HashOf(x, e)[1] = x BY DEF HashOf
      <4>3. HashOf(Algos[1], e) # HashOf(Algos[2], e) BY <4>1, <4>2
      <4> QED BY <1>1, <3>1, <3>3, <4>3 DEF DetectAlgo
    <3> QED BY <3>2, <3>3
  <2>2. CASE s # << >>
    <3>1. t # << >> /\ t[1] = s[1] BY <1>2, <1>3, <2>2
    <3> QED BY <1>1, <2>2, <3>1, SameAlgo
  <2> QED BY <2>1, <2>2
<1>5. ASSUME NEW i \in 1..Len(t)
      PROVE  /\ t[i].kind = "entry" /\ t[i].idx = i - 1 /\ ~t[i].extra
             /\ t[i].prev = IF i = 1 THEN GENESIS ELSE t[i - 1].self
             /\ t[i].self = HashOf(algo, t[i])
  <2>1. CASE i \in 1..Len(s)
    <3>1. s # << >> /\ algo = DetectAlgo(s) BY <1>1, <1>3, <2>1
    <3>2. i # 1 => i - 1 \in 1..Len(s) BY <1>3, <2>1
    <3> QED BY <1>2, <2>1, <3>1, <3>2 DEF Honest
  <2>2. CASE i = Len(s) + 1
    <3>1. t[i] = e /\ i - 1 = Len(s) BY <1>2, <1>3, <2>2
    <3>2. i = 1 => e.prev = GENESIS BY <1>3, <3>1 DEF LastSelf
    <3>3. i # 1 => e.prev = t[i - 1].self
      <4>1. i # 1 => s # << >> /\ Len(s) \in 1..Len(s) BY <1>3, <3>1
      <4> QED BY <1>2, <3>1, <4>1 DEF LastSelf
    <3> QED BY <1>1, <3>1, <3>2, <3>3
  <2> QED BY <1>2, <1>3, <2>1, <2>2
<1> QED BY <1>1, <1>4, <1>5 DEF Honest

\* What was read stays where it is while the ledger is left alone or grows.
LEMMA Grows ==
  ASSUME NEW l, NEW m, NEW more, NEW more2, Len(l) \in Nat, Len(m) \in Nat, Len(l) <= Len(m),
         \A i \in 1..Len(l) : m[i] = l[i], ~more \/ (more2 = more /\ Len(m) = Len(l))
  PROVE  /\ \A s, n : Seen(s, n, l, more) => Seen(s, n, m, more2)
         /\ \A t, n : Covers(t, n, l) => Covers(t, n, m)
<1>1. ASSUME NEW s, NEW n, Seen(s, n, l, more) PROVE Seen(s, n, m, more2) BY <1>1 DEF Seen, Starts
<1>2. ASSUME NEW t, NEW n, Covers(t, n, l) PROVE Covers(t, n, m)
  <2>1. n \in 0..Len(l) /\ n \in 0..Len(m) BY <1>2 DEF Covers
  <2>2. n # 0 => 1 \in 1..Len(l) /\ n \in 1..Len(l) BY <2>1
  <2> QED BY <1>2, <2>1, <2>2 DEF Covers
<1> QED BY <1>1, <1>2

LEMMA OtherHonest ==
  ASSUME SignedInv, HonestInv, UNCHANGED <<ledger, tip, signer, reader, tampers>>, ~torn \/ torn' = torn
  PROVE  HonestInv'
<1> SUFFICES ASSUME Untampered' PROVE HonestInv'
  BY DEF HonestInv
<1>1. Untampered BY DEF Untampered
<1>2. IsFile(ledger) BY DEF SignedInv, FilesInv
<1>3. Len(ledger) \in Nat BY <1>2, ChainFacts
<1>4. Reading' = Reading BY DEF Reading
<1>5. \A s, n : Seen(s, n, ledger, torn) => Seen(s, n, ledger, torn')
  <2>1. PICK l, b, c : l = ledger /\ b = torn /\ c = torn' OBVIOUS
  <2>2. \A s, n : Seen(s, n, l, b) => Seen(s, n, l, c)
    <3>1. Len(l) \in Nat /\ Len(l) <= Len(l) /\ (~b \/ c = b) BY <1>3, <2>1
    <3> QED BY <3>1, Grows
  <2> QED BY <2>1, <2>2
<1>6. \A r \in Reading' : \E n \in Nat : Seen(reader'[r].lines, n, ledger', torn') BY <1>1, <1>4, <1>5 DEF HonestInv
<1> QED BY <1>1, <1>6 DEF HonestInv

LEMMA AppendLineHonest ==
  ASSUME SignedInv, HonestInv, NEW w \in Writers, AppendLine(w)
  PROVE  HonestInv'
<1> SUFFICES ASSUME Untampered' PROVE HonestInv'
  BY DEF HonestInv
<1>1. UNCHANGED <<torn, tip, signer, reader, tampers>> /\ TailReadable BY DEF AppendLine
<1>2. Untampered BY <1>1 DEF Untampered
<1>3. IsFile(ledger) /\ Honest(ledger) /\ data \in Nat BY <1>2 DEF SignedInv, FilesInv, HonestInv
<1>4. Entries(ledger) = ledger /\ Len(ledger) \in Nat /\ (ledger = << >> <=> Len(ledger) = 0) BY <1>3, HonestEntries
<1>5. PICK a \in 1..2 :
        /\ ledger # << >> => Algos[a] = DetectAlgo(ledger)
        /\ ledger' = Append(ledger, Entry(Algos[a], TailState.idx, data, TailState.prev))
  BY <1>4 DEF AppendLine
<1>6. TailState.idx = Len(ledger) /\ TailState.prev = LastSelf(ledger)
  <2>1. TailState = IF ledger = << >> THEN [idx |-> 0, prev |-> GENESIS] ELSE [idx |-> ledger[Len(ledger)].idx + 1, prev |-> LastSelf(ledger)]
    BY <1>4 DEF TailState
  <2>2. ledger # << >> => ledger[Len(ledger)].idx = Len(ledger) - 1
    <3>1. ledger # << >> => Len(ledger) \in 1..Len(ledger) BY <1>4
    <3> QED BY <1>3, <3>1 DEF Honest
  <2> QED BY <1>4, <2>1, <2>2 DEF LastSelf
<1>7. PICK i, d, p, algo : i = Len(ledger) /\ d = data /\ p = LastSelf(ledger) /\ algo = Algos[a] OBVIOUS
<1>8. PICK e : e = Entry(algo, i, d, p) OBVIOUS
<1>9. /\ e.idx = i /\ e.prev = p /\ ~e.extra /\ e.self = HashOf(algo, e) /\ IsLine(e) /\ e.kind = "entry"
  <2>1. i \in Nat /\ d \in Nat BY <1>3, <1>4, <1>7
  <2>2. \A z : z = Entry(algo, i, d, p) =>
          /\ IsEntry(z) /\ z.idx = i /\ z.data = d /\ z.prev = p /\ ~z.extra /\ z.self = HashOf(algo, z)
          /\ IsLine(z) /\ z.kind = "entry" /\ z.self[3] = d /\ z.self[5] = p
    BY <2>1, NewEntry
  <2> QED BY <1>8, <2>2
<1>10. PICK l : l = ledger OBVIOUS
<1>11. ledger' = Append(l, e) BY <1>5, <1>6, <1>7, <1>8, <1>10
<1>12. Honest(Append(l, e))
  <2>1. IsFile(l) /\ Honest(l) /\ e.idx = Len(l) /\ e.prev = LastSelf(l) /\ e.self = HashOf(Algos[a], e)
    BY <1>3, <1>7, <1>9, <1>10
  <2>2. l # << >> => Algos[a] = DetectAlgo(l) BY <1>5, <1>10
  <2> QED BY <1>9, <2>1, <2>2, HonestAppend
<1>13. Len(Append(l, e)) = Len(l) + 1 /\ \A k \in 1..Len(l) : Append(l, e)[k] = l[k]
  BY <1>3, <1>9, <1>10, AppendFile
<1>14. ~torn BY <1>1 DEF TailReadable
<1>15. PICK m, b, c : m = ledger' /\ b = torn /\ c = torn' OBVIOUS
<1>16. /\ \A s, n : Seen(s, n, l, b) => Seen(s, n, m, c)
       /\ \A t, n : Covers(t, n, l) => Covers(t, n, m)
  <2>1. /\ Len(l) \in Nat /\ Len(m) \in Nat /\ Len(l) <= Len(m) /\ ~b
        /\ \A k \in 1..Len(l) : m[k] = l[k]
    BY <1>4, <1>10, <1>11, <1>13, <1>14, <1>15
  <2> QED BY <2>1, Grows
<1>17. Reading' = Reading BY <1>1 DEF Reading
<1>18. \A r \in Reading' : \E n \in Nat : Seen(reader'[r].lines, n, ledger', torn')
  BY <1>1, <1>2, <1>10, <1>15, <1>16, <1>17 DEF HonestInv
<1>19. \A s \in Signers : signer'[s].at = "read" => Covers(signer'[s], signer'[s].n, ledger')
  BY <1>1, <1>2, <1>10, <1>15, <1>16 DEF HonestInv
<1>20. /\ tip'.kind \in {"none", "tip"}
       /\ tip'.kind = "tip" => tip'.wellformed /\ tip'.key = "log" /\ tip'.pq \in {"none", "pq"} /\ Covers(tip', tip'.entries, ledger')
  BY <1>1, <1>2, <1>10, <1>15, <1>16 DEF HonestInv
<1>21. Honest(ledger') BY <1>11, <1>12
<1> QED BY <1>18, <1>19, <1>20, <1>21 DEF HonestInv

\* A tip for the first entries of the ledger.
LEMMA WriteTipHonest ==
  ASSUME SignedInv, HonestInv, UNCHANGED <<ledger, torn, reader, tampers>>,
         NEW t, NEW chain, NEW pq \in {"none", "pq"}, WriteTip(t, chain, pq), Untampered => Covers(t, t.n, ledger),
         \A s \in Signers : signer'[s].at = "read" => signer'[s] = signer[s]
  PROVE  HonestInv'
<1> SUFFICES ASSUME Untampered' PROVE HonestInv'
  BY DEF HonestInv
<1>1. Untampered BY DEF Untampered
<1>2. Reading' = Reading BY DEF Reading
<1>3. tip' = Tip(t.n, t.id, t.last, now, "log", pq) BY DEF WriteTip
<1>4. /\ tip'.kind = "tip" /\ tip'.wellformed /\ tip'.key = "log" /\ tip'.pq = pq
      /\ tip'.entries = t.n /\ tip'.id = t.id /\ tip'.last = t.last
  BY <1>3 DEF Tip
<1>5. Covers(tip', tip'.entries, ledger') BY <1>1, <1>4 DEF Covers
<1>6. \A r \in Reading' : \E n \in Nat : Seen(reader'[r].lines, n, ledger', torn') BY <1>1, <1>2 DEF HonestInv
<1>7. \A s \in Signers : signer'[s].at = "read" => Covers(signer'[s], signer'[s].n, ledger') BY <1>1 DEF HonestInv
<1>8. Honest(ledger') BY <1>1 DEF HonestInv
<1> QED BY <1>4, <1>5, <1>6, <1>7, <1>8 DEF HonestInv

LEMMA SealTailHonest ==
  ASSUME SignedInv, HonestInv, NEW w \in Writers, SealTail(w)
  PROVE  HonestInv'
<1>1. PICK es, n : es = Entries(ledger) /\ n = es[Len(es)].idx + 1 OBVIOUS
<1>2. PICK t : t = [n |-> n, id |-> FirstLineSelf, last |-> LastSelf(es)] OBVIOUS
<1>3. /\ es # << >> /\ UNCHANGED <<ledger, torn, signer, reader, tampers>>
      /\ WriteTip(t, Chain(ledger), "none")
  BY <1>1, <1>2 DEF SealTail
<1>4. ASSUME Untampered PROVE Covers(t, t.n, ledger)
  <2>1. IsFile(ledger) /\ Honest(ledger) BY <1>4 DEF SignedInv, FilesInv, HonestInv
  <2>2. es = ledger /\ Len(ledger) \in Nat /\ Len(ledger) # 0 BY <1>1, <1>3, <2>1, HonestEntries
  <2>3. Len(ledger) \in 1..Len(ledger) BY <2>2
  <2>4. n = Len(ledger) BY <1>1, <2>1, <2>2, <2>3 DEF Honest
  <2>5. 1 \in 1..Len(ledger) BY <2>2
  <2>6. ledger[1].kind = "entry" BY <2>1, <2>5 DEF Honest
  <2>7. t.n = n /\ t.id = es[1].self /\ t.last = LastSelf(es) BY <1>2, <2>2, <2>6 DEF FirstLineSelf
  <2> QED BY <1>3, <2>2, <2>4, <2>7 DEF Covers, LastSelf
<1>5. PICK c : c = Chain(ledger) OBVIOUS
<1> QED BY <1>3, <1>4, <1>5, WriteTipHonest

LEMMA SignTipHonest ==
  ASSUME SignedInv, HonestInv, NEW x \in Signers, SignTip(x)
  PROVE  HonestInv'
<1>1. PICK t, c : t = signer[x] /\ c = signer[x].chain OBVIOUS
<1>2. /\ signer[x].at = "read" /\ WriteTip(t, c, "pq") /\ UNCHANGED <<ledger, torn, reader, tampers>>
      /\ signer' = [signer EXCEPT ![x] = Idle]
  BY <1>1 DEF SignTip
<1>3. Untampered => Covers(t, t.n, ledger) BY <1>1, <1>2 DEF HonestInv
<1>4. \A s \in Signers : signer'[s].at = "read" => signer'[s] = signer[s]
  <2>1. DOMAIN signer = Signers BY DEF SignedInv, FilesInv
  <2>2. signer'[x].at # "read" /\ \A s \in Signers : s # x => signer'[s] = signer[s] BY <1>2, <2>1 DEF Idle
  <2> QED BY <2>2
<1> QED BY <1>2, <1>3, <1>4, WriteTipHonest

LEMMA ReadChainHonest ==
  ASSUME SignedInv, HonestInv, NEW x \in Signers, ReadChain(x)
  PROVE  HonestInv'
<1> SUFFICES ASSUME Untampered' PROVE HonestInv'
  BY DEF HonestInv
<1>1. PICK es : es = Entries(ledger) OBVIOUS
<1>2. PICK t : t = [at |-> "read", n |-> Len(es), id |-> FirstSelf(es), last |-> LastSelf(es), chain |-> Chain(ledger)] OBVIOUS
<1>3. signer' = [signer EXCEPT ![x] = t] /\ UNCHANGED <<ledger, torn, tip, reader, tampers>>
  BY <1>1, <1>2 DEF ReadChain
<1>4. Untampered BY <1>3 DEF Untampered
<1>5. Covers(t, t.n, ledger)
  <2>1. IsFile(ledger) /\ Honest(ledger) BY <1>4 DEF SignedInv, FilesInv, HonestInv
  <2>2. es = ledger /\ Len(ledger) \in Nat /\ (ledger = << >> <=> Len(ledger) = 0) BY <1>1, <2>1, HonestEntries
  <2>3. t.n = Len(es) /\ t.id = FirstSelf(es) /\ t.last = LastSelf(es) BY <1>2
  <2> QED BY <2>2, <2>3 DEF Covers, FirstSelf, LastSelf
<1>6. Reading' = Reading BY <1>3 DEF Reading
<1>7. DOMAIN signer = Signers BY DEF SignedInv, FilesInv
<1>8. signer'[x] = t /\ \A s \in Signers : s # x => signer'[s] = signer[s] BY <1>3, <1>7
<1>9. \A s \in Signers : signer'[s].at = "read" => Covers(signer'[s], signer'[s].n, ledger')
  BY <1>3, <1>4, <1>5, <1>8 DEF HonestInv
<1> QED BY <1>3, <1>4, <1>6, <1>9 DEF HonestInv

LEMMA ReadLedgerHonest ==
  ASSUME SignedInv, HonestInv, NEW r \in Readers, ReadLedger(r) \/ Verify(r)
  PROVE  HonestInv'
<1> SUFFICES ASSUME Untampered' PROVE HonestInv'
  BY DEF HonestInv
<1>1. /\ UNCHANGED <<ledger, torn, tip, signer, tampers>>
      /\ reader' = [reader EXCEPT ![r] = [at |-> "read", lines |-> LinesRead]] \/ reader' = [reader EXCEPT ![r] = Idle]
  BY DEF ReadLedger, Verify
<1>2. Untampered BY <1>1 DEF Untampered
<1>3. IsFile(ledger) /\ DOMAIN reader = Readers BY DEF SignedInv, FilesInv
<1>4. Len(ledger) \in Nat BY <1>3, ChainFacts
<1>5. PICK l : l = LinesRead OBVIOUS
<1>6. Seen(l, Len(ledger), ledger, torn)
  <2>1. IsLine(Broken) BY DEF IsLine, Broken
  <2>2. /\ Len(Append(ledger, Broken)) = Len(ledger) + 1
        /\ \A i \in 1..Len(ledger) : Append(ledger, Broken)[i] = ledger[i]
        /\ Append(ledger, Broken)[Len(ledger) + 1] = Broken
    BY <1>3, <2>1, AppendFile
  <2>3. CASE torn
    <3>1. l = Append(ledger, Broken) BY <1>5, <2>3 DEF LinesRead
    <3> QED BY <1>4, <2>2, <2>3, <3>1 DEF Seen, Starts
  <2>4. CASE ~torn
    <3>1. l = ledger BY <1>5, <2>4 DEF LinesRead
    <3> QED BY <1>4, <3>1 DEF Seen, Starts
  <2> QED BY <2>3, <2>4
<1>7. reader'[r] = [at |-> "read", lines |-> l] \/ reader'[r] = Idle BY <1>1, <1>3, <1>5
<1>8. \A q \in Readers : q # r => reader'[q] = reader[q] BY <1>1, <1>3
<1>9. \A q \in Reading' : (q \in Reading /\ reader'[q] = reader[q]) \/ (q = r /\ reader'[q].lines = l)
  BY <1>7, <1>8 DEF Reading, Idle
<1>10. \A q \in Reading' : \E n \in Nat : Seen(reader'[q].lines, n, ledger', torn')
  BY <1>1, <1>2, <1>4, <1>6, <1>9 DEF HonestInv
<1> QED BY <1>1, <1>2, <1>10 DEF HonestInv

LEMMA NextHonest == SignedInv /\ HonestInv /\ [Next]_vars => HonestInv'
<1> SUFFICES ASSUME SignedInv, HonestInv, [Next]_vars PROVE HonestInv'
  OBVIOUS
<1>1. ASSUME NEW w \in Writers, AppendLine(w) PROVE HonestInv' BY <1>1, AppendLineHonest
<1>2. ASSUME NEW w \in Writers, AppendFails(w) PROVE HonestInv'
  BY <1>2, OtherHonest DEF AppendFails, TailReadable
<1>3. ASSUME NEW w \in Writers, SealTail(w) PROVE HonestInv' BY <1>3, SealTailHonest
<1>4. ASSUME NEW w \in Writers, SealFails(w) PROVE HonestInv' BY <1>4, OtherHonest DEF SealFails
<1>5. ASSUME NEW x \in Signers, ReadChain(x) PROVE HonestInv' BY <1>5, ReadChainHonest
<1>6. ASSUME NEW x \in Signers, SignTip(x) PROVE HonestInv' BY <1>6, SignTipHonest
<1>7. ASSUME NEW r \in Readers, ReadLedger(r) \/ Verify(r) PROVE HonestInv' BY <1>7, ReadLedgerHonest
<1>8. CASE Tamper
  <2>1. tampers' = tampers + 1 /\ tampers \in Nat BY <1>8 DEF Tamper, Tampering, SignedInv, FilesInv
  <2>2. ~Untampered' BY <2>1 DEF Untampered
  <2> QED BY <2>2 DEF HonestInv
<1>9. CASE Tick BY <1>9, OtherHonest DEF Tick
<1>10. CASE UNCHANGED vars BY <1>10, OtherHonest DEF vars
<1> QED BY <1>1, <1>2, <1>3, <1>4, <1>5, <1>6, <1>7, <1>8, <1>9, <1>10 DEF Next

\* What a verifier has read of an honest ledger.
LEMMA HonestRead ==
  ASSUME NEW l, IsFile(l), Honest(l), NEW s, IsFile(s), NEW n \in Nat, NEW more, Seen(s, n, l, more)
  PROVE  /\ IsFile(Entries(s)) /\ Honest(Entries(s)) /\ Len(Entries(s)) = n /\ n <= Len(l)
         /\ \A i \in 1..n : Entries(s)[i] = l[i]
         /\ \A i \in 1..Len(s) : s[i].kind = "broken" => more
<1>1. n \in 0..Len(l) /\ \A i \in 1..n : s[i] = l[i] BY DEF Seen, Starts
<1>2. Len(l) \in Nat /\ Entries(l) = l BY HonestEntries
<1>3. CASE Len(s) = n
  <2>1. Honest(s)
    <3>1. Len(s) <= Len(l) /\ \A i \in 1..Len(s) : s[i] = l[i] BY <1>1, <1>2, <1>3
    <3> QED BY <3>1, HonestStart
  <2>2. Entries(s) = s BY <2>1, HonestEntries
  <2>3. \A i \in 1..Len(s) : s[i].kind = "entry" BY <2>1 DEF Honest
  <2> QED BY <1>1, <1>2, <1>3, <2>1, <2>2, <2>3
<1>4. CASE Len(s) # n
  <2>1. more /\ n = Len(l) /\ Len(s) = n + 1 /\ s[n + 1] = Broken BY <1>4 DEF Seen
  <2>2. PICK t : t = Append(l, Broken) OBVIOUS
  <2>3. /\ IsFile(t) /\ Len(t) = n + 1 /\ \A i \in 1..n : t[i] = l[i]
        /\ t[n + 1] = Broken /\ Entries(t) = Entries(l)
    <3>1. IsLine(Broken) /\ Broken.kind # "entry" BY DEF IsLine, Broken
    <3> QED BY <2>1, <2>2, <3>1, AppendFile
  <2>4. s = t
    <3>1. s = [i \in 1..Len(s) |-> s[i]] /\ t = [i \in 1..Len(t) |-> t[i]] BY <2>3, LenProperties DEF IsFile
    <3>2. \A i \in 1..(n + 1) : s[i] = t[i]
      <4>1. \A i \in 1..(n + 1) : i \in 1..n \/ i = n + 1 OBVIOUS
      <4> QED BY <1>1, <2>1, <2>3, <4>1
    <3> QED BY <2>1, <2>3, <3>1, <3>2
  <2>5. Entries(s) = l BY <1>2, <2>3, <2>4
  <2> QED BY <1>2, <2>1, <2>5
<1> QED BY <1>3, <1>4

LEMMA HonestChainErrors ==
  ASSUME NEW l, IsFile(l), Honest(l), NEW s, IsFile(s), NEW n \in Nat, NEW more, Seen(s, n, l, more)
  PROVE  ChainErrors(s) \subseteq {"empty_ledger"} \cup (IF more THEN {"json_decode"} ELSE {})
<1>1. PICK es, algo : es = Entries(s) /\ algo = DetectAlgo(es) OBVIOUS
<1>2. Honest(es) /\ \A i \in 1..Len(s) : s[i].kind = "broken" => more BY <1>1, HonestRead
<1>3. \A i \in 1..Len(es) : /\ ~es[i].extra /\ es[i].idx = i - 1 /\ es[i].self = HashOf(algo, es[i])
                            /\ es[i].prev = (IF i = 1 THEN GENESIS ELSE es[i - 1].self)
  BY <1>1, <1>2 DEF Honest
<1> QED BY <1>1, <1>2, <1>3 DEF ChainErrors

\* An honest tip beside what a verifier has read of an honest ledger.
LEMMA HonestCheck ==
  ASSUME NEW l, IsFile(l), NEW es, IsFile(es), NEW n \in Nat, Len(es) = n, n <= Len(l), \A i \in 1..n : es[i] = l[i],
         NEW t, t.wellformed, t.key = "log", t.pq \in {"none", "pq"}, Covers(t, t.entries, l),
         NEW o, o.key = "log", ~HasPqKey(o), o.notBefore = -1, o.expect = GENESIS
  PROVE  CheckTip(n, FirstSelf(es), LastSelf(es), t, o) \in
           {"ok", "unsealed_tail"} \cup (IF n < Len(l) THEN {"tail_truncated"} ELSE {})
           \cup (IF t.entries = 0 THEN {"tip_of_another_ledger"} ELSE {})
<1>1. TipSignature(t, o) = "ok" BY Zenon DEF TipSignature, HasPqKey
<1>2. Len(l) \in Nat /\ (es = << >> <=> Len(es) = 0) BY LenProperties, EmptySeq DEF IsFile
<1>3. t.entries \in 0..Len(l) /\ t.id = (IF t.entries = 0 THEN GENESIS ELSE l[1].self)
      /\ t.last = (IF t.entries = 0 THEN GENESIS ELSE l[t.entries].self)
  BY DEF Covers
<1>4. n > 0 /\ t.id # FirstSelf(es) => t.entries = 0
  <2>1. n > 0 => FirstSelf(es) = l[1].self
    <3>1. n > 0 => 1 \in 1..n OBVIOUS
    <3> QED BY <1>2, <3>1 DEF FirstSelf
  <2> QED BY <1>3, <2>1
<1>5. n = t.entries => LastSelf(es) = t.last
  <2>1. n > 0 => n \in 1..n OBVIOUS
  <2> QED BY <1>2, <1>3, <2>1 DEF LastSelf
<1>6. n < t.entries => n < Len(l) BY <1>2, <1>3
<1>7. n < t.entries \/ n > t.entries \/ n = t.entries BY <1>3
<1> QED BY <1>1, <1>4, <1>5, <1>6, <1>7 DEF CheckTip

LEMMA HonestTipErrors ==
  ASSUME NEW s, NEW t, t.kind \in {"none", "tip"}, NEW o, o.key = "log", ~HasPqKey(o)
  PROVE  TipErrors(s, t, o) \subseteq
           {"tip_missing"} \cup (IF t.kind = "tip" THEN {CheckTip(Len(Entries(s)), FirstSelf(Entries(s)), LastSelf(Entries(s)), t, o)} \ {"ok"} ELSE {})
<1> DEFINE check == CheckTip(Len(Entries(s)), FirstSelf(Entries(s)), LastSelf(Entries(s)), t, o)
           checked == IF t.kind = "none" THEN (IF NeedsTip(o) THEN "tip_missing" ELSE "ok")
                      ELSE IF ~HasKey(o) THEN (IF NeedsTip(o) THEN "tip_untrusted" ELSE "ok")
                      ELSE IF t.kind = "unreadable" THEN "tip_unreadable" ELSE check
           Alone == IF HasPqKey(o) /\ ~HasKey(o) THEN {"pq_key_without_log_key"} ELSE {}
<1> HIDE DEF check
<1>1. TipErrors(s, t, o) = ({checked} \ {"ok"}) \cup Alone
  BY Zenon DEF TipErrors, NeedsTip, HasKey, HasPqKey, check
<1>2. HasKey(o) BY Zenon DEF HasKey
<1>3. Alone = {} OBVIOUS
<1>4. t.kind = "tip" => checked = check BY <1>2
<1>5. t.kind = "none" => checked \in {"tip_missing", "ok"} OBVIOUS
<1> HIDE DEF checked, Alone
<1>6. TipErrors(s, t, o) = {checked} \ {"ok"} BY <1>1, <1>3
<1> QED BY <1>4, <1>5, <1>6 DEF check

LEMMA HonestAnswers == SignedInv /\ HonestInv => HonestVerdicts
<1> SUFFICES ASSUME SignedInv, HonestInv, NEW r \in Readers, NEW o \in Opts,
                    reader[r].at = "read", Untampered, o.key = "log", ~HasPqKey(o), o.notBefore = -1, o.expect = GENESIS
             PROVE  Errors(r, o) \subseteq {"unsealed_tail", "tip_missing", "empty_ledger"}
                      \cup (IF torn THEN {"json_decode"} ELSE {})
                      \cup (IF reader[r].lines # LinesRead THEN {"tail_truncated"} ELSE {})
                      \cup (IF tip.kind = "tip" /\ tip.entries = 0 THEN {"tip_of_another_ledger"} ELSE {})
  BY Zenon DEF HonestVerdicts, HasPqKey
<1>1. PICK s, l, es : s = reader[r].lines /\ l = ledger /\ es = Entries(s) OBVIOUS
<1>2. r \in Reading BY DEF Reading
<1>3. PICK n \in Nat : Seen(s, n, l, torn) BY <1>1, <1>2 DEF HonestInv
<1>4. IsFile(s) /\ IsFile(l) /\ Honest(l) BY <1>1, <1>2 DEF SignedInv, FilesInv, HonestInv
<1>5. /\ IsFile(es) /\ Len(es) = n /\ n <= Len(l)
      /\ \A i \in 1..n : es[i] = l[i]
  BY <1>1, <1>3, <1>4, HonestRead
<1>6. ChainErrors(s) \subseteq {"empty_ledger"} \cup (IF torn THEN {"json_decode"} ELSE {})
  BY <1>3, <1>4, HonestChainErrors
<1>7. PICK t : t = tip OBVIOUS
<1>8. /\ t.kind \in {"none", "tip"}
      /\ t.kind = "tip" => t.wellformed /\ t.key = "log" /\ t.pq \in {"none", "pq"} /\ Covers(t, t.entries, l)
  BY <1>1, <1>7 DEF HonestInv
<1>9. PICK c : c = CheckTip(n, FirstSelf(es), LastSelf(es), t, o) OBVIOUS
<1>10. t.kind = "tip" => c \in {"ok", "unsealed_tail"} \cup (IF n < Len(l) THEN {"tail_truncated"} ELSE {})
                                \cup (IF t.entries = 0 THEN {"tip_of_another_ledger"} ELSE {})
  BY <1>4, <1>5, <1>8, <1>9, HonestCheck
<1>11. TipErrors(s, t, o) \subseteq {"tip_missing"} \cup (IF t.kind = "tip" THEN {c} \ {"ok"} ELSE {})
  BY <1>1, <1>5, <1>8, <1>9, HonestTipErrors
<1>12. n < Len(l) => s # LinesRead
  <2>1. Len(LinesRead) = Len(l) \/ Len(LinesRead) = Len(l) + 1
    <3>1. IsLine(Broken) BY DEF IsLine, Broken
    <3>2. Len(Append(ledger, Broken)) = Len(ledger) + 1 BY <1>1, <1>4, <3>1, AppendFile
    <3> QED BY <1>1, <3>2 DEF LinesRead
  <2>2. Len(l) \in Nat BY <1>4, ChainFacts
  <2>3. Len(s) = n \/ (n = Len(l) /\ Len(s) = n + 1) BY <1>3 DEF Seen
  <2> QED BY <2>1, <2>2, <2>3
<1>13. Errors(r, o) = ChainErrors(s) \cup TipErrors(s, t, o) BY <1>1, <1>7, Zenon DEF Errors, VerifyLedger
<1>14. t.kind = "tip" => c \in {"ok", "unsealed_tail"} \cup (IF s # LinesRead THEN {"tail_truncated"} ELSE {})
                                \cup (IF t.entries = 0 THEN {"tip_of_another_ledger"} ELSE {})
  BY <1>10, <1>12
<1> QED BY <1>1, <1>6, <1>7, <1>8, <1>11, <1>13, <1>14

\* Without tampering no verifier calls the ledger rewritten.
THEOREM HonestVerified == Spec => []HonestVerdicts
<1>1. Init => SignedInv /\ HonestInv BY InitSigned, InitHonest
<1>2. SignedInv /\ HonestInv /\ [Next]_vars => (SignedInv /\ HonestInv)' BY NextSigned, NextHonest
<1>3. SignedInv /\ HonestInv => HonestVerdicts BY HonestAnswers
<1> QED BY <1>1, <1>2, <1>3, PTL DEF Spec

-----------------------------------------------------------------------------
(* Types *)

Ranges ==
  /\ torn \in BOOLEAN /\ lock \in Writers \cup {"free"}
  /\ \A s \in Signers : signer[s].at \in {"idle", "read"}
  /\ \A r \in Readers : reader[r].at \in {"idle", "read"}
  /\ now \in 0..MaxTime /\ data \in 0..MaxEntries /\ tampers \in 0..MaxTamper /\ faults \in 0..MaxFaults

LEMMA InitRanges == Init => Ranges
<1> SUFFICES ASSUME Init PROVE Ranges
  OBVIOUS
<1>1. MaxTime \in Nat /\ MaxEntries \in Nat /\ MaxTamper \in Nat /\ MaxFaults \in Nat
  BY SignedLedgerConstants, Zenon
<1>2. 0 \in 0..MaxTime /\ 0 \in 0..MaxEntries /\ 0 \in 0..MaxTamper /\ 0 \in 0..MaxFaults
  BY <1>1
<1>3. torn \in BOOLEAN /\ lock \in Writers \cup {"free"} BY DEF Init
<1>4. \A s \in Signers : signer[s].at \in {"idle", "read"} BY DEF Init, Idle
<1>5. \A r \in Readers : reader[r].at \in {"idle", "read"} BY DEF Init, Idle
<1>6. now = 0 /\ data = 0 /\ tampers = 0 /\ faults = 0 BY DEF Init
<1> QED BY <1>2, <1>3, <1>4, <1>5, <1>6 DEF Ranges

LEMMA NextRanges == SignedInv /\ Ranges /\ [Next]_vars => Ranges'
<1> SUFFICES ASSUME SignedInv, Ranges, [Next]_vars PROVE Ranges'
  OBVIOUS
<1>0. /\ MaxTime \in Nat /\ MaxEntries \in Nat /\ MaxTamper \in Nat /\ MaxFaults \in Nat
      /\ DOMAIN signer = Signers /\ DOMAIN reader = Readers
  BY SignedLedgerConstants DEF SignedInv, FilesInv
<1>1. ASSUME NEW w \in Writers, AppendLine(w) PROVE Ranges'
  <2>1. data' = data + 1 /\ data < MaxEntries /\ lock' = w /\ UNCHANGED <<torn, signer, reader, now, tampers, faults>>
    BY <1>1 DEF AppendLine
  <2>2. data' \in 0..MaxEntries BY <1>0, <2>1 DEF Ranges
  <2> QED BY <2>1, <2>2 DEF Ranges
<1>2. ASSUME NEW w \in Writers, AppendFails(w) \/ SealFails(w) PROVE Ranges'
  <2>1. /\ faults' = faults \/ (faults < MaxFaults /\ faults' = faults + 1)
        /\ torn' \in {TRUE, FALSE, torn} /\ lock' \in {lock, "free"}
        /\ UNCHANGED <<signer, reader, now, data, tampers>>
    BY <1>2 DEF AppendFails, SealFails
  <2>2. faults' \in 0..MaxFaults BY <1>0, <2>1 DEF Ranges
  <2> QED BY <2>1, <2>2 DEF Ranges
<1>3. ASSUME NEW w \in Writers, SealTail(w) PROVE Ranges' BY <1>3 DEF SealTail, Ranges
<1>4. ASSUME NEW x \in Signers, ReadChain(x) \/ SignTip(x) PROVE Ranges'
  <2>1. /\ signer'[x].at \in {"idle", "read"} /\ \A y \in Signers : y # x => signer'[y] = signer[y]
        /\ UNCHANGED <<torn, lock, reader, now, data, tampers, faults>>
    <3>1. Idle.at = "idle" BY DEF Idle
    <3>2. CASE ReadChain(x)
      <4>1. PICK t : t = [at |-> "read", n |-> Len(Entries(ledger)), id |-> FirstSelf(Entries(ledger)), last |-> LastSelf(Entries(ledger)), chain |-> Chain(ledger)]
        OBVIOUS
      <4>2. t.at = "read" BY <4>1
      <4>3. signer' = [signer EXCEPT ![x] = t] /\ UNCHANGED <<torn, lock, reader, now, data, tampers, faults>>
        BY <3>2, <4>1 DEF ReadChain
      <4> QED BY <1>0, <4>2, <4>3
    <3>3. CASE SignTip(x)
      <4>1. signer' = [signer EXCEPT ![x] = Idle] /\ UNCHANGED <<torn, lock, reader, now, data, tampers, faults>>
        BY <3>3 DEF SignTip
      <4> QED BY <1>0, <3>1, <4>1
    <3> QED BY <1>4, <3>2, <3>3
  <2>2. \A s \in Signers : signer'[s].at \in {"idle", "read"} BY <2>1 DEF Ranges
  <2> QED BY <2>1, <2>2 DEF Ranges
<1>5. ASSUME NEW x \in Readers, ReadLedger(x) \/ Verify(x) PROVE Ranges'
  <2>1. /\ reader'[x].at \in {"idle", "read"} /\ \A y \in Readers : y # x => reader'[y] = reader[y]
        /\ UNCHANGED <<torn, lock, signer, now, data, tampers, faults>>
    <3>1. Idle.at = "idle" BY DEF Idle
    <3>2. CASE ReadLedger(x)
      <4>1. PICK t : t = [at |-> "read", lines |-> LinesRead] OBVIOUS
      <4>2. t.at = "read" BY <4>1
      <4>3. reader' = [reader EXCEPT ![x] = t] /\ UNCHANGED <<torn, lock, signer, now, data, tampers, faults>>
        BY <3>2, <4>1 DEF ReadLedger
      <4> QED BY <1>0, <4>2, <4>3
    <3>3. CASE Verify(x)
      <4>1. reader' = [reader EXCEPT ![x] = Idle] /\ UNCHANGED <<torn, lock, signer, now, data, tampers, faults>>
        BY <3>3 DEF Verify
      <4> QED BY <1>0, <3>1, <4>1
    <3> QED BY <1>5, <3>2, <3>3
  <2>2. \A r \in Readers : reader'[r].at \in {"idle", "read"} BY <2>1 DEF Ranges
  <2> QED BY <2>1, <2>2 DEF Ranges
<1>6. CASE Tamper
  <2>1. tampers < MaxTamper /\ tampers' = tampers + 1 /\ UNCHANGED <<lock, signer, reader, now, faults>>
    BY <1>6 DEF Tamper, Tampering
  <2>2. tampers' \in 0..MaxTamper BY <1>0, <2>1 DEF Ranges
  <2>3. torn' \in {FALSE, torn} /\ (data' = data \/ (data < MaxEntries /\ data' = data + 1))
    BY <1>6 DEF Tamper, Truncate, Rechain, Edit, SwapTip
  <2>4. data' \in 0..MaxEntries BY <1>0, <2>3 DEF Ranges
  <2> QED BY <2>1, <2>2, <2>3, <2>4 DEF Ranges
<1>7. CASE Tick
  <2>1. now' \in 0..MaxTime BY <1>0, <1>7 DEF Tick, Ranges
  <2> QED BY <1>7, <2>1 DEF Tick, Ranges
<1>8. CASE UNCHANGED vars BY <1>8 DEF vars, Ranges
<1> QED BY <1>1, <1>2, <1>3, <1>4, <1>5, <1>6, <1>7, <1>8 DEF Next

\* Every variable stays within its type and bound.
THEOREM TypeCorrect == Spec => []TypeOK
<1>1. Init => SignedInv /\ Ranges BY InitSigned, InitRanges
<1>2. SignedInv /\ Ranges /\ [Next]_vars => (SignedInv /\ Ranges)' BY NextSigned, NextRanges
<1>3. SignedInv /\ Ranges => TypeOK
  <2>1. SignedInv => \A i \in 1..Len(ledger) : /\ ledger[i].kind \in {"entry", "blank", "broken"}
                                               /\ ledger[i].kind = "entry" => ledger[i].idx \in Nat
    BY DEF SignedInv, FilesInv, IsFile, IsLine
  <2> QED BY <2>1 DEF TypeOK, Ranges, SignedInv, TipFileInv
<1> QED BY <1>1, <1>2, <1>3, PTL DEF Spec

=============================================================================
