---------------------------- MODULE MonitorProofs ---------------------------
(***************************************************************************)
(* Proofs about cryptovalid_monitor.run for every deployment, any number   *)
(* of entries, of acts of tampering and of hours (the trees it accepts     *)
(* while nothing replaces its baseline are one growing tree, and it never  *)
(* leaves an unsigned state behind), and about the walks over Merkle       *)
(* proofs (what an accepted proof shows, for trees, sizes and paths of any *)
(* length, whatever sizes the maker of the proof claims).                  *)
(***************************************************************************)
EXTENDS Monitor, ProofWalk, SequenceTheorems, TLAPS

-----------------------------------------------------------------------------
(***************************************************************************)
(* Monitor: the heads it accepts                                           *)
(***************************************************************************)
-----------------------------------------------------------------------------
(* Prefixes of trees *)

\* A tree is a prefix of another when it has the same leaves up to its size.
LEMMA PrefixIff ==
  ASSUME NEW S, NEW s \in Seq(S), NEW t \in Seq(S)
  PROVE  IsPrefix(s, t) <=> Len(s) <= Len(t) /\ \A k \in 1..Len(s) : s[k] = t[k]
<1> DEFINE n == Len(s)
<1>1. n \in Nat /\ Len(t) \in Nat BY LenProperties
<1>2. CASE n <= Len(t)
  <2>1. SubSeq(s, 1, n) = [k \in 1..n |-> s[k]] BY <1>1
  <2>2. SubSeq(t, 1, n) = [k \in 1..n |-> t[k]] BY <1>1
  <2> QED BY <1>2, <2>1, <2>2 DEF IsPrefix
<1>3. CASE ~ (n <= Len(t)) BY <1>3 DEF IsPrefix
<1> QED BY <1>2, <1>3

\* A tree extends itself.
LEMMA PrefixRefl ==
  ASSUME NEW S, NEW s \in Seq(S)
  PROVE  IsPrefix(s, s)
BY PrefixIff, LenProperties

\* An extension of an extension is an extension.
LEMMA PrefixTrans ==
  ASSUME NEW S, NEW r \in Seq(S), NEW s \in Seq(S), NEW t \in Seq(S), IsPrefix(r, s), IsPrefix(s, t)
  PROVE  IsPrefix(r, t)
<1>1. Len(r) \in Nat /\ Len(s) \in Nat /\ Len(t) \in Nat BY LenProperties
<1>2. Len(r) <= Len(s) /\ \A k \in 1..Len(r) : r[k] = s[k] BY PrefixIff
<1>3. Len(s) <= Len(t) /\ \A k \in 1..Len(s) : s[k] = t[k] BY PrefixIff
<1>4. \A k \in 1..Len(r) : r[k] = t[k] BY <1>1, <1>2, <1>3
<1>5. Len(r) <= Len(t) BY <1>1, <1>2, <1>3
<1> QED BY <1>4, <1>5, PrefixIff

\* No growth alert: the ledger read extends the saved tree.
LEMMA NoGrowthAlert ==
  ASSUME prev.root \in Trees, leaves \in Trees, prev # NoState, GrowthAlerts = {}
  PROVE  IsPrefix(prev.root, leaves)
<1>1. Len(leaves) \in Nat /\ Len(prev.root) \in Nat BY LenProperties DEF Trees
<1>2. ~ (Len(leaves) < Len(prev.root))
  <2>1. SUFFICES ASSUME Len(leaves) < Len(prev.root) PROVE "truncation" \in GrowthAlerts
    OBVIOUS
  <2> QED BY <2>1 DEF GrowthAlerts
<1>3. ASSUME Len(leaves) = Len(prev.root) PROVE leaves = prev.root
  <2>1. SUFFICES ASSUME leaves # prev.root PROVE "rewrite" \in GrowthAlerts
    OBVIOUS
  <2> QED BY <1>3, <2>1 DEF GrowthAlerts
<1>4. ASSUME Len(leaves) > Len(prev.root), Len(prev.root) > 0 PROVE IsPrefix(prev.root, leaves)
  <2>1. SUFFICES ASSUME ~ IsPrefix(prev.root, leaves) PROVE "fork" \in GrowthAlerts
    OBVIOUS
  <2> QED BY <1>4, <2>1 DEF GrowthAlerts
<1>5. CASE Len(prev.root) = 0
  <2>1. \A k \in 1..Len(prev.root) : prev.root[k] = leaves[k] BY <1>5
  <2>2. Len(prev.root) <= Len(leaves) BY <1>1, <1>5
  <2> QED BY <2>1, <2>2, PrefixIff DEF Trees
<1>6. CASE Len(leaves) = Len(prev.root) BY <1>3, <1>6, PrefixRefl DEF Trees
<1> QED BY <1>1, <1>2, <1>4, <1>5, <1>6

\* No alert about the state: under a key, the saved head is signed by the log
\* key for the saved tree.
LEMMA NoStateAlert ==
  ASSUME mode # "none", prev # NoState, StateAlerts = {}
  PROVE  prev.sth.key = "log" /\ prev.sth.tree = prev.root
<1>1. prev.sth # NoSth
  <2>1. SUFFICES ASSUME prev.sth = NoSth PROVE "unsigned" \in StateAlerts
    OBVIOUS
  <2> QED BY <2>1 DEF StateAlerts
<1>2. ~ (prev.sth.key # "log" \/ prev.sth.tree # prev.root)
  <2>1. SUFFICES ASSUME prev.sth.key # "log" \/ prev.sth.tree # prev.root PROVE "tampered" \in StateAlerts
    OBVIOUS
  <2> QED BY <1>1, <2>1 DEF StateAlerts
<1> QED BY <1>2

-----------------------------------------------------------------------------
(* Type correctness *)

\* The head of the new state: the head of the tree read, the saved head of an
\* unchanged tree, or none.
LEMMA NewSthCases ==
  \/ NewSth = [tree |-> leaves, key |-> "log"]
  \/ mode = "auditor" /\ prev.sth # NoSth /\ prev.root = leaves /\ NewSth = prev.sth
  \/ mode # "writer" /\ NewSth = NoSth
BY DEF NewSth

\* A signed head is typed whichever way it is obtained.
LEMMA NewSthType ==
  ASSUME TypeOK
  PROVE  NewSth \in Sths
<1>1. [tree |-> leaves, key |-> "log"] \in Sths BY DEF TypeOK, Sths
<1>2. prev.sth \in Sths BY DEF TypeOK, States
<1>3. NoSth \in Sths BY EmptySeq DEF NoSth, Sths, Trees
<1> QED BY <1>1, <1>2, <1>3, NewSthCases

\* No state file is a typed state.
LEMMA NoStateType == NoState \in States
<1>1. << >> \in Trees BY EmptySeq DEF Trees
<1>2. NoSth \in Sths BY <1>1 DEF NoSth, Sths
<1> QED BY <1>1, <1>2 DEF NoState, States

\* The end of a run leaves its locals typed.
LEMMA OverType ==
  ASSUME Over
  PROVE  pc' = "idle" /\ snap' \in BOOLEAN /\ leaves' \in Trees /\ prev' \in States
BY NoStateType, EmptySeq DEF Over, Trees

\* Every tree an editor of the state can have a signed head of is typed.
LEMMA SignedTreesType ==
  ASSUME TypeOK
  PROVE  SignedTrees \subseteq Trees
<1>1. \A k \in DOMAIN bases : bases[k] \in Trees BY LenProperties, ElementOfSeq DEF TypeOK
<1> QED BY <1>1 DEF SignedTrees, Range, TypeOK

\* Whatever an editor puts in the state file is a typed state.
LEMMA EditType ==
  ASSUME TypeOK,
         NEW h \in Heads,
         NEW st \in {NoState} \cup {[root |-> r, ts |-> now, sth |-> h, key |-> h.key] :
                                   r \in {state.root, ledger, h.tree}}
  PROVE  st \in States
<1>1. CASE st = NoState BY <1>1, NoStateType
<1>2. ASSUME NEW r \in {state.root, ledger, h.tree},
             st = [root |-> r, ts |-> now, sth |-> h, key |-> h.key]
      PROVE  st \in States
  <2>1. state.sth \in Sths /\ state.root \in Trees /\ ledger \in Trees BY DEF TypeOK, States
  <2>2. NoSth \in Sths BY EmptySeq DEF NoSth, Sths, Trees
  <2>3. h \in Sths BY <2>1, <2>2, SignedTreesType DEF Heads, Sths
  <2>4. r \in Trees BY <2>1, <2>3 DEF Sths
  <2>5. now \in Nat BY MonitorConstants DEF TypeOK
  <2> QED BY <1>2, <2>3, <2>4, <2>5 DEF States, Sths
<1> QED BY <1>1, <1>2

\* Every step keeps the state typed.
LEMMA TypeStep == TypeOK /\ [Next]_vars => TypeOK'
<1> SUFFICES ASSUME TypeOK, [Next]_vars PROVE TypeOK'
  OBVIOUS
<1> USE MonitorConstants
<1>1. CASE BeginAppend BY <1>1 DEF BeginAppend, TypeOK, local
<1>2. CASE EndAppend
  <2>1. fresh + 1 \in Nat /\ ledger \in Trees BY DEF TypeOK
  <2>2. torn' = FALSE /\ ledger' = Append(ledger, fresh + 1) /\ fresh' = fresh + 1
    BY <1>2, Zenon DEF EndAppend
  <2>3. ledger' \in Trees BY <2>1, <2>2, AppendProperties DEF Trees
  <2>4. fresh' \in Nat /\ torn' \in BOOLEAN BY <2>1, <2>2
  <2> QED BY <1>2, <2>3, <2>4 DEF EndAppend, TypeOK, local
<1>3. CASE Publish BY <1>3 DEF Publish, TypeOK, local
<1>4. CASE TamperLedger
  <2>1. tampers' \in 0..MaxTamper BY <1>4 DEF TamperLedger, TypeOK
  <2>2. ledger' \in Trees /\ fresh' \in Nat /\ chained' \in BOOLEAN
    <3>1. CASE ledger' = Front(ledger) /\ UNCHANGED <<chained, fresh>>
      BY <1>4, <3>1, SubSeqProperties, LenProperties DEF TamperLedger, TypeOK, Trees, Front
    <3>2. ASSUME NEW i \in 1..Len(ledger),
                 ledger' = [j \in 1..Len(ledger) |-> IF j < i THEN ledger[j] ELSE fresh + 1 + j - i],
                 fresh' = fresh + Len(ledger) + 1 - i, UNCHANGED chained
          PROVE  ledger' \in Trees /\ fresh' \in Nat /\ chained' \in BOOLEAN
      <4>1. Len(ledger) \in Nat /\ fresh \in Nat /\ \A j \in 1..Len(ledger) : ledger[j] \in Nat
        BY LenProperties, ElementOfSeq DEF TypeOK, Trees
      <4>2. \A j \in 1..Len(ledger) : (IF j < i THEN ledger[j] ELSE fresh + 1 + j - i) \in Nat BY <4>1
      <4>3. ledger' \in Seq(Nat) BY <3>2, <4>1, <4>2, IsASeq
      <4> QED BY <3>2, <4>1, <4>3 DEF TypeOK, Trees
    <3>3. CASE chained' = FALSE /\ UNCHANGED <<ledger, fresh>> BY <3>3 DEF TypeOK
    <3> QED BY <1>4, <3>1, <3>2, <3>3 DEF TamperLedger
  <2> QED BY <1>4, <2>1, <2>2 DEF TamperLedger, TypeOK, local
<1>5. CASE EditState
  <2>1. tampers' \in 0..MaxTamper BY <1>5 DEF EditState, TypeOK
  <2>2. PICK h \in Heads : \E st \in {NoState} \cup {[root |-> r, ts |-> now, sth |-> h, key |-> h.key] :
                                                     r \in {state.root, ledger, h.tree}} :
               state' = st /\ since' = IF Replaces(st) THEN Len(bases) + 1 ELSE since
    BY <1>5 DEF EditState
  <2>3. state' \in States BY <2>2, EditType
  <2>4. since' \in Nat \ {0} BY <2>2, LenProperties DEF TypeOK
  <2> QED BY <1>5, <2>1, <2>3, <2>4 DEF EditState, TypeOK, local, disk
<1>6. CASE Tick BY <1>6 DEF Tick, TypeOK, local, disk
<1>7. CASE Snapshot BY <1>7 DEF Snapshot, TypeOK, disk
<1>8. CASE ReadLeaves
  <2>1. CASE torn BY <1>8, <2>1, OverType DEF ReadLeaves, TypeOK, disk
  <2>2. CASE ~ torn BY <1>8, <2>2 DEF ReadLeaves, TypeOK, disk
  <2> QED BY <2>1, <2>2
<1>9. CASE LoadState BY <1>9 DEF LoadState, TypeOK, disk
<1>10. CASE Red BY <1>10, OverType DEF Red, TypeOK, disk
<1>11. CASE Green
  <2>1. NewSth \in Sths /\ NewSth.key \in {"none", "log", "other"} BY NewSthType DEF Sths
  <2>2. state' \in States BY <1>11, <2>1 DEF Green, States, TypeOK
  <2>3. bases' \in Seq(Trees) /\ since' \in Nat \ {0} BY <1>11, AppendProperties DEF Green, TypeOK
  <2> QED BY <1>11, <2>2, <2>3, OverType DEF Green, TypeOK, disk
<1>12. CASE GreenStay BY <1>12, OverType DEF GreenStay, TypeOK, disk
<1>13. CASE Kill BY <1>13, OverType DEF Kill, TypeOK, disk
<1>14. CASE UNCHANGED vars BY <1>14 DEF vars, local, disk, TypeOK
<1> QED BY <1>1, <1>2, <1>3, <1>4, <1>5, <1>6, <1>7, <1>8, <1>9, <1>10, <1>11, <1>12, <1>13, <1>14 DEF Next, Run

\* The first state is typed.
LEMMA TypeInit == Init => TypeOK
<1> SUFFICES ASSUME Init PROVE TypeOK
  OBVIOUS
<1> USE MonitorConstants
<1>1. << >> \in Trees /\ << >> \in Seq(Trees) BY EmptySeq DEF Trees
<1>2. green \in BOOLEAN BY DEF Init
<1>3. ledger \in Trees /\ pubsth \in Trees /\ leaves \in Trees /\ bases \in Seq(Trees) BY <1>1 DEF Init
<1>4. state \in States /\ prev \in States BY NoStateType DEF Init
<1>5. mode \in Modes /\ torn \in BOOLEAN /\ chained \in BOOLEAN /\ snap \in BOOLEAN /\ fresh \in Nat BY DEF Init
<1>8. since = 1 BY DEF Init
<1>6. now \in 0..MaxTime /\ tampers \in 0..MaxTamper BY DEF Init
<1>7. pc \in {"idle", "leaves", "state", "decide"} BY DEF Init
<1> QED BY <1>2, <1>3, <1>4, <1>5, <1>6, <1>7, <1>8 DEF TypeOK

\* The files, the state, the locals of a run and its outcome stay typed.
THEOREM TypeCorrect == Spec => []TypeOK
BY TypeInit, TypeStep, PTL DEF Spec

-----------------------------------------------------------------------------
(* One growing tree *)

\* What a state that was read says of the trees accepted since the baseline was
\* last replaced, when there are any: it is there; without a key its own tree is
\* the last one accepted; under a key the size and root may have been edited, the
\* tree of a head signed by the log key is.
Grounded(st) ==
  since <= Len(bases) =>
    /\ st # NoState
    /\ mode = "none" => st.root = Last(bases)
    /\ mode # "none" /\ st.sth.key = "log" => st.sth.tree = Last(bases)

\* The inductive strengthening of BaselinesLinear: the state file, and the copy
\* of it that a run decides on, stand for the last tree accepted.
LinearInv ==
  /\ TypeOK
  /\ BaselinesLinear
  /\ Grounded(state)
  /\ pc = "decide" => Grounded(prev)

\* A green run accepts an extension of the last tree accepted.
LEMMA GreenExtends ==
  ASSUME LinearInv, Green, since <= Len(bases)
  PROVE  IsPrefix(Last(bases), leaves)
<1>1. Grounded(prev) /\ prev # NoState BY DEF LinearInv, Green, Grounded
<1>2. GrowthAlerts = {} /\ StateAlerts = {} BY DEF Green, Alerts
<1>3. prev.root = Last(bases)
  <2>1. CASE mode = "none" BY <1>1, <2>1 DEF Grounded
  <2>2. CASE mode # "none" BY <1>1, <1>2, <2>2, NoStateAlert DEF Grounded
  <2> QED BY <2>1, <2>2
<1>4. prev.root \in Trees /\ leaves \in Trees BY DEF LinearInv, TypeOK, States
<1> QED BY <1>1, <1>2, <1>3, <1>4, NoGrowthAlert

\* The head a green run stores is a log-signed head of the tree it accepted,
\* unless there is no key or no head.
LEMMA NewSthSigned ==
  ASSUME Green
  PROVE  NewSth = NoSth \/ (NewSth.key = "log" /\ NewSth.tree = leaves)
<1>1. CASE NewSth = [tree |-> leaves, key |-> "log"] BY <1>1
<1>2. CASE mode = "auditor" /\ prev.sth # NoSth /\ prev.root = leaves /\ NewSth = prev.sth
  <2>1. prev # NoState BY <1>2 DEF NoState
  <2>2. StateAlerts = {} BY DEF Green, Alerts
  <2>3. mode # "none" BY <1>2
  <2> QED BY <1>2, <2>1, <2>2, <2>3, NoStateAlert
<1> QED BY <1>1, <1>2, NewSthCases

\* Appending an extension of the last of the growing trees leaves them growing.
LEMMA AppendLinear ==
  ASSUME bases \in Seq(Trees), since \in Nat \ {0}, since' = since, BaselinesLinear, NEW t \in Trees,
         since <= Len(bases) => IsPrefix(Last(bases), t), bases' = Append(bases, t)
  PROVE  BaselinesLinear'
<1> DEFINE n == Len(bases)
<1>1. n \in Nat /\ Len(bases') = n + 1 /\ bases'[n + 1] = t /\ \A i \in 1..n : bases'[i] = bases[i] /\ bases[i] \in Trees
  BY AppendProperties, LenProperties, ElementOfSeq
<1>2. ASSUME NEW i \in since..Len(bases'), NEW j \in i..Len(bases') PROVE IsPrefix(bases'[i], bases'[j])
  <2>0. i \in Int /\ j \in Int /\ 1 <= i /\ since <= i /\ i <= j /\ j <= n + 1 BY <1>1
  <2>1. CASE j <= n
    <3>1. i \in since..n /\ i \in 1..n /\ j \in i..n /\ j \in 1..n BY <1>1, <2>0, <2>1
    <3> QED BY <1>1, <3>1 DEF BaselinesLinear
  <2>2. CASE i = n + 1
    <3>1. j = n + 1 BY <1>1, <2>0, <2>2
    <3> QED BY <1>1, <2>2, <3>1, PrefixRefl DEF Trees
  <2>3. CASE i <= n /\ j = n + 1
    <3>1. i \in since..n /\ i \in 1..n /\ n \in i..n /\ n \in 1..n BY <1>1, <2>0, <2>3
    <3>2. IsPrefix(bases[i], bases[n]) BY <3>1 DEF BaselinesLinear
    <3>3. since <= n BY <1>1, <2>0, <2>3
    <3>4. IsPrefix(bases[n], t) BY <3>3 DEF Last
    <3>5. bases[i] \in Seq(Nat) /\ bases[n] \in Seq(Nat) /\ t \in Seq(Nat) BY <1>1, <3>1 DEF Trees
    <3>6. IsPrefix(bases[i], t) BY <3>2, <3>4, <3>5, PrefixTrans
    <3>7. bases'[i] = bases[i] /\ bases'[j] = t BY <1>1, <2>3, <3>1
    <3> QED BY <3>6, <3>7
  <2> QED BY <1>1, <2>0, <2>1, <2>2, <2>3
<1> QED BY <1>2 DEF BaselinesLinear

\* A green run keeps LinearInv: the new state stands for the tree just accepted.
LEMMA GreenLinear ==
  ASSUME LinearInv, TypeOK', Green
  PROVE  LinearInv'
<1>1. bases \in Seq(Trees) /\ leaves \in Trees /\ since \in Nat \ {0} /\ since' = since BY DEF LinearInv, TypeOK, Green
<1>2. Last(bases') = leaves
  <2>1. CASE since <= Len(bases) /\ Last(bases) = leaves BY <2>1 DEF Green
  <2>2. CASE ~ (since <= Len(bases) /\ Last(bases) = leaves)
    <3>1. bases' = Append(bases, leaves) BY <2>2 DEF Green
    <3> QED BY <1>1, <3>1, AppendProperties, LenProperties DEF Last
  <2> QED BY <2>1, <2>2
<1>3. BaselinesLinear'
  <2>1. CASE bases' = bases BY <1>1, <2>1 DEF LinearInv, BaselinesLinear
  <2>2. CASE bases' = Append(bases, leaves) BY <1>1, <2>2, GreenExtends, AppendLinear DEF LinearInv
  <2> QED BY <2>1, <2>2 DEF Green
<1>4. Grounded(state)'
  <2>1. state' = [root |-> leaves, ts |-> now, sth |-> NewSth, key |-> NewSth.key] /\ mode' = mode
    BY DEF Green, disk
  <2>2. state'.root = leaves /\ state'.ts = now /\ state'.sth = NewSth BY <2>1
  <2>3. state' # NoState BY <2>2, MonitorConstants DEF LinearInv, TypeOK, NoState
  <2>4. state'.sth.key = "log" => state'.sth.tree = leaves BY <2>2, NewSthSigned DEF NoSth
  <2> QED BY <1>2, <2>1, <2>2, <2>3, <2>4 DEF Grounded
<1>5. pc' = "idle" BY DEF Green, Over
<1> QED BY <1>3, <1>4, <1>5 DEF LinearInv

\* Every step keeps LinearInv.
LEMMA LinearStep == LinearInv /\ [Next]_vars => LinearInv'
<1> SUFFICES ASSUME LinearInv, [Next]_vars PROVE LinearInv'
  OBVIOUS
<1>0. TypeOK' BY TypeStep DEF LinearInv
<1>1. ASSUME UNCHANGED <<mode, bases, since>>, Grounded(state'), pc' = "decide" => Grounded(prev') PROVE LinearInv'
  BY <1>0, <1>1 DEF LinearInv, BaselinesLinear, Grounded
<1>2. ASSUME UNCHANGED <<mode, state, bases, since>>, pc' # "decide" \/ UNCHANGED <<pc, prev>> PROVE LinearInv'
  BY <1>1, <1>2 DEF LinearInv
<1>3. CASE BeginAppend BY <1>2, <1>3 DEF BeginAppend, local
<1>4. CASE EndAppend BY <1>2, <1>4 DEF EndAppend, local
<1>5. CASE Publish BY <1>2, <1>5 DEF Publish, local
<1>6. CASE TamperLedger BY <1>2, <1>6 DEF TamperLedger, local
<1>7. CASE EditState
  <2>1. PICK st : /\ state' = st
                  /\ since' = IF Replaces(st) THEN Len(bases) + 1 ELSE since
    BY <1>7 DEF EditState
  <2>2. UNCHANGED <<mode, bases, pc, prev>> /\ Len(bases) \in Nat
    BY <1>7, LenProperties DEF EditState, disk, local, LinearInv, TypeOK
  <2>3. CASE Replaces(st)
    <3>1. since' = Len(bases) + 1 BY <2>1, <2>3
    <3> QED BY <1>0, <2>2, <3>1 DEF LinearInv, BaselinesLinear, Grounded
  <2>4. CASE ~ Replaces(st)
    <3>1. mode # "none" /\ st # NoState /\ (st.sth.key = "log" => st.sth = state.sth) BY <2>4 DEF Replaces
    <3>2. since' = since BY <2>1, <2>4
    <3>3. Grounded(st) BY <3>1 DEF LinearInv, Grounded
    <3> QED BY <1>1, <2>1, <2>2, <3>2, <3>3 DEF LinearInv
  <2> QED BY <2>3, <2>4
<1>8. CASE Tick BY <1>2, <1>8 DEF Tick, disk, local
<1>9. CASE Snapshot BY <1>2, <1>9 DEF Snapshot, disk
<1>10. CASE ReadLeaves BY <1>2, <1>10 DEF ReadLeaves, Over, disk
<1>11. CASE LoadState BY <1>1, <1>11 DEF LoadState, disk, LinearInv
<1>12. CASE Red BY <1>2, <1>12 DEF Red, Over, disk
<1>13. CASE Green BY <1>0, <1>13, GreenLinear
<1>14. CASE GreenStay BY <1>2, <1>14 DEF GreenStay, Over, disk
<1>15. CASE Kill BY <1>2, <1>15 DEF Kill, Over, disk
<1>16. CASE UNCHANGED vars BY <1>2, <1>16 DEF vars, disk, local
<1> QED BY <1>3, <1>4, <1>5, <1>6, <1>7, <1>8, <1>9, <1>10, <1>11, <1>12, <1>13, <1>14, <1>15, <1>16 DEF Next, Run

\* LinearInv holds at the start.
LEMMA LinearInit == Init => LinearInv
<1> SUFFICES ASSUME Init PROVE LinearInv
  OBVIOUS
<1>1. TypeOK BY TypeInit
<1>2. BaselinesLinear BY DEF Init, BaselinesLinear
<1>3. Grounded(state) BY DEF Init, Grounded
<1> QED BY <1>1, <1>2, <1>3 DEF Init, LinearInv

\* BaselinesLinear: the trees accepted since the baseline was last replaced are one
\* growing tree, whatever happens to the ledger at any moment and, under a key, to
\* the size, root and time in the state file and to a head the log key did not sign.
THEOREM Linear == Spec => []BaselinesLinear
<1>1. LinearInv => BaselinesLinear BY DEF LinearInv
<1> QED BY <1>1, LinearInit, LinearStep, PTL DEF Spec

\* Under a key, a run that writes the state leaves a head signed by the log key
\* for exactly the tree of the state ("NEVER writes an unsigned state").
THEOREM Signed == Spec => StateIsSigned
<1>1. ASSUME LinearInv, [Next]_vars
      PROVE  [state' # state /\ tampers' = tampers /\ mode # "none" =>
                state'.sth = [tree |-> state'.root, key |-> "log"]]_vars
  <2> SUFFICES ASSUME Next, state' # state, tampers' = tampers, mode # "none"
               PROVE  state'.sth = [tree |-> state'.root, key |-> "log"]
    BY <1>1
  <2>1. Green
    <3>1. ~ EditState BY <1>1 DEF EditState, LinearInv, TypeOK
    <3> QED BY <3>1 DEF Next, Run, BeginAppend, EndAppend, Publish, TamperLedger, Tick, Snapshot, ReadLeaves,
                        LoadState, Red, GreenStay, Kill
  <2>2. state'.sth = NewSth /\ state'.root = leaves BY <2>1 DEF Green
  <2>3. NewSth # NoSth
    <3>1. CASE mode = "auditor" BY <2>1, <3>1 DEF Green
    <3>2. CASE mode = "writer" BY <3>2, NewSthCases DEF NoSth
    <3> QED BY <1>1, <3>1, <3>2, MonitorConstants DEF LinearInv, TypeOK
  <2>4. NewSth \in Sths BY <1>1, NewSthType DEF LinearInv
  <2> QED BY <2>1, <2>2, <2>3, <2>4, NewSthSigned DEF Sths
<1> QED BY <1>1, LinearInit, LinearStep, PTL DEF Spec, StateIsSigned

-----------------------------------------------------------------------------
(***************************************************************************)
(* ProofWalk: the proofs a head is accepted by                             *)
(***************************************************************************)

\* A hash is a finite sequence of leaves.
LEMMA HashLen ==
  ASSUME NEW h \in Hashes
  PROVE  /\ Len(h) \in Nat
         /\ \A i \in 1..Len(h) : h[i] \in [data : Nat, depth : Nat]
<1> DEFINE R == [data : Nat, depth : Nat]
<1>1. h \in Seq(R) BY DEF Hashes
<1> HIDE DEF R
<1>2. Len(h) \in Nat /\ \A i \in 1..Len(h) : h[i] \in R BY <1>1, LenProperties, ElementOfSeq
<1> QED BY <1>2 DEF R

\* One level further down, a hash has the same leaves.
LEMMA BelowLeaves ==
  ASSUME NEW s \in Hashes
  PROVE  /\ Below(s) \in Hashes
         /\ Len(Below(s)) = Len(s)
         /\ \A i \in 1..Len(s) : Below(s)[i].data = s[i].data
<1> DEFINE R == [data : Nat, depth : Nat]
<1>1. PICK n \in Nat : n = Len(s) BY HashLen
<1>2. \A i \in 1..n : s[i] \in R BY <1>1, HashLen
<1>3. \A i \in 1..n : [data |-> s[i].data, depth |-> s[i].depth + 1] \in R
  <2> TAKE i \in 1..n
  <2>1. s[i].data \in Nat /\ s[i].depth \in Nat BY <1>2
  <2>2. s[i].depth + 1 \in Nat BY <2>1
  <2> QED BY <2>1, <2>2
<1>4. Below(s) = [i \in 1..n |-> [data |-> s[i].data, depth |-> s[i].depth + 1]] BY <1>1 DEF Below
<1>5. \A i \in 1..n : Below(s)[i].data = s[i].data BY <1>4
<1>6. Below(s) \in [1..n -> R] BY <1>3, <1>4
<1> HIDE DEF R
<1>7. Below(s) \in Seq(R) BY <1>6, SeqDef
<1>8. Len(Below(s)) = n BY <1>6, <1>7, LenProperties
<1> QED BY <1>1, <1>5, <1>7, <1>8 DEF Hashes, R

\* A node's leaves are those of its children, in order, one level further down.
LEMMA NodeLeaves ==
  ASSUME NEW g \in Hashes, NEW h \in Hashes
  PROVE  /\ node_hash(g, h) \in Hashes
         /\ Len(node_hash(g, h)) = Len(g) + Len(h)
         /\ \A i \in 1..Len(g) : node_hash(g, h)[i].data = g[i].data
         /\ \A i \in 1..Len(h) : node_hash(g, h)[Len(g) + i].data = h[i].data
<1> DEFINE R == [data : Nat, depth : Nat]
<1>1. PICK bg : bg = Below(g) OBVIOUS
<1>2. PICK bh : bh = Below(h) OBVIOUS
<1>3. Hashes = Seq(R) BY DEF Hashes
<1> HIDE DEF R
<1>4. /\ bg \in Seq(R) /\ Len(bg) = Len(g) /\ Len(g) \in Nat
      /\ bh \in Seq(R) /\ Len(bh) = Len(h) /\ Len(h) \in Nat
  BY <1>1, <1>2, <1>3, BelowLeaves, HashLen
<1>5. /\ bg \o bh \in Seq(R) /\ Len(bg \o bh) = Len(bg) + Len(bh)
      /\ \A i \in 1..Len(bg) + Len(bh) :
           (bg \o bh)[i] = IF i <= Len(bg) THEN bg[i] ELSE bh[i - Len(bg)]
  BY <1>4, ConcatProperties
<1>6. node_hash(g, h) = bg \o bh BY <1>1, <1>2 DEF node_hash
<1>7. ASSUME NEW i \in 1..Len(g) PROVE node_hash(g, h)[i].data = g[i].data
  <2>1. i \in 1..Len(bg) + Len(bh) /\ i <= Len(bg) BY <1>4
  <2>2. node_hash(g, h)[i] = bg[i] BY <1>5, <1>6, <2>1
  <2> QED BY <1>1, <2>2, BelowLeaves
<1>8. ASSUME NEW i \in 1..Len(h) PROVE node_hash(g, h)[Len(g) + i].data = h[i].data
  <2>1. /\ Len(g) + i \in 1..Len(bg) + Len(bh) /\ ~(Len(g) + i <= Len(bg))
        /\ (Len(g) + i) - Len(bg) = i
    BY <1>4
  <2>2. node_hash(g, h)[Len(g) + i] = bh[i] BY <1>5, <1>6, <2>1
  <2> QED BY <1>2, <2>2, BelowLeaves
<1> QED BY <1>3, <1>4, <1>5, <1>6, <1>7, <1>8

\* Data in terms of the leaves.
LEMMA DataLeaves ==
  ASSUME NEW h \in Hashes
  PROVE  Len(Data(h)) = Len(h) /\ \A i \in 1..Len(h) : Data(h)[i] = h[i].data
<1>1. PICK n \in Nat : n = Len(h) BY HashLen
<1>2. \A i \in 1..n : h[i].data \in Nat BY <1>1, HashLen
<1>3. Data(h) = [i \in 1..n |-> h[i].data] BY <1>1 DEF Data
<1>4. Data(h) \in [1..n -> Nat] BY <1>2, <1>3
<1>5. Data(h) \in Seq(Nat) BY <1>4, SeqDef
<1>6. Len(Data(h)) = n BY <1>4, <1>5, LenProperties
<1> QED BY <1>1, <1>3, <1>6

\* One hash's data begins another's.
LEMMA DataPrefix ==
  ASSUME NEW g \in Hashes, NEW h \in Hashes
  PROVE  IsPrefixOf(Data(g), Data(h)) <=>
           Len(g) <= Len(h) /\ \A i \in 1..Len(g) : g[i].data = h[i].data
<1>1. Len(g) \in Nat /\ Len(h) \in Nat BY HashLen
<1>2. /\ Len(Data(g)) = Len(g) /\ \A i \in 1..Len(g) : Data(g)[i] = g[i].data
      /\ Len(Data(h)) = Len(h) /\ \A i \in 1..Len(h) : Data(h)[i] = h[i].data
  BY DataLeaves
<1>3. ASSUME Len(g) <= Len(h), NEW i \in 1..Len(g) PROVE i \in 1..Len(h) BY <1>1, <1>3
<1> QED BY <1>2, <1>3 DEF IsPrefixOf

\* The same hash put to the left of both.
LEMMA PrefixLeft ==
  ASSUME NEW c \in Hashes, NEW g \in Hashes, NEW h \in Hashes, IsPrefixOf(Data(g), Data(h))
  PROVE  IsPrefixOf(Data(node_hash(c, g)), Data(node_hash(c, h)))
<1> DEFINE cg == node_hash(c, g)
           ch == node_hash(c, h)
<1>1. /\ cg \in Hashes /\ Len(cg) = Len(c) + Len(g)
      /\ ch \in Hashes /\ Len(ch) = Len(c) + Len(h)
      /\ Len(c) \in Nat /\ Len(g) \in Nat /\ Len(h) \in Nat
  BY NodeLeaves, HashLen
<1>2. Len(g) <= Len(h) /\ \A i \in 1..Len(g) : g[i].data = h[i].data BY DataPrefix
<1>3. ASSUME NEW i \in 1..Len(cg) PROVE cg[i].data = ch[i].data
  <2>1. CASE i \in 1..Len(c) BY <2>1, NodeLeaves
  <2>2. CASE i \notin 1..Len(c)
    <3>1. PICK k \in 1..Len(g) : i = Len(c) + k
      <4>1. i - Len(c) \in 1..Len(g) /\ i = Len(c) + (i - Len(c)) BY <1>1, <2>2
      <4> QED BY <4>1
    <3>2. cg[i].data = g[k].data BY <3>1, NodeLeaves
    <3>3. k \in 1..Len(h) BY <1>1, <1>2, <3>1
    <3>4. ch[i].data = h[k].data BY <3>1, <3>3, NodeLeaves
    <3> QED BY <1>2, <3>1, <3>2, <3>4
  <2> QED BY <2>1, <2>2
<1>4. Len(cg) <= Len(ch) BY <1>1, <1>2
<1> HIDE DEF cg, ch
<1>5. IsPrefixOf(Data(cg), Data(ch)) BY <1>1, <1>3, <1>4, DataPrefix
<1> QED BY <1>5 DEF cg, ch

\* A hash put to the right of the longer one.
LEMMA PrefixRight ==
  ASSUME NEW c \in Hashes, NEW g \in Hashes, NEW h \in Hashes, IsPrefixOf(Data(g), Data(h))
  PROVE  IsPrefixOf(Data(g), Data(node_hash(h, c)))
<1> DEFINE hc == node_hash(h, c)
<1>1. /\ hc \in Hashes /\ Len(hc) = Len(h) + Len(c)
      /\ Len(c) \in Nat /\ Len(g) \in Nat /\ Len(h) \in Nat
  BY NodeLeaves, HashLen
<1>2. Len(g) <= Len(h) /\ \A i \in 1..Len(g) : g[i].data = h[i].data BY DataPrefix
<1>3. \A i \in 1..Len(h) : hc[i].data = h[i].data BY NodeLeaves
<1> HIDE DEF hc
<1>4. Len(g) <= Len(hc) /\ \A i \in 1..Len(g) : g[i].data = hc[i].data BY <1>1, <1>2, <1>3
<1>5. IsPrefixOf(Data(g), Data(hc)) BY <1>1, <1>4, DataPrefix
<1> QED BY <1>5 DEF hc

\* What is within a node's child is within the node.
LEMMA WithinNode ==
  ASSUME NEW a \in Hashes, NEW c \in Hashes, NEW h \in Hashes, Within(a, h)
  PROVE  Within(a, node_hash(c, h)) /\ Within(a, node_hash(h, c))
<1>1. PICK i \in 0..Len(h) - Len(a) : \A k \in 1..Len(a) : h[i + k].data = a[k].data
  BY DEF Within
<1>2. Len(a) \in Nat /\ Len(c) \in Nat /\ Len(h) \in Nat BY HashLen
<1>3. \A k \in 1..Len(a) : i + k \in 1..Len(h) BY <1>2
<1>4. Within(a, node_hash(c, h))
  <2>1. Len(node_hash(c, h)) = Len(c) + Len(h) BY NodeLeaves
  <2>2. Len(c) + i \in 0..Len(node_hash(c, h)) - Len(a) BY <1>2, <2>1
  <2>3. ASSUME NEW k \in 1..Len(a) PROVE node_hash(c, h)[(Len(c) + i) + k].data = a[k].data
    <3>1. node_hash(c, h)[Len(c) + (i + k)].data = h[i + k].data BY <1>3, NodeLeaves
    <3>2. Len(c) + (i + k) = (Len(c) + i) + k BY <1>2
    <3> QED BY <3>1, <3>2, <1>1
  <2> QED BY <2>2, <2>3 DEF Within
<1>5. Within(a, node_hash(h, c))
  <2>1. Len(node_hash(h, c)) = Len(h) + Len(c) BY NodeLeaves
  <2>2. i \in 0..Len(node_hash(h, c)) - Len(a) BY <1>2, <2>1
  <2>3. ASSUME NEW k \in 1..Len(a) PROVE node_hash(h, c)[i + k].data = a[k].data
    BY <1>1, <1>3, NodeLeaves
  <2> QED BY <2>2, <2>3 DEF Within
<1> QED BY <1>4, <1>5

-----------------------------------------------------------------------------
(* The loop *)

\* While a path is read, the old root rebuilt so far is a prefix of the new one,
\* and the reader's leaf is within the root rebuilt so far.
WalkInv ==
  /\ at # "done" => ~ok
  /\ at \in {"skip", "next", "climb"} /\ job.verifier \in Consistency => IsPrefixOf(Data(fr), Data(sr))
  /\ at \in {"skip", "next", "climb"} /\ job.verifier \in Inclusion => Within(job.mine, sr)

Inv == WalkTypeOK /\ WalkInv /\ AcceptedIsPrefix /\ AcceptedIsIncluded

\* A hash is a prefix of itself and within itself.
LEMMA Itself ==
  ASSUME NEW h \in Hashes PROVE IsPrefixOf(Data(h), Data(h)) /\ Within(h, h)
<1>2. Len(h) \in Nat BY HashLen
<1>1. IsPrefixOf(Data(h), Data(h)) BY <1>2, DataPrefix
<1>3. 0 \in 0..Len(h) - Len(h) /\ \A k \in 1..Len(h) : h[0 + k].data = h[k].data BY <1>2
<1> QED BY <1>1, <1>3 DEF Within

\* A call before its loop satisfies the invariant.
LEMMA WalkStarts == WalkInit => Inv
<1> SUFFICES ASSUME WalkInit PROVE Inv OBVIOUS
<1>1. job \in Calls BY JobsAreCalls DEF WalkInit
<1>2. << >> \in Hashes /\ << >> \in Seq(Hashes) BY DEF Hashes
<1>3. at = "start" /\ ~ok BY DEF WalkInit
<1>4. WalkTypeOK
  <2>1. at = "start" /\ fn = 0 /\ sn = 0 /\ ok \in BOOLEAN BY Zenon DEF WalkInit
  <2>2. rest = << >> /\ fr = << >> /\ sr = << >> BY DEF WalkInit
  <2>3. rest \in Seq(Hashes) /\ fr \in Hashes /\ sr \in Hashes BY <1>2, <2>2, Zenon
  <2> QED BY <1>1, <2>1, <2>3 DEF WalkTypeOK
<1>5. WalkInv BY <1>3 DEF WalkInv
<1> QED BY <1>3, <1>4, <1>5 DEF Inv, AcceptedIsPrefix, AcceptedIsIncluded

\* The parts of a call.
LEMMA CallParts ==
  ASSUME job \in Calls
  PROVE  /\ job.m \in Int /\ job.n \in Int /\ job.path \in Seq(Hashes)
         /\ job.mine \in Hashes /\ job.root \in Hashes
         /\ ~(job.verifier \in Consistency /\ job.verifier \in Inclusion)
BY DEF Calls, Consistency, Inclusion

\* The early returns: refused, or equal roots.
LEMMA EarlyStep ==
  ASSUME Inv, Refuse \/ SameSize \/ TooLong
  PROVE  Inv'
<1>1. WalkTypeOK' BY DEF Inv, WalkTypeOK, Refuse, SameSize, TooLong, Done
<1>2. WalkInv' BY DEF Refuse, SameSize, TooLong, Done, WalkInv
<1>3. CASE Refuse \/ TooLong
  BY <1>1, <1>2, <1>3 DEF Inv, Refuse, TooLong, Done, AcceptedIsPrefix, AcceptedIsIncluded
<1>4. CASE SameSize
  <2>1. job.verifier \in Consistency /\ (ok' => job.mine = job.root) BY <1>4 DEF SameSize, Done
  <2>2. job.mine \in Hashes /\ job.verifier \notin Inclusion BY <2>1, CallParts DEF Inv, WalkTypeOK
  <2>3. AcceptedIsPrefix' /\ AcceptedIsIncluded'
    BY <1>4, <2>1, <2>2, Itself DEF SameSize, AcceptedIsPrefix, AcceptedIsIncluded
  <2> QED BY <1>1, <1>2, <2>3 DEF Inv
<1> QED BY <1>3, <1>4

\* A loop begins with one hash for both roots, or with the reader's leaf.
LEMMA BeginStep ==
  ASSUME Inv, BeginConsistency \/ BeginInclusion
  PROVE  Inv'
<1>1. /\ job.m \in Int /\ job.n \in Int /\ job.path \in Seq(Hashes) /\ job.mine \in Hashes
      /\ ~(job.verifier \in Consistency /\ job.verifier \in Inclusion) /\ ~ok
  BY CallParts DEF Inv, WalkTypeOK, WalkInv, BeginConsistency, BeginInclusion
<1>2. CASE BeginConsistency
  <2>1. PICK p : p = Nodes(job) OBVIOUS
  <2>2. p \in Seq(Hashes) BY <1>1, <2>1 DEF Nodes
  <2>3. CASE p = << >>
    BY <1>2, <2>1, <2>3 DEF BeginConsistency, Done, Inv, WalkTypeOK, WalkInv, AcceptedIsPrefix, AcceptedIsIncluded
  <2>4. CASE p # << >>
    <3>1. Head(p) \in Hashes /\ Tail(p) \in Seq(Hashes) BY <2>2, <2>4
    <3>2. /\ at' = "skip" /\ fn' = job.m - 1 /\ sn' = job.n - 1 /\ fr' = Head(p) /\ sr' = Head(p)
          /\ rest' = Tail(p) /\ UNCHANGED <<ok, job>>
      BY <1>2, <2>1, <2>4 DEF BeginConsistency
    <3>3. WalkTypeOK' BY <1>1, <3>1, <3>2 DEF Inv, WalkTypeOK
    <3>4. WalkInv' BY <1>1, <1>2, <3>1, <3>2, Itself DEF WalkInv, BeginConsistency
    <3> QED BY <1>1, <3>2, <3>3, <3>4 DEF Inv, AcceptedIsPrefix, AcceptedIsIncluded
  <2> QED BY <2>3, <2>4
<1>3. CASE BeginInclusion
  <2>1. WalkTypeOK' BY <1>1, <1>3 DEF BeginInclusion, Inv, WalkTypeOK
  <2>2. WalkInv' BY <1>1, <1>3, Itself DEF BeginInclusion, WalkInv
  <2> QED BY <1>1, <1>3, <2>1, <2>2 DEF BeginInclusion, Inv, AcceptedIsPrefix, AcceptedIsIncluded
<1> QED BY <1>2, <1>3

\* The inner loops only move the positions.
LEMMA ShiftStep ==
  ASSUME Inv, Skip \/ Climb
  PROVE  Inv'
<1>1. Half(fn) \in Int /\ Half(sn) \in Int BY DEF Half, Inv, WalkTypeOK
<1>2. WalkTypeOK' BY <1>1 DEF Skip, Climb, Shift, Inv, WalkTypeOK
<1>3. WalkInv' BY DEF Skip, Climb, Inv, WalkInv
<1> QED BY <1>2, <1>3 DEF Skip, Climb, Inv, AcceptedIsPrefix, AcceptedIsIncluded

\* One element of the path, to the left of both roots or to the right of the new one.
LEMMA JoinStep ==
  ASSUME Inv, JoinLeft \/ JoinRight
  PROVE  Inv'
<1> DEFINE c == Head(rest)
<1>1. /\ c \in Hashes /\ Tail(rest) \in Seq(Hashes) /\ fr \in Hashes /\ sr \in Hashes /\ ~ok
      /\ job.mine \in Hashes /\ ~(job.verifier \in Consistency /\ job.verifier \in Inclusion)
      /\ at = "next"
  BY CallParts DEF Inv, WalkTypeOK, WalkInv, JoinLeft, JoinRight, Reads
<1>2. Half(fn) \in Int /\ Half(sn) \in Int BY DEF Half, Inv, WalkTypeOK
<1>3. /\ node_hash(c, fr) \in Hashes /\ node_hash(c, sr) \in Hashes /\ node_hash(sr, c) \in Hashes
  BY <1>1, NodeLeaves
<1>4. /\ job.verifier \in Consistency => IsPrefixOf(Data(fr), Data(sr))
      /\ job.verifier \in Inclusion => Within(job.mine, sr)
  BY <1>1 DEF Inv, WalkInv
<1>5. CASE JoinLeft
  <2>1. /\ fr' = IF job.verifier \in Inclusion THEN fr ELSE node_hash(c, fr)
        /\ sr' = node_hash(c, sr) /\ rest' = Tail(rest) /\ at' = "climb"
        /\ UNCHANGED <<job, fn, sn, ok>>
    BY <1>5 DEF JoinLeft, Reads
  <2> HIDE DEF c
  <2>2. WalkTypeOK' BY <1>1, <1>3, <2>1 DEF Inv, WalkTypeOK
  <2>3. job.verifier \in Consistency => IsPrefixOf(Data(fr'), Data(sr'))
    BY <1>1, <1>4, <2>1, PrefixLeft
  <2>4. job.verifier \in Inclusion => Within(job.mine, sr') BY <1>1, <1>4, <2>1, WithinNode
  <2>5. WalkInv' BY <1>1, <2>1, <2>3, <2>4 DEF WalkInv
  <2> QED BY <1>1, <2>1, <2>2, <2>5 DEF Inv, AcceptedIsPrefix, AcceptedIsIncluded
<1>6. CASE JoinRight
  <2>1. /\ sr' = node_hash(sr, c) /\ rest' = Tail(rest) /\ fn' = Half(fn) /\ sn' = Half(sn)
        /\ UNCHANGED <<job, at, fr, ok>>
    BY <1>6 DEF JoinRight, Reads, Shift
  <2> HIDE DEF c
  <2>2. WalkTypeOK' BY <1>1, <1>2, <1>3, <2>1 DEF Inv, WalkTypeOK
  <2>3. job.verifier \in Consistency => IsPrefixOf(Data(fr'), Data(sr'))
    BY <1>1, <1>4, <2>1, PrefixRight
  <2>4. job.verifier \in Inclusion => Within(job.mine, sr') BY <1>1, <1>4, <2>1, WithinNode
  <2>5. WalkInv' BY <1>1, <2>1, <2>3, <2>4 DEF WalkInv
  <2> QED BY <1>1, <2>1, <2>2, <2>5 DEF Inv, AcceptedIsPrefix, AcceptedIsIncluded
<1> QED BY <1>5, <1>6

\* The comparison at the end turns what was rebuilt into what was signed.
LEMMA FinishStep ==
  ASSUME Inv, Finish
  PROVE  Inv'
<1>1. WalkTypeOK' BY DEF Finish, Done, Inv, WalkTypeOK
<1>2. WalkInv' BY DEF Finish, Done, WalkInv
<1>3. /\ ok' => sr = job.root /\ (job.verifier \in Consistency => fr = job.mine)
      /\ at = "next" /\ UNCHANGED job
  BY DEF Finish, Done
<1>4. /\ job.verifier \in Consistency => IsPrefixOf(Data(fr), Data(sr))
      /\ job.verifier \in Inclusion => Within(job.mine, sr)
  BY <1>3 DEF Inv, WalkInv
<1>5. AcceptedIsPrefix' /\ AcceptedIsIncluded'
  BY <1>3, <1>4 DEF AcceptedIsPrefix, AcceptedIsIncluded
<1> QED BY <1>1, <1>2, <1>5 DEF Inv

\* Every step of every verifier keeps the invariant.
LEMMA WalkStep == Inv /\ [WalkNext]_walkVars => Inv'
<1> SUFFICES ASSUME Inv, [WalkNext]_walkVars PROVE Inv' OBVIOUS
<1>1. CASE UNCHANGED walkVars
  BY <1>1 DEF walkVars, Inv, WalkTypeOK, WalkInv, AcceptedIsPrefix, AcceptedIsIncluded
<1> QED BY <1>1, EarlyStep, BeginStep, ShiftStep, JoinStep, FinishStep DEF WalkNext

\* AcceptedIsPrefix: for roots, paths and claimed sizes of any length, negative
\* ones included, a consistency proof that any of the verifiers accepts shows
\* that the old root's leaves are a prefix of the new root's.
THEOREM ConsistencySound == WalkSpec => []AcceptedIsPrefix
<1>1. Inv => AcceptedIsPrefix BY DEF Inv
<1> QED BY <1>1, WalkStarts, WalkStep, PTL DEF WalkSpec

\* AcceptedIsIncluded: an inclusion proof that is accepted shows that the leaf
\* the reader holds is under the signed root.
THEOREM InclusionSound == WalkSpec => []AcceptedIsIncluded
<1>1. Inv => AcceptedIsIncluded BY DEF Inv
<1> QED BY <1>1, WalkStarts, WalkStep, PTL DEF WalkSpec

=============================================================================
