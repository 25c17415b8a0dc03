----------------------------- MODULE PackProofs -----------------------------
(***************************************************************************)
(* Proofs about the documents that leave the operator. Pack, for every set *)
(* of ledgers and keys and any number of appends, rotations, kills, builds *)
(* and edits: the types, what sign_ledger leaves on disk, which packs      *)
(* verify under the operator's key, and which ledgers are said to be       *)
(* protected. Acta, for any clock, any number of receipts and chains of    *)
(* any length: the keys that texts are compared by order the instants the  *)
(* texts write, a chain that passes is what the issuer wrote, a chain      *)
(* nobody edited passes, and what the relying party lacks never makes a    *)
(* finding.                                                                *)
(***************************************************************************)
EXTENDS Pack, Acta, PartsProofs

-----------------------------------------------------------------------------
(***************************************************************************)
(* Pack: ledgers and evidence packs                                        *)
(***************************************************************************)
-----------------------------------------------------------------------------
(* What the operator's entries and ledgers are.                            *)

\* Entries of a ledger that no key has signed yet.
Unsigned ==
  {e \in [prev : Seq(Names), data : Names, self : Seq(Names),
          sig : {NoSig}, signer : {None}, pqsig : {NoSig}, pqsigner : {None}] : ContentOk(e)}

\* The same, signed with these two keys (pq = None: with the first only).
SignedWith(ed, pq) == {Signed(e, ed, pq) : e \in Unsigned}

\* The ledgers sign_ledger writes: one pair of keys for all the entries.
OwnLedgers == UNION {Seq(SignedWith(ed, pq)) \ {<< >>} : ed \in EdKeys, pq \in PqKeys \cup {None}}

\* A ledger signed with one pair of the operator's keys is one of them.
LEMMA OwnIntro ==
  ASSUME NEW ed \in EdKeys, NEW pq \in PqKeys \cup {None}, NEW l \in Seq(SignedWith(ed, pq)), l # << >>
  PROVE  l \in OwnLedgers
<1> DEFINE S == Seq(SignedWith(ed, pq)) \ {<< >>}
<1>1. l \in S OBVIOUS
<1>2. S \in {Seq(SignedWith(e, q)) \ {<< >>} : e \in EdKeys, q \in PqKeys \cup {None}} OBVIOUS
<1> HIDE DEF S
<1> QED BY <1>1, <1>2 DEF OwnLedgers

\* The keys are neither the placeholders nor a key of small order.
LEMMA RealKeys ==
  /\ \A k \in EdKeys : k \notin {"op", "eve", None, WeakKey}
  /\ \A k \in PqKeys : k # None
BY PackConstants

\* The tuples that stand for signatures differ as their lengths do.
LEMMA SigTuples ==
  ASSUME NEW k, NEW h
  PROVE  <<k, h>> # NoSig /\ <<k, h>> # BadSig /\ <<k, h>>[1] = k /\ <<k, h>>[2] = h
<1>1. Len(<<k, h>>) = 2 /\ Len(NoSig) = 0 /\ Len(BadSig) = 1 BY DEF NoSig, BadSig
<1> QED BY <1>1

\* _verify_pq and the classical check read these fields of a signed entry.
LEMMA SignedFields ==
  ASSUME NEW ed, NEW pq, NEW e \in SignedWith(ed, pq)
  PROVE  /\ ContentOk(e) /\ e.sig = <<ed, e.self>> /\ e.signer = ed
         /\ e.pqsig = (IF pq = None THEN NoSig ELSE <<pq, e.self>>) /\ e.pqsigner = pq
BY DEF SignedWith, Unsigned, Signed, ContentOk

\* An entry under the chosen data is what its hash commits to.
LEMMA ChainUnsigned ==
  ASSUME NEW d \in Seq(Names)
  PROVE  Chain(d) \in Seq(Unsigned) /\ Len(Chain(d)) = Len(d)
<1> DEFINE E(i) == [prev |-> SubSeq(d, 1, i - 1), data |-> d[i], self |-> SubSeq(d, 1, i),
                    sig |-> NoSig, signer |-> None, pqsig |-> NoSig, pqsigner |-> None]
<1>1. ASSUME NEW i \in 1..Len(d) PROVE E(i) \in Unsigned
  <2>1. SubSeq(d, 1, i - 1) \in Seq(Names) /\ SubSeq(d, 1, i) \in Seq(Names) /\ d[i] \in Names
    BY ElementOfSeq, SubSeqProperties
  <2>2. SubSeq(d, 1, i) = SubSeq(d, 1, i - 1) \o <<d[i]>> BY SubSeqRecursiveSecond
  <2>3. Append(SubSeq(d, 1, i - 1), d[i]) = SubSeq(d, 1, i - 1) \o <<d[i]>> BY <2>1, AppendIsConcat
  <2>4. ContentOk(E(i)) BY <2>2, <2>3 DEF ContentOk
  <2> QED BY <2>1, <2>4 DEF Unsigned
<1>2. Chain(d) = [i \in 1..Len(d) |-> E(i)] BY DEF Chain
<1> HIDE DEF E
<1>3. Len(d) \in Nat OBVIOUS
<1>4. [i \in 1..Len(d) |-> E(i)] \in Seq(Unsigned) BY <1>1, <1>3
<1>5. Len([i \in 1..Len(d) |-> E(i)]) = Len(d) BY <1>3
<1> QED BY <1>2, <1>4, <1>5

-----------------------------------------------------------------------------
(* The verdicts of Signatures.                                             *)

\* verify_ledger_signatures, one entry: what "ok" says of the Ed25519 fields.
LEMMA EdOkSays ==
  ASSUME NEW e, NEW opt, EdOutcome(e, opt) = "ok"
  PROVE  /\ e.sig = <<e.signer, e.self>> /\ e.signer # None
         /\ opt.ed # None => e.signer = opt.ed
BY DEF EdOutcome, EdVerifies, StrictProblem

\* What "ok" says of the ML-DSA fields.
LEMMA PqOkSays ==
  ASSUME NEW e, NEW opt, PqOutcome(e, opt) = "ok"
  PROVE  /\ e.pqsig = <<e.pqsigner, e.self>>
         /\ opt.pq # None => e.pqsigner = opt.pq
BY DEF PqOutcome

\* An entry of the operator is in order under its own keys.
LEMMA OwnEntryOk ==
  ASSUME NEW ed \in EdKeys, NEW pq \in PqKeys \cup {None}, NEW e \in SignedWith(ed, pq)
  PROVE  /\ EdOutcome(e, Opt(ed, pq, TRUE)) = "ok"
         /\ PqOutcome(e, Opt(ed, pq, TRUE)) \notin PqFailures
<1> DEFINE o == Opt(ed, pq, TRUE)
<1>1. o.ed = ed /\ o.pq = pq /\ o.mldsa = TRUE BY DEF Opt
<1>2. ed # None /\ ed # WeakKey BY RealKeys
<1>3. /\ ContentOk(e) /\ e.sig = <<ed, e.self>> /\ e.signer = ed
      /\ e.pqsig = (IF pq = None THEN NoSig ELSE <<pq, e.self>>) /\ e.pqsigner = pq
  BY SignedFields
<1>4. e.sig # NoSig /\ e.sig # BadSig BY <1>3, SigTuples
<1> HIDE DEF o
<1>5. EdOutcome(e, o) = "ok" BY <1>1, <1>2, <1>3, <1>4 DEF EdOutcome, EdVerifies, StrictProblem
<1>6. PqOutcome(e, o) \notin PqFailures
  <2>1. CASE pq = None
    <3>0. e.pqsig = NoSig /\ e.pqsigner = None BY <1>3, <2>1
    <3>1. EdOutcome(e, o) \in ReachesPq /\ o.pq = None BY <1>1, <1>5, <2>1 DEF ReachesPq
    <3>2. PqOutcome(e, o) = "absent" BY <3>0, <3>1 DEF PqOutcome
    <3> QED BY <3>2 DEF PqFailures
  <2>2. CASE pq # None
    <3>1. e.pqsig # NoSig /\ e.pqsig # BadSig BY <1>3, <2>2, SigTuples
    <3>2. PqOutcome(e, o) = "ok" BY <1>1, <1>3, <1>5, <2>2, <3>1 DEF PqOutcome, ReachesPq
    <3> QED BY <3>2 DEF PqFailures
  <2> QED BY <2>1, <2>2
<1> QED BY <1>5, <1>6 DEF o

\* pq_protected is true only when every entry is in order under the pinned keys.
LEMMA ProtectedSays ==
  ASSUME NEW es, NEW opt, VerifySignatures(es, opt).pqp = "true"
  PROVE  /\ opt.pq # None
         /\ \A i \in 1..Len(es) : EdOutcome(es[i], opt) = "ok" /\ PqOutcome(es[i], opt) = "ok"
<1>1. PqProtected(PqStatus(es, opt)) = "true" BY DEF VerifySignatures
<1>2. PqStatus(es, opt) = "protected" BY <1>1 DEF PqProtected
<1>3. /\ {PqOutcome(es[i], opt) : i \in 1..Len(es)} = {"ok"}
      /\ \A i \in 1..Len(es) : EdOutcome(es[i], opt) = "ok"
      /\ opt.pq # None
  <2> DEFINE out == {PqOutcome(es[i], opt) : i \in 1..Len(es)}
             bad == \E i \in 1..Len(es) : EdOutcome(es[i], opt) # "ok"
  <2>1. PqStatus(es, opt) =
          IF out \cap PqFailures = {"pq_unverifiable"}    THEN "unverifiable"
          ELSE IF out \cap PqFailures = {"pq_missing"}    THEN "missing"
          ELSE IF out \cap PqFailures # {}                THEN "invalid"
          ELSE IF out \subseteq {"unreached", "absent"}   THEN "absent"
          ELSE IF ~opt.mldsa                              THEN "unverifiable"
          ELSE IF out # {"ok"}                            THEN "partial"
          ELSE IF bad                                     THEN "classical_broken"
          ELSE IF opt.pq = None                           THEN "unpinned"
          ELSE "protected"
    BY DEF PqStatus
  <2> HIDE DEF out, bad
  <2>2. out = {"ok"} /\ ~bad /\ opt.pq # None BY <1>2, <2>1
  <2> QED BY <2>2 DEF out, bad
<1> QED BY <1>3

\* The signers verify_ledger_signatures names for an operator's ledger are its keys.
LEMMA OwnSigners ==
  ASSUME NEW l \in OwnLedgers, NEW opt
  PROVE  /\ VerifySignatures(l, opt).signers \subseteq EdKeys
         /\ VerifySignatures(l, opt).pqsigners \subseteq PqKeys
<1>1. PICK ed \in EdKeys, pq \in PqKeys \cup {None} : l \in Seq(SignedWith(ed, pq)) BY DEF OwnLedgers
<1>2. \A i \in 1..Len(l) : l[i].signer = ed /\ l[i].pqsigner = pq /\ (pq = None => l[i].pqsig = NoSig)
  <2> TAKE i \in 1..Len(l)
  <2>1. l[i] \in SignedWith(ed, pq) BY <1>1, ElementOfSeq
  <2>2. /\ l[i].signer = ed /\ l[i].pqsigner = pq
        /\ l[i].pqsig = (IF pq = None THEN NoSig ELSE <<pq, l[i].self>>)
    BY <2>1, SignedFields
  <2> QED BY <2>2
<1>3. \A i \in 1..Len(l) : PqOutcome(l[i], opt) = "ok" => l[i].pqsigner \in PqKeys
  <2> SUFFICES ASSUME NEW i \in 1..Len(l), PqOutcome(l[i], opt) = "ok" PROVE l[i].pqsigner \in PqKeys
    OBVIOUS
  <2>1. l[i].pqsig = <<l[i].pqsigner, l[i].self>> BY PqOkSays
  <2>2. l[i].pqsig # NoSig BY <2>1, SigTuples
  <2> QED BY <1>2, <2>2
<1> QED BY <1>2, <1>3 DEF VerifySignatures

-----------------------------------------------------------------------------
(* The invariant.                                                          *)

Counters == {"append", "rotate", "kill", "edit", "sign", "build"}

\* The backends and the ledgers before they are signed.
InputsOK ==
  /\ key \in EdKeys /\ pqkey \in PqKeys
  /\ data \in [Names -> Seq(Names) \ {<< >>}]
  /\ used \in [Counters -> Nat]
  /\ used["kill"] <= MaxKills /\ used["build"] <= MaxBuilds

\* What sign_ledger wrote, and what the call under way has signed so far.
SigningOK ==
  /\ signed \in [Names -> OwnLedgers \cup {Absent}]
  /\ sg # Idle =>
       /\ sg = [pc |-> "sign", name |-> sg.name, cached |-> sg.cached, pqcached |-> sg.pqcached,
                ed |-> sg.ed, pq |-> sg.pq, todo |-> sg.todo, out |-> sg.out]
       /\ sg.name \in Names /\ sg.ed \in EdKeys /\ sg.pq \in PqKeys \cup {None}
       /\ sg.todo \in Seq(Unsigned) /\ sg.out \in Seq(SignedWith(sg.ed, sg.pq))
       /\ sg.todo # << >> \/ sg.out # << >>

\* A record of a ledger names keys of the operator only.
OwnKeys(meta) == meta.signers \subseteq EdKeys /\ meta.pqsigners \subseteq PqKeys

\* A build writes the operator's ledgers and has described all it is done with.
BuildOK ==
  bd # Idle =>
    /\ used["edit"] = 0
    /\ bd = [pc |-> bd.pc, todo |-> bd.todo, name |-> bd.name, signkey |-> bd.signkey,
             pins |-> bd.pins, files |-> bd.files, leds |-> bd.leds]
    /\ bd.pc \in {"copy", "describe"}
    /\ DOMAIN bd.files = Names /\ DOMAIN bd.leds = Names /\ bd.todo \subseteq Names
    /\ bd.pc = "describe" => bd.name \in Names
    /\ \A n \in Names \ bd.todo : (bd.pc = "describe" => n # bd.name) => OwnKeys(bd.leds[n])

\* Until the pack is edited its files are the operator's.
DirOK ==
  /\ DOMAIN dir = Names /\ dir = [n \in Names |-> dir[n]]
  /\ used["edit"] = 0 => \A n \in Names : dir[n] \in OwnLedgers \cup {Absent}

\* A signature with the operator's key is on a body a build signed.
ManOK ==
  man # NoMan =>
    /\ man = [there |-> TRUE, body |-> man.body, digest |-> man.digest, signer |-> man.signer,
              sig |-> man.sig, ts |-> man.ts, extra |-> man.extra]
    /\ DOMAIN man.body.files = Names
    /\ \A b : man.sig = <<"op", b>> => b \in issued

\* The bodies a build signed describe ledgers of the operator.
IssuedOK == \A b \in issued : \A n \in Names : OwnKeys(b.leds[n])

PackInv == InputsOK /\ SigningOK /\ BuildOK /\ DirOK /\ ManOK /\ IssuedOK

-----------------------------------------------------------------------------
(* The steps.                                                              *)

\* The invariant holds at the start.
LEMMA PackInit == Init => PackInv
<1> SUFFICES ASSUME Init PROVE PackInv OBVIOUS
<1>1. key \in EdKeys /\ pqkey \in PqKeys
  <2>1. (CHOOSE k \in EdKeys : TRUE) \in EdKeys BY PackConstants
  <2>2. (CHOOSE k \in PqKeys : TRUE) \in PqKeys BY PackConstants
  <2> QED BY <2>1, <2>2 DEF Init
<1>2. \A n \in Names : <<n>> \in Seq(Names) \ {<< >>} OBVIOUS
<1>3. InputsOK
  <2>1. data \in [Names -> Seq(Names) \ {<< >>}] BY <1>2 DEF Init
  <2>2. used \in [Counters -> Nat] /\ used["kill"] = 0 /\ used["build"] = 0 BY DEF Init, Counters
  <2>3. MaxKills \in Nat /\ MaxBuilds \in Nat BY PackConstants
  <2> QED BY <1>1, <2>1, <2>2, <2>3 DEF InputsOK
<1>4. SigningOK
  <2>1. sg = Idle BY DEF Init
  <2>2. ASSUME NEW n \in Names PROVE << Signed(Chain(<<n>>)[1], key, pqkey) >> \in OwnLedgers
    <3>1. Chain(<<n>>) \in Seq(Unsigned) /\ Len(Chain(<<n>>)) = 1 BY <1>2, ChainUnsigned
    <3>2. Chain(<<n>>)[1] \in Unsigned BY <3>1, ElementOfSeq
    <3>3. Signed(Chain(<<n>>)[1], key, pqkey) \in SignedWith(key, pqkey) BY <3>2 DEF SignedWith
    <3> HIDE DEF Signed, SignedWith
    <3>4. << Signed(Chain(<<n>>)[1], key, pqkey) >> \in Seq(SignedWith(key, pqkey)) \ {<< >>} BY <3>3
    <3> QED BY <1>1, <3>4, OwnIntro
  <2>3. signed \in [Names -> OwnLedgers \cup {Absent}] BY <2>2 DEF Init
  <2> QED BY <2>1, <2>3 DEF SigningOK
<1>5. bd = Idle /\ man = NoMan /\ issued = {} BY DEF Init
<1>6. DirOK BY DEF Init, DirOK
<1> QED BY <1>3, <1>4, <1>5, <1>6 DEF PackInv, BuildOK, ManOK, IssuedOK

\* Counting a step keeps the counters.
LEMMA Counted ==
  ASSUME InputsOK, NEW c \in Counters, Count(c)
  PROVE  /\ used' \in [Counters -> Nat]
         /\ used'[c] = used[c] + 1
         /\ \A k \in Counters : k # c => used'[k] = used[k]
BY DEF InputsOK, Count

\* Steps that leave both signing and building alone: new data, other keys.
LEMMA InputStep ==
  ASSUME PackInv, (\E n \in Live : AppendEntry(n)) \/ Rotate
  PROVE  PackInv'
<1>1. UNCHANGED <<signed, sg, dir, man, bd, issued>> BY DEF AppendEntry, Rotate
<1>2. PICK c \in {"append", "rotate"} : Count(c) BY DEF AppendEntry, Rotate
<1>3. /\ used' \in [Counters -> Nat] /\ used'["edit"] = used["edit"]
      /\ used'["kill"] = used["kill"] /\ used'["build"] = used["build"]
  BY <1>2, Counted DEF PackInv, Counters
<1>4. key' \in EdKeys /\ pqkey' \in PqKeys BY DEF PackInv, InputsOK, AppendEntry, Rotate
<1>5. data' \in [Names -> Seq(Names) \ {<< >>}]
  <2>1. CASE Rotate BY <2>1 DEF Rotate, PackInv, InputsOK
  <2>2. ASSUME NEW n \in Live, AppendEntry(n) PROVE data' \in [Names -> Seq(Names) \ {<< >>}]
    <3>1. n \in Names /\ data[n] \in Seq(Names) BY PackConstants DEF PackInv, InputsOK
    <3>2. Append(data[n], n) \in Seq(Names) \ {<< >>} BY <3>1, AppendProperties
    <3>3. data' = [data EXCEPT ![n] = Append(data[n], n)] BY <2>2 DEF AppendEntry
    <3> QED BY <3>2, <3>3 DEF PackInv, InputsOK
  <2> QED BY <2>1, <2>2
<1>6. InputsOK' BY <1>3, <1>4, <1>5 DEF PackInv, InputsOK
<1> QED BY <1>1, <1>3, <1>6 DEF PackInv, SigningOK, BuildOK, DirOK, ManOK, IssuedOK

\* sign_ledger starts: the keys it declares are the ones held now.
LEMMA SignStartStep ==
  ASSUME PackInv, NEW n \in Live, SignStart(n)
  PROVE  PackInv'
<1>1. UNCHANGED <<key, pqkey, data, signed, dir, man, bd, issued>> /\ Count("sign") BY DEF SignStart
<1>2. PICK ca \in BOOLEAN, pc \in BOOLEAN, pq \in {pqkey, None} :
        sg' = [pc |-> "sign", name |-> n, cached |-> ca, pqcached |-> pc,
               ed |-> key, pq |-> pq, todo |-> Chain(data[n]), out |-> << >>]
  BY DEF SignStart
<1>3. /\ used' \in [Counters -> Nat] /\ used'["edit"] = used["edit"]
      /\ used'["kill"] = used["kill"] /\ used'["build"] = used["build"]
  BY <1>1, Counted DEF PackInv, Counters
<1>4. n \in Names /\ data[n] \in Seq(Names) /\ data[n] # << >> /\ key \in EdKeys /\ pqkey \in PqKeys
  BY PackConstants DEF PackInv, InputsOK
<1>5. Chain(data[n]) \in Seq(Unsigned) /\ Chain(data[n]) # << >>
  <2>1. Chain(data[n]) \in Seq(Unsigned) /\ Len(Chain(data[n])) = Len(data[n]) BY <1>4, ChainUnsigned
  <2>2. Len(data[n]) \in Nat \ {0} BY <1>4, EmptySeq
  <2> QED BY <2>1, <2>2, EmptySeq
<1>6. SigningOK'
  <2>1. << >> \in Seq(SignedWith(key, pq)) BY EmptySeq
  <2> QED BY <1>1, <1>2, <1>4, <1>5, <2>1 DEF PackInv, SigningOK
<1>7. InputsOK' BY <1>1, <1>3 DEF PackInv, InputsOK
<1> QED BY <1>1, <1>3, <1>6, <1>7 DEF PackInv, BuildOK, DirOK, ManOK, IssuedOK

\* An entry is signed with the declared keys, or the call ends.
LEMMA SignEntryStep ==
  ASSUME PackInv, SignEntry
  PROVE  PackInv'
<1>1. UNCHANGED <<key, pqkey, data, signed, dir, man, bd, issued, used>> /\ sg.todo # << >> BY DEF SignEntry
<1>2. CASE sg' = Idle
  BY <1>1, <1>2 DEF PackInv, InputsOK, SigningOK, BuildOK, DirOK, ManOK, IssuedOK
<1>3. CASE sg' # Idle
  <2>0. sg # Idle BY DEF SignEntry, Idle
  <2>1. PICK nm, ca, pc, ed, pq, todo, out :
          sg = [pc |-> "sign", name |-> nm, cached |-> ca, pqcached |-> pc,
                ed |-> ed, pq |-> pq, todo |-> todo, out |-> out]
    BY <2>0 DEF PackInv, SigningOK
  <2>2. /\ nm \in Names /\ ed \in EdKeys /\ pq \in PqKeys \cup {None}
        /\ todo \in Seq(Unsigned) /\ out \in Seq(SignedWith(ed, pq)) /\ todo # << >>
    BY <1>1, <2>0, <2>1 DEF PackInv, SigningOK
  <2>3. sg' = [pc |-> "sign", name |-> nm, cached |-> ca, pqcached |-> pc, ed |-> ed, pq |-> pq,
               todo |-> Tail(todo), out |-> Append(out, Signed(Head(todo), ed, pq))]
    <3>1. sg' = [sg EXCEPT !.todo = Tail(sg.todo), !.out = Append(sg.out, Signed(Head(sg.todo), ed, pq))]
      BY <1>3, <2>1 DEF SignEntry
    <3> QED BY <2>1, <3>1
  <2>4. Head(todo) \in Unsigned /\ Tail(todo) \in Seq(Unsigned) BY <2>2, HeadTailProperties
  <2>5. Signed(Head(todo), ed, pq) \in SignedWith(ed, pq) BY <2>4 DEF SignedWith
  <2>6. /\ Append(out, Signed(Head(todo), ed, pq)) \in Seq(SignedWith(ed, pq))
        /\ Append(out, Signed(Head(todo), ed, pq)) # << >>
    BY <2>2, <2>5, AppendProperties
  <2>7. SigningOK' BY <1>1, <2>2, <2>3, <2>4, <2>6 DEF PackInv, SigningOK
  <2> QED BY <1>1, <2>7 DEF PackInv, InputsOK, BuildOK, DirOK, ManOK, IssuedOK
<1> QED BY <1>2, <1>3

\* The signed ledger is written whole; or the call is lost with nothing written.
LEMMA SignEndStep ==
  ASSUME PackInv, SignWrite \/ SignAborts
  PROVE  PackInv'
<1>1. CASE SignWrite
  <2>1. /\ UNCHANGED <<key, pqkey, data, dir, man, bd, issued, used>> /\ sg' = Idle /\ sg.todo = << >>
        /\ signed' = [signed EXCEPT ![sg.name] = sg.out]
    BY <1>1 DEF SignWrite
  <2>2. sg # Idle BY <1>1 DEF SignWrite, Idle
  <2>3. sg.out \in OwnLedgers
    <3>1. /\ sg.ed \in EdKeys /\ sg.pq \in PqKeys \cup {None}
          /\ sg.out \in Seq(SignedWith(sg.ed, sg.pq)) /\ sg.out # << >>
      BY <2>1, <2>2 DEF PackInv, SigningOK
    <3> QED BY <3>1, OwnIntro
  <2>4. SigningOK' BY <2>1, <2>3 DEF PackInv, SigningOK
  <2> QED BY <2>1, <2>4 DEF PackInv, InputsOK, BuildOK, DirOK, ManOK, IssuedOK
<1>2. CASE SignAborts
  <2>1. /\ UNCHANGED <<key, pqkey, data, signed, dir, man, bd, issued>> /\ sg' = Idle /\ Count("kill")
        /\ used["kill"] < MaxKills
    BY <1>2 DEF SignAborts
  <2>2. /\ used' \in [Counters -> Nat] /\ used'["edit"] = used["edit"]
        /\ used'["kill"] = used["kill"] + 1 /\ used'["build"] = used["build"]
    BY <2>1, Counted DEF PackInv, Counters
  <2>3. InputsOK'
    <3>1. used["kill"] \in Nat /\ MaxKills \in Nat BY PackConstants DEF PackInv, InputsOK, Counters
    <3> QED BY <2>1, <2>2, <3>1 DEF PackInv, InputsOK
  <2> QED BY <2>1, <2>2, <2>3 DEF PackInv, SigningOK, BuildOK, DirOK, ManOK, IssuedOK
<1> QED BY <1>1, <1>2

\* A build starts with every ledger still to copy.
LEMMA BuildStartStep ==
  ASSUME PackInv, used["edit"] = 0, BuildStart
  PROVE  PackInv'
<1>1. UNCHANGED <<key, pqkey, data, signed, sg, dir, man, issued>> /\ Count("build") /\ used["build"] < MaxBuilds
  BY DEF BuildStart
<1>2. /\ used' \in [Counters -> Nat] /\ used'["edit"] = 0
      /\ used'["kill"] = used["kill"] /\ used'["build"] = used["build"] + 1
  BY <1>1, Counted DEF PackInv, Counters
<1>3. InputsOK'
  <2>1. used["build"] \in Nat /\ MaxBuilds \in Nat BY PackConstants DEF PackInv, InputsOK, Counters
  <2> QED BY <1>1, <1>2, <2>1 DEF PackInv, InputsOK
<1>4. PICK pins, signkey :
        bd' = [pc |-> "copy", todo |-> Names, name |-> None, signkey |-> signkey, pins |-> pins,
               files |-> [n \in Names |-> Absent], leds |-> [n \in Names |-> << >>]]
  BY DEF BuildStart
<1>5. BuildOK' BY <1>2, <1>4 DEF BuildOK
<1> QED BY <1>1, <1>2, <1>3, <1>5 DEF PackInv, SigningOK, DirOK, ManOK, IssuedOK

\* One ledger is copied over the file of an earlier pack.
LEMMA BuildCopyStep ==
  ASSUME PackInv, BuildCopy
  PROVE  PackInv'
<1>1. UNCHANGED <<key, pqkey, data, signed, sg, man, issued, used>> /\ bd.pc = "copy" /\ bd.todo # {}
  BY DEF BuildCopy
<1>2. bd # Idle BY <1>1 DEF Idle
<1>3. PICK todo, name, signkey, pins, files, leds :
        bd = [pc |-> "copy", todo |-> todo, name |-> name, signkey |-> signkey,
              pins |-> pins, files |-> files, leds |-> leds]
  BY <1>1, <1>2 DEF PackInv, BuildOK
<1>4. /\ used["edit"] = 0 /\ DOMAIN files = Names /\ DOMAIN leds = Names /\ todo # {} /\ todo \subseteq Names
      /\ \A n \in Names \ todo : OwnKeys(leds[n])
  BY <1>1, <1>2, <1>3 DEF PackInv, BuildOK
<1>5. PICK m \in todo : /\ dir' = [dir EXCEPT ![m] = signed[m]]
                        /\ bd' = [bd EXCEPT !.pc = "describe", !.name = m, !.todo = @ \ {m}]
  BY <1>3, <1>4 DEF BuildCopy
<1>6. bd' = [pc |-> "describe", todo |-> todo \ {m}, name |-> m, signkey |-> signkey,
             pins |-> pins, files |-> files, leds |-> leds]
  BY <1>3, <1>5
<1>7. DirOK'
  <2>1. DOMAIN dir' = Names /\ dir' = [n \in Names |-> dir'[n]] BY <1>5 DEF PackInv, DirOK
  <2>2. ASSUME NEW n \in Names PROVE dir'[n] \in OwnLedgers \cup {Absent}
    BY <1>4, <1>5 DEF PackInv, DirOK, SigningOK
  <2> QED BY <2>1, <2>2 DEF DirOK
<1>8. BuildOK' BY <1>1, <1>4, <1>6 DEF BuildOK
<1> QED BY <1>1, <1>7, <1>8 DEF PackInv, InputsOK, SigningOK, ManOK, IssuedOK

\* The file at the destination is described, or a pinned layer is not there.
LEMMA BuildDescribeStep ==
  ASSUME PackInv, BuildDescribe
  PROVE  PackInv'
<1>1. UNCHANGED <<key, pqkey, data, signed, sg, dir, man, issued, used>> /\ bd.pc = "describe"
  BY DEF BuildDescribe
<1>2. bd # Idle BY <1>1 DEF Idle
<1>3. PICK todo, name, signkey, pins, files, leds :
        bd = [pc |-> "describe", todo |-> todo, name |-> name, signkey |-> signkey,
              pins |-> pins, files |-> files, leds |-> leds]
  BY <1>1, <1>2 DEF PackInv, BuildOK
<1>4. /\ used["edit"] = 0 /\ DOMAIN files = Names /\ DOMAIN leds = Names /\ todo \subseteq Names /\ name \in Names
      /\ \A n \in Names \ todo : n # name => OwnKeys(leds[n])
  BY <1>1, <1>2, <1>3 DEF PackInv, BuildOK
<1>5. CASE bd' = Idle BY <1>1, <1>5 DEF PackInv, InputsOK, SigningOK, BuildOK, DirOK, ManOK, IssuedOK
<1>6. CASE bd' # Idle
  <2>1. bd' = [bd EXCEPT !.pc = "copy", !.files[name] = dir[name], !.leds[name] = Meta(dir[name], pins)]
    BY <1>3, <1>6 DEF BuildDescribe
  <2>2. bd' = [pc |-> "copy", todo |-> todo, name |-> name, signkey |-> signkey, pins |-> pins,
               files |-> [files EXCEPT ![name] = dir[name]],
               leds |-> [leds EXCEPT ![name] = Meta(dir[name], pins)]]
    BY <1>3, <2>1
  <2>3. OwnKeys(Meta(dir[name], pins))
    <3> DEFINE sv == VerifySignatures(dir[name], Opt(pins.ed, pins.pq, TRUE))
               m  == Meta(dir[name], pins)
    <3>1. /\ m.signers = IF FirstSigned(dir[name]) THEN sv.signers ELSE {}
          /\ m.pqsigners = IF FirstSigned(dir[name]) THEN sv.pqsigners ELSE {}
      BY DEF Meta
    <3>2. dir[name] \in OwnLedgers \cup {Absent} BY <1>4 DEF PackInv, DirOK
    <3>3. CASE dir[name] = Absent
      <4>1. ~FirstSigned(dir[name]) BY <3>3 DEF FirstSigned
      <4> QED BY <3>1, <4>1 DEF OwnKeys
    <3>4. CASE dir[name] \in OwnLedgers
      <4>1. sv.signers \subseteq EdKeys /\ sv.pqsigners \subseteq PqKeys BY <3>4, OwnSigners
      <4> HIDE DEF sv, m
      <4> QED BY <3>1, <4>1 DEF OwnKeys, m
    <3> QED BY <3>2, <3>3, <3>4
  <2> HIDE DEF Meta
  <2>4. BuildOK'
    <3> DEFINE L == [leds EXCEPT ![name] = Meta(dir[name], pins)]
               F == [files EXCEPT ![name] = dir[name]]
    <3>1. DOMAIN L = Names /\ DOMAIN F = Names BY <1>4
    <3>2. \A n \in Names \ todo : OwnKeys(L[n]) BY <1>4, <2>3
    <3>3. bd' = [pc |-> "copy", todo |-> todo, name |-> name, signkey |-> signkey, pins |-> pins,
                 files |-> F, leds |-> L]
      BY <2>2
    <3> HIDE DEF L, F
    <3> QED BY <1>1, <1>4, <3>1, <3>2, <3>3 DEF BuildOK
  <2> QED BY <1>1, <2>4 DEF PackInv, InputsOK, SigningOK, DirOK, ManOK, IssuedOK
<1> QED BY <1>5, <1>6

\* The manifest is written, signed or not; or the build stops half way.
LEMMA BuildEndStep ==
  ASSUME PackInv, BuildManifest \/ BuildAborts
  PROVE  PackInv'
<1>1. CASE BuildManifest
  <2>1. /\ UNCHANGED <<key, pqkey, data, signed, sg, dir, used>> /\ bd' = Idle
        /\ bd.pc = "copy" /\ bd.todo = {}
    BY <1>1 DEF BuildManifest
  <2>2. bd # Idle BY <2>1 DEF Idle
  <2>3. PICK b : b = Body(bd.files, bd.leds) OBVIOUS
  <2>4. DOMAIN b.files = Names /\ \A n \in Names : OwnKeys(b.leds[n])
    BY <2>1, <2>2, <2>3 DEF PackInv, BuildOK, Body
  <2>5. PICK ts : man' = Manifest(b, IF bd.signkey THEN "op" ELSE None, ts) BY <1>1, <2>3 DEF BuildManifest
  <2>6. issued' = IF bd.signkey THEN issued \cup {b} ELSE issued BY <1>1, <2>3 DEF BuildManifest
  <2>7. IssuedOK' BY <2>4, <2>6 DEF PackInv, IssuedOK
  <2>8. ManOK'
    <3>1. CASE bd.signkey
      <4>1. man' = Manifest(b, "op", ts) /\ b \in issued' BY <2>5, <2>6, <3>1
      <4>2. Manifest(b, "op", ts).sig = <<"op", b>> BY DEF Manifest, None
      <4>3. \A c : <<"op", c>> = <<"op", b>> => c = b OBVIOUS
      <4> QED BY <2>4, <4>1, <4>2, <4>3 DEF ManOK, Manifest
    <3>2. CASE ~bd.signkey
      <4>1. man' = Manifest(b, None, ts) BY <2>5, <3>2
      <4>2. Manifest(b, None, ts).sig = NoSig BY DEF Manifest
      <4>3. \A c : <<"op", c>> # NoSig BY SigTuples
      <4> QED BY <2>4, <4>1, <4>2, <4>3 DEF ManOK, Manifest
    <3> QED BY <3>1, <3>2
  <2> QED BY <2>1, <2>7, <2>8 DEF PackInv, InputsOK, SigningOK, BuildOK, DirOK
<1>2. CASE BuildAborts
  <2>1. /\ UNCHANGED <<key, pqkey, data, signed, sg, dir, man, issued>> /\ bd' = Idle /\ Count("kill")
        /\ used["kill"] < MaxKills
    BY <1>2 DEF BuildAborts
  <2>2. /\ used' \in [Counters -> Nat] /\ used'["edit"] = used["edit"]
        /\ used'["kill"] = used["kill"] + 1 /\ used'["build"] = used["build"]
    BY <2>1, Counted DEF PackInv, Counters
  <2>3. InputsOK'
    <3>1. used["kill"] \in Nat /\ MaxKills \in Nat BY PackConstants DEF PackInv, InputsOK, Counters
    <3> QED BY <2>1, <2>2, <3>1 DEF PackInv, InputsOK
  <2> QED BY <2>1, <2>2, <2>3 DEF PackInv, SigningOK, BuildOK, DirOK, ManOK, IssuedOK
<1> QED BY <1>1, <1>2

\* Whoever edits the pack has no manifest signed with the operator's key but
\* those a build signed.
LEMMA EditStep ==
  ASSUME PackInv, Edit
  PROVE  PackInv'
<1>1. UNCHANGED <<key, pqkey, data, signed, sg, bd, issued>> /\ sg = Idle /\ bd = Idle /\ man.there
  BY DEF Edit
<1>2. used' = [c \in Counters |-> IF c = "edit" THEN used["edit"] + 1 ELSE 0]
  BY DEF Edit, PackInv, InputsOK
<1>3. used["edit"] \in Nat /\ MaxKills \in Nat /\ MaxBuilds \in Nat
  BY PackConstants DEF PackInv, InputsOK, Counters
<1>4. /\ used' \in [Counters -> Nat] /\ used'["edit"] # 0
      /\ used'["kill"] = 0 /\ used'["build"] = 0
  BY <1>2, <1>3 DEF Counters
<1>5. InputsOK' BY <1>1, <1>3, <1>4 DEF PackInv, InputsOK
<1>6. PICK files : dir' = files /\ man' \in EditedManifests(files) /\ \E n \in Names : \E l : files = [dir EXCEPT ![n] = l]
  BY DEF Edit
<1>7. DOMAIN files = Names /\ files = [n \in Names |-> files[n]] BY <1>6 DEF PackInv, DirOK
<1>8. DirOK' BY <1>4, <1>6, <1>7 DEF DirOK
<1>9. man # NoMan BY <1>1 DEF NoMan
<1>10. PICK bo, di, si, sg0, ts, ex :
         man = [there |-> TRUE, body |-> bo, digest |-> di, signer |-> si, sig |-> sg0, ts |-> ts, extra |-> ex]
  BY <1>9 DEF PackInv, ManOK
<1>11. DOMAIN bo.files = Names /\ \A b : sg0 = <<"op", b>> => b \in issued
  BY <1>9, <1>10 DEF PackInv, ManOK
<1>12. ManOK'
  <2> DEFINE Own(pins) == Body(files, [n \in Names |-> Meta(files[n], pins)])
             OwnBodies == {Own([ed |-> "eve", pq |-> "eveq"]), Own([ed |-> None, pq |-> None])}
  <2> DEFINE Anew    == {Manifest(b, s, {}) : b \in OwnBodies, s \in {None, "eve"}}
             Spliced == {[man EXCEPT !.body = b, !.digest = b] : b \in OwnBodies}
             Swapped == {[man EXCEPT !.body = b] : b \in OwnBodies}
  <2>1. \/ man' = man \/ man' = [man EXCEPT !.extra = TRUE]
        \/ man' \in Anew \/ man' \in Spliced \/ man' \in Swapped
    BY <1>6 DEF EditedManifests
  <2>2. \A b \in OwnBodies : DOMAIN b.files = Names BY <1>7 DEF Body
  <2> HIDE DEF OwnBodies
  <2>3. CASE man' = man BY <1>1, <1>9, <1>10, <1>11, <2>3 DEF ManOK
  <2>4. CASE man' = [man EXCEPT !.extra = TRUE]
    <3>1. man' = [there |-> TRUE, body |-> bo, digest |-> di, signer |-> si, sig |-> sg0, ts |-> ts, extra |-> TRUE]
      BY <1>10, <2>4
    <3> QED BY <1>1, <1>11, <3>1 DEF ManOK
  <2>5. ASSUME NEW b \in OwnBodies, NEW s \in {None, "eve"}, man' = Manifest(b, s, {}) PROVE ManOK'
    <3>1. man' = [there |-> TRUE, body |-> b, digest |-> b, signer |-> s,
                  sig |-> IF s = None THEN NoSig ELSE <<s, b>>, ts |-> {}, extra |-> FALSE]
      BY <2>5 DEF Manifest
    <3>2. \A c : NoSig # <<"op", c>> BY SigTuples
    <3>3. \A c : <<"eve", b>> # <<"op", c>> OBVIOUS
    <3>4. \A c : man'.sig # <<"op", c>> BY <3>1, <3>2, <3>3
    <3> QED BY <2>2, <3>1, <3>4 DEF ManOK
  <2>6. ASSUME NEW b \in OwnBodies, man' = [man EXCEPT !.body = b, !.digest = b] PROVE ManOK'
    <3>1. man' = [there |-> TRUE, body |-> b, digest |-> b, signer |-> si, sig |-> sg0, ts |-> ts, extra |-> ex]
      BY <1>10, <2>6
    <3> QED BY <1>1, <1>11, <2>2, <3>1 DEF ManOK
  <2>7. ASSUME NEW b \in OwnBodies, man' = [man EXCEPT !.body = b] PROVE ManOK'
    <3>1. man' = [there |-> TRUE, body |-> b, digest |-> di, signer |-> si, sig |-> sg0, ts |-> ts, extra |-> ex]
      BY <1>10, <2>7
    <3> QED BY <1>1, <1>11, <2>2, <3>1 DEF ManOK
  <2> HIDE DEF Manifest
  <2>8. CASE man' \in Anew
    <3>1. PICK b \in OwnBodies, s \in {None, "eve"} : man' = Manifest(b, s, {}) BY <2>8
    <3> QED BY <2>5, <3>1
  <2>9. CASE man' \in Spliced
    <3>1. PICK b \in OwnBodies : man' = [man EXCEPT !.body = b, !.digest = b] BY <2>9
    <3> QED BY <2>6, <3>1
  <2>10. CASE man' \in Swapped
    <3>1. PICK b \in OwnBodies : man' = [man EXCEPT !.body = b] BY <2>10
    <3> QED BY <2>7, <3>1
  <2> HIDE DEF Anew, Spliced, Swapped
  <2> QED BY <2>1, <2>3, <2>4, <2>8, <2>9, <2>10
<1> QED BY <1>1, <1>5, <1>8, <1>12 DEF PackInv, SigningOK, BuildOK, IssuedOK

\* Every step keeps the invariant.
LEMMA PackStep == PackInv /\ [Next]_vars => PackInv'
<1> SUFFICES ASSUME PackInv, [Next]_vars PROVE PackInv' OBVIOUS
<1>1. CASE UNCHANGED vars
  BY <1>1 DEF vars, PackInv, InputsOK, SigningOK, BuildOK, DirOK, ManOK, IssuedOK
<1>2. CASE used["edit"] = 0 /\ Operator
  BY <1>2, InputStep, SignStartStep, SignEntryStep, SignEndStep,
     BuildStartStep, BuildCopyStep, BuildDescribeStep, BuildEndStep DEF Operator
<1>3. CASE Edit BY <1>3, EditStep
<1> QED BY <1>1, <1>2, <1>3 DEF Next

-----------------------------------------------------------------------------
(* The theorems.                                                           *)

\* The types.
THEOREM TypeCorrect == Spec => []TypeOK
<1>1. PackInv => TypeOK
  <2> SUFFICES ASSUME PackInv PROVE TypeOK OBVIOUS
  <2>1. key \in EdKeys /\ pqkey \in PqKeys /\ used.kill \in 0..MaxKills /\ used.build \in 0..MaxBuilds
    BY PackConstants DEF PackInv, InputsOK, Counters
  <2>2. sg.pc \in {"idle", "sign"} BY DEF PackInv, SigningOK, Idle
  <2>3. bd.pc \in {"idle", "copy", "describe"} BY DEF PackInv, BuildOK, Idle
  <2>4. man.there => DOMAIN man.body.files = Names BY DEF PackInv, ManOK, NoMan
  <2> QED BY <2>1, <2>2, <2>3, <2>4 DEF TypeOK
<1> QED BY <1>1, PackInit, PackStep, PTL DEF Spec

\* sign_ledger: whatever key the backend turns to during the call, the ledger
\* it leaves on disk verifies under the first entry's keys.
THEOREM OneKeySigns == Spec => []SignedByOneKey
<1>1. PackInv => SignedByOneKey
  <2> SUFFICES ASSUME PackInv, NEW n \in Names, signed[n] # Absent
               PROVE  VerifySignatures(signed[n], Opt(signed[n][1].signer, signed[n][1].pqsigner, TRUE)).ok
    BY DEF SignedByOneKey
  <2>1. signed[n] \in OwnLedgers BY DEF PackInv, SigningOK
  <2>2. PICK l : l = signed[n] OBVIOUS
  <2>3. PICK ed \in EdKeys, pq \in PqKeys \cup {None} : l \in Seq(SignedWith(ed, pq)) \ {<< >>}
    BY <2>1, <2>2 DEF OwnLedgers
  <2>4. Len(l) \in Nat \ {0} BY <2>3, EmptySeq
  <2>5. l[1].signer = ed /\ l[1].pqsigner = pq
    <3>1. l[1] \in SignedWith(ed, pq) BY <2>3, <2>4, ElementOfSeq
    <3>2. /\ ContentOk(l[1]) /\ l[1].sig = <<ed, l[1].self>> /\ l[1].signer = ed
          /\ l[1].pqsig = (IF pq = None THEN NoSig ELSE <<pq, l[1].self>>) /\ l[1].pqsigner = pq
      BY <3>1, SignedFields
    <3> QED BY <3>2
  <2>6. \A i \in 1..Len(l) : /\ EdOutcome(l[i], Opt(ed, pq, TRUE)) = "ok"
                             /\ PqOutcome(l[i], Opt(ed, pq, TRUE)) \notin PqFailures
    <3> TAKE i \in 1..Len(l)
    <3>1. l[i] \in SignedWith(ed, pq) BY <2>3, ElementOfSeq
    <3> QED BY <3>1, OwnEntryOk
  <2>7. VerifySignatures(l, Opt(ed, pq, TRUE)).ok BY <2>3, <2>6 DEF VerifySignatures
  <2> QED BY <2>2, <2>5, <2>7
<1> QED BY <1>1, PackInit, PackStep, PTL DEF Spec

\* verify_pack and verify_evidence: a pack that verifies with a manifest signed
\* by the operator's key holds exactly the files one signed build put there.
THEOREM OneBuildVerifies == Spec => []PackIsOneBuild
<1>1. PackInv => PackIsOneBuild
  <2> SUFFICES ASSUME PackInv, man.there, man.signer = "op", Authenticated, ~OneBuild, NEW opt \in Readers
               PROVE  ~Valid(opt) /\ \A reread \in BOOLEAN : ~Rollup(Layers(opt, reread))
    BY DEF PackIsOneBuild
  <2>1. man.sig = <<"op", man.digest>> BY DEF Authenticated
  <2>2. man # NoMan BY DEF NoMan
  <2>3. man.digest \in issued BY <2>1, <2>2 DEF PackInv, ManOK
  <2>4. ~Valid(opt)
    <3> SUFFICES ASSUME Valid(opt) PROVE FALSE OBVIOUS
    <3>1. man.digest = man.body /\ \A n \in Names : dir[n] = man.body.files[n]
      BY DEF Valid, ManifestOk, FileOk
    <3> QED BY <2>3, <3>1 DEF OneBuild
  <2>5. ASSUME NEW reread \in BOOLEAN PROVE ~Rollup(Layers(opt, reread))
    <3>1. CASE man.extra
      <4>1. Layers(opt, reread) = <<"FAIL">> BY <3>1 DEF Layers
      <4>2. Len(<<"FAIL">>) = 1 /\ <<"FAIL">>[1] = "FAIL" OBVIOUS
      <4> QED BY <4>1, <4>2 DEF Rollup
    <3>2. CASE ~man.extra
      <4>1. PICK a, b, c, d, e : Layers(opt, reread) = <<a, b, c, d, e, "FAIL">>
        BY <2>4, <3>2 DEF Layers, PassFail
      <4>2. Len(<<a, b, c, d, e, "FAIL">>) = 6 /\ <<a, b, c, d, e, "FAIL">>[6] = "FAIL" OBVIOUS
      <4> QED BY <4>1, <4>2 DEF Rollup
    <3> QED BY <3>1, <3>2
  <2> QED BY <2>4, <2>5
<1> QED BY <1>1, PackInit, PackStep, PTL DEF Spec

\* verify_pack: a ledger is said to be protected only when the operator signed
\* its every entry with both kinds of key, because the keys are those the
\* caller pins or those a manifest pinned by the caller records.
THEOREM ProtectedWasSigned == Spec => []ProtectedIsSigned
<1>1. PackInv => ProtectedIsSigned
  <2> SUFFICES ASSUME PackInv, man.there, NEW n \in Names, NEW opt \in Readers,
                      LedgerResult(n, opt).pq = "true", NEW i \in 1..Len(dir[n])
               PROVE  SignedByOperator(dir[n][i])
    BY DEF ProtectedIsSigned
  <2> DEFINE lm  == man.body.leds[n]
             rec == /\ opt.pq = None /\ lm.pqp = "true" /\ ManifestPinned(opt)
                    /\ Cardinality(lm.pqsigners) = 1 /\ Cardinality(lm.signers) = 1
             pins == IF rec THEN Opt(CHOOSE k \in lm.signers : TRUE, CHOOSE k \in lm.pqsigners : TRUE, opt.mldsa)
                            ELSE Opt(opt.ed, opt.pq, opt.mldsa)
             sv   == VerifySignatures(dir[n], pins)
  <2>1. sv.pqp = "true"
    <3> DEFINE lost    == lm.pqp = "true" /\ sv.pqp # "true"
               refuted == sv.status \in {"absent", "partial", "invalid"}
               whole   == Len(dir[n]) = lm.entries /\ HeadOf(dir[n]) = lm.head
    <3>1. LedgerResult(n, opt) =
            IF ~FirstSigned(dir[n])
            THEN [hash |-> HashPass(dir[n]), sig |-> TRUE, pq |-> "false", whole |-> whole]
            ELSE [hash |-> HashPass(dir[n]), sig |-> sv.ok /\ ~(lost /\ pins.pq # None),
                  pq |-> IF lost /\ pins.pq = None /\ ~refuted THEN "null" ELSE sv.pqp, whole |-> whole]
      BY Zenon DEF LedgerResult
    <3> HIDE DEF sv, pins, lost, refuted, whole
    <3> QED BY <3>1
  <2> HIDE DEF pins
  <2>2. PICK exp : exp = pins OBVIOUS
  <2>3. VerifySignatures(dir[n], exp).pqp = "true" BY <2>1, <2>2
  <2>4. exp.pq # None /\ EdOutcome(dir[n][i], exp) = "ok" /\ PqOutcome(dir[n][i], exp) = "ok"
    BY <2>3, ProtectedSays
  <2>5. exp.ed \in EdKeys /\ exp.pq \in PqKeys
    <3>1. CASE rec
      <4>1. OwnKeys(lm)
        <5>1. opt.mansigner = "op" BY <3>1 DEF ManifestPinned, Readers
        <5>2. man.sig = <<"op", man.digest>> /\ man.digest = man.body
          BY <3>1, <5>1 DEF ManifestPinned, Authenticated, ManifestOk
        <5>3. man # NoMan BY DEF NoMan
        <5>4. man.body \in issued BY <5>2, <5>3 DEF PackInv, ManOK
        <5> QED BY <5>4 DEF PackInv, IssuedOK
      <4>2. lm.signers # {} /\ lm.pqsigners # {}
        <5>1. \A S : Cardinality(S) = 1 => S # {}
          <6> SUFFICES ASSUME NEW S, S = {} PROVE Cardinality(S) = 0 OBVIOUS
          <6> QED BY FS_EmptySet
        <5>2. Cardinality(lm.signers) = 1 /\ Cardinality(lm.pqsigners) = 1 BY <3>1
        <5> HIDE DEF lm
        <5> QED BY <5>1, <5>2
      <4>3. /\ (CHOOSE k \in lm.signers : TRUE) \in lm.signers
            /\ (CHOOSE k \in lm.pqsigners : TRUE) \in lm.pqsigners
        BY <4>2
      <4>4. /\ exp.ed = (CHOOSE k \in lm.signers : TRUE)
            /\ exp.pq = (CHOOSE k \in lm.pqsigners : TRUE)
        BY <2>2, <3>1 DEF Opt, pins
      <4> QED BY <4>1, <4>3, <4>4 DEF OwnKeys
    <3>2. CASE ~rec
      <4>1. exp.ed = opt.ed /\ exp.pq = opt.pq BY <2>2, <3>2 DEF Opt, pins
      <4> QED BY <2>4, <4>1 DEF Readers
    <3> QED BY <3>1, <3>2
  <2>6. PICK e : e = dir[n][i] OBVIOUS
  <2>7. e.sig = <<exp.ed, e.self>> /\ e.pqsig = <<exp.pq, e.self>>
    <3>1. exp.ed # None BY <2>5, RealKeys
    <3>2. /\ e.sig = <<e.signer, e.self>> /\ e.signer = exp.ed
      BY <2>4, <2>6, <3>1, EdOkSays
    <3>3. e.pqsig = <<e.pqsigner, e.self>> /\ e.pqsigner = exp.pq
      BY <2>4, <2>6, PqOkSays
    <3> QED BY <3>2, <3>3
  <2>8. /\ <<exp.ed, e.self>> # NoSig /\ <<exp.ed, e.self>>[1] = exp.ed
        /\ <<exp.pq, e.self>> # NoSig /\ <<exp.pq, e.self>>[1] = exp.pq
    BY SigTuples
  <2>9. SignedByOperator(e) BY <2>5, <2>7, <2>8 DEF SignedByOperator
  <2> QED BY <2>6, <2>9
<1> QED BY <1>1, PackInit, PackStep, PTL DEF Spec

-----------------------------------------------------------------------------
(***************************************************************************)
(* Acta: decision receipts                                                 *)
(***************************************************************************)
-----------------------------------------------------------------------------
(* Instants and their keys *)

\* What rstrip keeps ends in a digit that is not zero, and only zeros follow it.
LEMMA LastDigitIs ==
  ASSUME NEW f \in Seq(0..9)
  PROVE  /\ LastDigit(f) \in 0..Len(f)
         /\ LastDigit(f) > 0 => f[LastDigit(f)] # 0
         /\ \A i \in LastDigit(f) + 1..Len(f) : f[i] = 0
<1> DEFINE T == {n \in 0..Len(f) : \A i \in n + 1..Len(f) : f[i] = 0}
<1>1. Len(f) \in Nat BY LenProperties
<1>2. Len(f) \in T BY <1>1
<1>3. T \in SUBSET Nat BY <1>1
<1>4. PICK n \in T : \A m \in T : n <= m BY <1>2, <1>3, LeastExists
<1>5. n \in 0..Len(f) /\ \A i \in n + 1..Len(f) : f[i] = 0 OBVIOUS
<1>6. n > 0 => f[n] # 0
  <2> SUFFICES ASSUME n > 0, f[n] = 0 PROVE FALSE
    OBVIOUS
  <2>1. n - 1 \in 0..Len(f) BY <1>1, <1>5
  <2>2. \A i \in (n - 1) + 1..Len(f) : f[i] = 0 BY <1>1, <1>5
  <2>3. n - 1 \in T BY <2>1, <2>2
  <2>4. n <= n - 1 BY <2>3, <1>4
  <2> HIDE DEF T
  <2> QED BY <2>4, <1>1, <1>5
<1> HIDE DEF T
<1> QED BY <1>5, <1>6 DEF LastDigit

\* A digit of the fraction, and the zeros after what rstrip keeps.
LEMMA Digits ==
  ASSUME NEW t \in Texts
  PROVE  /\ t.frac \in Seq(0..9) /\ Len(t.frac) \in Nat
         /\ LastDigit(t.frac) \in 0..Len(t.frac)
         /\ LastDigit(t.frac) > 0 => Digit(t, LastDigit(t.frac)) > 0
         /\ Len(StripZeros(t.frac)) = LastDigit(t.frac)
         /\ \A j \in 1..LastDigit(t.frac) : StripZeros(t.frac)[j] = Digit(t, j)
         /\ \A j \in Nat \ {0} : Digit(t, j) \in 0..9 /\ (j > LastDigit(t.frac) => Digit(t, j) = 0)
<1> DEFINE f == t.frac
<1>1. f \in Seq(0..9) /\ Len(f) \in Nat BY LenProperties DEF Texts
<1> HIDE DEF f
<1> DEFINE n == LastDigit(f)
<1>2. /\ n \in 0..Len(f)
      /\ n > 0 => f[n] # 0
      /\ \A i \in n + 1..Len(f) : f[i] = 0
  BY <1>1, LastDigitIs
<1> HIDE DEF n
<1>3. \A j \in 1..Len(f) : f[j] \in 0..9 BY <1>1, ElementOfSeq
<1>4. \A j \in Nat \ {0} : Digit(t, j) = IF j <= Len(f) THEN f[j] ELSE 0 BY DEF Digit, f
<1>5. n > 0 => Digit(t, n) > 0 BY <1>1, <1>2, <1>3, <1>4
<1>6. Len(SubSeq(f, 1, n)) = n /\ \A j \in 1..n : SubSeq(f, 1, n)[j] = f[j]
  BY <1>1, <1>2, SubSeqProperties
<1>7. \A j \in 1..n : SubSeq(f, 1, n)[j] = Digit(t, j) BY <1>1, <1>2, <1>4, <1>6
<1>8. \A j \in Nat \ {0} : Digit(t, j) \in 0..9 /\ (j > n => Digit(t, j) = 0) BY <1>1, <1>2, <1>3, <1>4
<1> QED BY <1>1, <1>2, <1>5, <1>6, <1>7, <1>8 DEF StripZeros, n, f

\* Fractions compare digit by digit, whatever zeros they end in.
LEMMA FractionsCompare ==
  ASSUME NEW t \in Texts, NEW u \in Texts
  PROVE  DigitsBefore(StripZeros(t.frac), StripZeros(u.frac))
           <=> \E k \in 1..Len(u.frac) : Digit(t, k) < Digit(u, k) /\ \A j \in 1..(k - 1) : Digit(t, j) = Digit(u, j)
<1> DEFINE a == StripZeros(t.frac)
           b == StripZeros(u.frac)
           n == LastDigit(t.frac)
           m == LastDigit(u.frac)
           L == Len(u.frac)
<1>1. /\ n \in Nat /\ Len(a) = n
      /\ \A j \in 1..n : a[j] = Digit(t, j)
      /\ \A j \in Nat \ {0} : Digit(t, j) \in 0..9 /\ (j > n => Digit(t, j) = 0)
  BY Digits
<1>2. /\ L \in Nat /\ m \in 0..L /\ Len(b) = m
      /\ m > 0 => Digit(u, m) > 0
      /\ \A j \in 1..m : b[j] = Digit(u, j)
      /\ \A j \in Nat \ {0} : Digit(u, j) \in 0..9 /\ (j > m => Digit(u, j) = 0)
  BY Digits
<1> HIDE DEF a, b, n, m, L
<1>3. ASSUME DigitsBefore(a, b)
      PROVE  \E k \in 1..L : Digit(t, k) < Digit(u, k) /\ \A j \in 1..(k - 1) : Digit(t, j) = Digit(u, j)
  <2>1. PICK k \in 1..m : /\ \A j \in 1..(k - 1) : j <= n /\ a[j] = b[j]
                          /\ k > n \/ a[k] < b[k]
    BY <1>1, <1>2, <1>3 DEF DigitsBefore
  <2>2. \A j \in 1..(k - 1) : Digit(t, j) = Digit(u, j) BY <1>1, <1>2, <2>1
  <2>3. CASE k <= n
    <3>1. Digit(t, k) < Digit(u, k) BY <1>1, <1>2, <2>1, <2>3
    <3> QED BY <3>1, <2>2, <1>2
  <2>4. CASE k > n
    <3> DEFINE T == {x \in k..m : Digit(u, x) > 0}
    <3>1. m \in T BY <1>2
    <3>2. T \in SUBSET Nat BY <1>2
    <3>3. PICK x \in T : \A y \in T : x <= y BY <3>1, <3>2, LeastExists
    <3>4. x \in k..m /\ Digit(u, x) > 0 /\ x \in 1..L BY <1>2
    <3>5. Digit(t, x) < Digit(u, x) BY <1>1, <1>2, <2>4, <3>4
    <3>6. ASSUME NEW j \in 1..(x - 1) PROVE Digit(t, j) = Digit(u, j)
      <4>1. CASE j < k BY <4>1, <2>2, <1>2
      <4>2. CASE j >= k
        <5>1. Digit(u, j) = 0
          <6>1. j \in k..m /\ ~(x <= j) /\ Digit(u, j) \in 0..9 BY <1>2, <3>4, <4>2
          <6>2. j \notin T BY <6>1, <3>3
          <6> QED BY <6>1, <6>2
        <5>2. Digit(t, j) = 0 BY <1>1, <1>2, <4>2, <2>4, <3>4
        <5> QED BY <5>1, <5>2
      <4> QED BY <4>1, <4>2, <1>2, <3>4
    <3> QED BY <3>4, <3>5, <3>6
  <2> QED BY <2>3, <2>4, <1>1, <1>2
<1>4. ASSUME NEW k \in 1..L, Digit(t, k) < Digit(u, k), \A j \in 1..(k - 1) : Digit(t, j) = Digit(u, j)
      PROVE  DigitsBefore(a, b)
  <2>1. k <= m BY <1>1, <1>2, <1>4
  <2>2. CASE k <= n
    <3>1. /\ k \in 1..Len(b)
          /\ \A j \in 1..(k - 1) : j <= Len(a) /\ a[j] = b[j]
          /\ a[k] < b[k]
      BY <1>1, <1>2, <1>4, <2>1, <2>2
    <3> QED BY <3>1 DEF DigitsBefore
  <2>3. CASE k > n
    <3>1. /\ n + 1 \in 1..Len(b)
          /\ \A j \in 1..((n + 1) - 1) : j <= Len(a) /\ a[j] = b[j]
          /\ n + 1 > Len(a)
      BY <1>1, <1>2, <1>4, <2>1, <2>3
    <3> QED BY <3>1 DEF DigitsBefore
  <2> QED BY <2>2, <2>3, <1>1, <1>2
<1> QED BY <1>3, <1>4 DEF a, b, L

\* _instant_exact: the keys compare as the instants do, across offsets, trailing
\* zeros and a leap second.
THEOREM InstantsCompare ==
  ASSUME NEW t \in Texts, NEW u \in Texts
  PROVE  KeyBefore(InstantKey(t), InstantKey(u)) <=> Earlier(t, u)
<1> DEFINE M == UtcMinute(t)
           N == UtcMinute(u)
           r == t.s
           s == u.s
           x == M * 60 + (IF r = 60 THEN 59 ELSE r)
           y == N * 60 + (IF s = 60 THEN 59 ELSE s)
           p == IF r = 60 THEN 1 ELSE 0
           q == IF s = 60 THEN 1 ELSE 0
           Fraction == \E k \in 1..Len(u.frac) :
                         Digit(t, k) < Digit(u, k) /\ \A j \in 1..(k - 1) : Digit(t, j) = Digit(u, j)
<1>1. r \in 0..60 /\ s \in 0..60 BY DEF Texts
<1>2. t.min - t.off \in Int /\ u.min - u.off \in Int BY DEF Texts
<1>3. M \in Int /\ N \in Int BY <1>2 DEF UtcMinute
<1> HIDE DEF M, N, r, s
<1>4. /\ (x < y \/ (x = y /\ p < q)) <=> (M < N \/ (M = N /\ r < s))
      /\ (x = y /\ p = q) <=> (M = N /\ r = s)
  <2>1. CASE r = 60 /\ s = 60 BY <1>1, <1>3, <2>1
  <2>2. CASE r = 60 /\ s # 60 BY <1>1, <1>3, <2>2
  <2>3. CASE r # 60 /\ s = 60 BY <1>1, <1>3, <2>3
  <2>4. CASE r # 60 /\ s # 60 BY <1>1, <1>3, <2>4
  <2> QED BY <2>1, <2>2, <2>3, <2>4
<1>6. DigitsBefore(StripZeros(t.frac), StripZeros(u.frac)) <=> Fraction BY FractionsCompare
<1>7. InstantKey(t) = <<x, p, StripZeros(t.frac)>> /\ InstantKey(u) = <<y, q, StripZeros(u.frac)>>
  BY DEF InstantKey, M, N, r, s
<1> HIDE DEF x, y, p, q, Fraction
<1>8. KeyBefore(InstantKey(t), InstantKey(u))
        <=> \/ x < y \/ (x = y /\ p < q)
            \/ x = y /\ p = q /\ DigitsBefore(StripZeros(t.frac), StripZeros(u.frac))
  BY <1>7 DEF KeyBefore
<1>9. Earlier(t, u) <=> (M < N \/ (M = N /\ r < s) \/ (M = N /\ r = s /\ Fraction))
  BY DEF Earlier, M, N, r, s, Fraction
<1> QED BY <1>4, <1>6, <1>8, <1>9

-----------------------------------------------------------------------------
(* What the relying party holds *)

\* For each kid: no entry, the right one, one without key material, or one with
\* an unreadable bound on the side that is open.
LEMMA KeyEntry ==
  ASSUME NEW rp \in Parties, NEW k \in Kids
  PROVE  /\ rp.complete = FALSE /\ rp.mldsa \in BOOLEAN
         /\ rp.keys[k] \in Entries(k)
<1>1. rp.complete = FALSE /\ rp.mldsa \in BOOLEAN /\ rp.keys \in KeySets BY DEF Parties
<1>2. PICK j \in Kids : rp.keys \in {[FullKeys EXCEPT ![j] = e] : e \in Entries(j)} BY <1>1 DEF KeySets
<1>3. PICK e \in Entries(j) : rp.keys = [FullKeys EXCEPT ![j] = e] BY <1>2
<1>4. FullKeys = [i \in Kids |-> FullEntry(i)] BY DEF FullKeys
<1>5. rp.keys[k] = IF k = j THEN e ELSE FullEntry(k) BY <1>3, <1>4
<1>6. FullEntry(k) \in Entries(k) BY DEF Entries
<1> QED BY <1>1, <1>3, <1>5, <1>6

\* The bounds of the right entry, and what the amiss ones change of it.
LEMMA EntryShape ==
  ASSUME NEW k \in Kids, NEW e \in Entries(k)
  PROVE  LET f == FullEntry(k)
         IN  /\ f.there = TRUE /\ f.ok = TRUE
             /\ f.from  = (IF k = "k1" THEN NoBound ELSE At(Change))
             /\ f.until = (IF k = "k1" THEN At(Change) ELSE NoBound)
             /\ \/ e.there = FALSE
                \/ e = f
                \/ e.there = TRUE /\ e.ok = FALSE /\ e.from = f.from /\ e.until = f.until
                \/ e.there = TRUE /\ k = "k1" /\ e.from = BadBound /\ e.until = f.until
                \/ e.there = TRUE /\ k # "k1" /\ e.until = BadBound /\ e.from = f.from
<1> DEFINE c == At(Change)
<1> HIDE DEF c
<1>1. CASE k = "k1"
  <2>1. FullEntry(k) = [there |-> TRUE, ok |-> TRUE, from |-> NoBound, until |-> c] BY <1>1 DEF FullEntry, Entry, c
  <2> QED BY <1>1, <2>1 DEF Entries, NoEntry, c
<1>2. CASE k # "k1"
  <2>1. FullEntry(k) = [there |-> TRUE, ok |-> TRUE, from |-> c, until |-> NoBound] BY <1>2 DEF FullEntry, Entry, c
  <2> QED BY <1>2, <2>1 DEF Entries, NoEntry, c
<1> QED BY <1>1, <1>2

\* The window of the right entry can always be read; with an unreadable bound an
\* instant is outside just when the other bound excludes it.
LEMMA WindowShape ==
  ASSUME NEW t, NEW b
  PROVE  /\ Window(t, NoBound, At(b)) = (IF KeyBefore(InstantKey(t), InstantKey(b)) THEN "inside" ELSE "outside")
         /\ Window(t, At(b), NoBound) = (IF KeyBefore(InstantKey(t), InstantKey(b)) THEN "outside" ELSE "inside")
         /\ Window(t, BadBound, At(b)) = (IF KeyBefore(InstantKey(t), InstantKey(b)) THEN "bound" ELSE "outside")
         /\ Window(t, At(b), BadBound) = (IF KeyBefore(InstantKey(t), InstantKey(b)) THEN "outside" ELSE "bound")
<1>1. /\ NoBound.kind = "none" /\ BadBound.kind = "unreadable" /\ At(b).kind = "at" /\ At(b).at = b
      /\ NoBound # BadBound /\ At(b) # BadBound
  <2>1. NoBound.kind = "none" /\ BadBound.kind = "unreadable" /\ At(b).kind = "at" /\ At(b).at = b
    BY DEF NoBound, BadBound, At
  <2> QED BY <2>1
<1> DEFINE B == KeyBefore(InstantKey(t), InstantKey(b))
<1>2. Window(t, NoBound, At(b)) = (IF B THEN "inside" ELSE "outside") BY <1>1 DEF Window
<1>3. Window(t, At(b), NoBound) = (IF B THEN "outside" ELSE "inside") BY <1>1 DEF Window
<1>4. Window(t, BadBound, At(b)) = (IF B THEN "bound" ELSE "outside") BY <1>1 DEF Window
<1>5. Window(t, At(b), BadBound) = (IF B THEN "outside" ELSE "bound") BY <1>1 DEF Window
<1> QED BY <1>2, <1>3, <1>4, <1>5

\* verify_receipt, for any receipt at all: a party with some keys missing or amiss
\* answers as one with all of them, or does not assess.
LEMMA KeysInformReceipt ==
  ASSUME NEW r, NEW rp \in Parties
  PROVE  /\ VerifyReceipt(r, rp) \in {"not_assessed", VerifyReceipt(r, Informed)}
         /\ VerifyReceipt(r, rp) \in {"pass", "fail", "not_assessed"}
<1> DEFINE form == r.flaw # "none" \/ r.payload.issuer # r.kid \/ ~ValidInstant(r.payload.at)
           e == rp.keys[r.kid]
           f == FullEntry(r.kid)
           at == r.payload.at
           bad == r.alg # AlgOf(r.kid) \/ ~SignatureHolds(r, r.kid)
<1>1. rp.complete = FALSE /\ rp.mldsa \in BOOLEAN BY DEF Parties
<1>2. Informed.complete = FALSE /\ Informed.mldsa = TRUE /\ (r.kid \in Kids => Informed.keys[r.kid] = f)
  BY DEF Informed, FullKeys
<1>3. CASE form BY <1>3 DEF VerifyReceipt
<1>4. CASE ~form /\ r.kid \notin Kids BY <1>4, <1>1, <1>2 DEF VerifyReceipt, NoEntry
<1>5. CASE ~form /\ r.kid \in Kids
  <2>1. e \in Entries(r.kid) BY <1>5, KeyEntry
  <2>2. /\ f.there = TRUE /\ f.ok = TRUE
        /\ f.from  = (IF r.kid = "k1" THEN NoBound ELSE At(Change))
        /\ f.until = (IF r.kid = "k1" THEN At(Change) ELSE NoBound)
        /\ \/ e.there = FALSE
           \/ e = f
           \/ e.there = TRUE /\ e.ok = FALSE /\ e.from = f.from /\ e.until = f.until
           \/ e.there = TRUE /\ r.kid = "k1" /\ e.from = BadBound /\ e.until = f.until
           \/ e.there = TRUE /\ r.kid # "k1" /\ e.until = BadBound /\ e.from = f.from
    BY <1>5, <2>1, EntryShape
  <2>3. VerifyReceipt(r, rp) =
          IF ~e.there                                     THEN "not_assessed"
          ELSE IF Window(at, e.from, e.until) = "outside" THEN "fail"
          ELSE IF Window(at, e.from, e.until) = "bound"   THEN "not_assessed"
          ELSE IF ~e.ok                                   THEN "not_assessed"
          ELSE IF r.alg = "ML-DSA-65" /\ ~rp.mldsa        THEN "not_assessed"
          ELSE IF bad THEN "fail" ELSE "pass"
    BY <1>5, <1>1 DEF VerifyReceipt
  <2>4. VerifyReceipt(r, Informed) =
          IF Window(at, f.from, f.until) = "outside"      THEN "fail"
          ELSE IF Window(at, f.from, f.until) = "bound"   THEN "not_assessed"
          ELSE IF bad THEN "fail" ELSE "pass"
    BY <1>5, <1>2, <2>2 DEF VerifyReceipt
  <2> HIDE DEF e, f, form, bad, at
  <2> DEFINE B == KeyBefore(InstantKey(at), InstantKey(Change))
  <2>5. /\ Window(at, NoBound, At(Change)) = (IF B THEN "inside" ELSE "outside")
        /\ Window(at, At(Change), NoBound) = (IF B THEN "outside" ELSE "inside")
        /\ Window(at, BadBound, At(Change)) = (IF B THEN "bound" ELSE "outside")
        /\ Window(at, At(Change), BadBound) = (IF B THEN "outside" ELSE "bound")
    BY WindowShape
  <2> HIDE DEF B
  <2>6. CASE e.there = FALSE BY <2>6, <2>3
  <2>7. CASE e = f BY <2>7, <2>2, <2>3, <2>4, <2>5
  <2>8. CASE e.there = TRUE /\ e.ok = FALSE /\ e.from = f.from /\ e.until = f.until BY <2>8, <2>2, <2>3, <2>4, <2>5
  <2>9. CASE e.there = TRUE /\ r.kid = "k1" /\ e.from = BadBound /\ e.until = f.until BY <2>9, <2>2, <2>3, <2>4, <2>5
  <2>10. CASE e.there = TRUE /\ r.kid # "k1" /\ e.until = BadBound /\ e.from = f.from BY <2>10, <2>2, <2>3, <2>4, <2>5
  <2> QED BY <2>2, <2>6, <2>7, <2>8, <2>9, <2>10
<1> QED BY <1>3, <1>4, <1>5

\* verify_chain, for any chain at all: the same of its verdict.
LEMMA KeysInformChain ==
  ASSUME NEW rs, NEW rp \in Parties, Len(rs) \in Nat
  PROVE  ChainVerdict(rs, rp) \in {"not_assessed", ChainVerdict(rs, Informed)}
<1> DEFINE Finding(party) == \E i \in 1..Len(rs) :
             VerifyReceipt(rs[i], party) = "fail" \/ LinkProblem(rs, i, party) \/ PolicyProblem(rs[i])
           Wanting(party) == \E i \in 1..Len(rs) : VerifyReceipt(rs[i], party) = "not_assessed"
<1>1. \A r : VerifyReceipt(r, rp) \in {"not_assessed", VerifyReceipt(r, Informed)} BY KeysInformReceipt
<1>2. ASSUME Finding(rp) PROVE Finding(Informed)
  <2>1. PICK i \in 1..Len(rs) : VerifyReceipt(rs[i], rp) = "fail" \/ LinkProblem(rs, i, rp) \/ PolicyProblem(rs[i])
    BY <1>2
  <2>2. CASE VerifyReceipt(rs[i], rp) = "fail"
    <3>1. VerifyReceipt(rs[i], Informed) = "fail" BY <2>2, <1>1
    <3> QED BY <3>1
  <2>3. CASE LinkProblem(rs, i, rp)
    <3>1. VerifyReceipt(rs[i - 1], rp) = "fail" => VerifyReceipt(rs[i - 1], Informed) = "fail" BY <1>1
    <3>2. LinkProblem(rs, i, Informed) BY <2>3, <3>1 DEF LinkProblem
    <3> QED BY <3>2
  <2> QED BY <2>1, <2>2, <2>3
<1>3. ASSUME ~Finding(rp), ~Wanting(rp) PROVE ~Finding(Informed) /\ ~Wanting(Informed)
  <2>1. ASSUME NEW i \in 1..Len(rs) PROVE VerifyReceipt(rs[i], Informed) = "pass"
    <3>1. VerifyReceipt(rs[i], rp) # "fail" /\ VerifyReceipt(rs[i], rp) # "not_assessed" BY <1>3
    <3>2. VerifyReceipt(rs[i], rp) \in {"pass", "fail", "not_assessed"} BY KeysInformReceipt
    <3> QED BY <3>1, <3>2, <1>1
  <2>2. ASSUME NEW i \in 1..Len(rs) PROVE ~LinkProblem(rs, i, Informed)
    <3>1. i > 1 => i - 1 \in 1..Len(rs) OBVIOUS
    <3>2. i > 1 => VerifyReceipt(rs[i - 1], Informed) # "fail" BY <3>1, <2>1
    <3>3. ~LinkProblem(rs, i, rp) BY <1>3
    <3> QED BY <3>2, <3>3 DEF LinkProblem
  <2> QED BY <2>1, <2>2, <1>3
<1>4. \A party : ChainVerdict(rs, party) = IF Finding(party) THEN "fail" ELSE IF Wanting(party) THEN "not_assessed" ELSE "pass"
  BY DEF ChainVerdict
<1> HIDE DEF Finding, Wanting
<1> QED BY <1>2, <1>3, <1>4

-----------------------------------------------------------------------------
(* What the issuer wrote, and what is shown of it *)

\* Receipt i is as sign_receipt made it: at an instant of the clock with the key of
\* that instant, linked to the receipt it was chained to, an earlier one.
Written(i) ==
  LET r == receipts[i]
      p == r.payload
  IN  /\ r = Receipt("envelope", AlgOf(r.kid), r.kid, p, Sig(r.kid, p))
      /\ p = Payload(i, r.kid, p.at, p.link, "policy")
      /\ \E q \in 1..Len(Clock) : p.at \in Clock[q] /\ r.kid = (IF q < RotateAt THEN "k1" ELSE "k2")
      /\ parent[i] \in 0..(i - 1)
      /\ IF parent[i] = 0 THEN p.link = Genesis
         ELSE p.link = HashOf(receipts[parent[i]]) \/ p.link = BareOf(receipts[parent[i]])

\* A sequence, of whatever it holds.
IsSeq(s) == s \in Seq({s[i] : i \in 1..Len(s)})

\* Two files: the receipts, and for each the one it was chained to.
FilesOK == /\ IsSeq(receipts)
           /\ parent \in Seq(Nat) /\ Len(parent) = Len(receipts)

\* Receipts of the issuer, or a path of them with one edited.
ShownOK ==
  \/ shown = << >>
  \/ \E s \in Sequences : shown = ReceiptsAt(s) /\ edited = (s \notin Paths)
  \/ \E s \in Paths : \E i \in 1..Len(s) : \E r \in Edits(receipts[s[i]]) :
       shown = [ReceiptsAt(s) EXCEPT ![i] = r] /\ edited = TRUE

\* The inductive invariant.
ActaInv == now \in 1..Len(Clock) /\ FilesOK /\ (\A i \in 1..Len(receipts) : Written(i)) /\ ShownOK

\* Appending to a sequence of whatever it holds.
LEMMA AppendIs ==
  ASSUME NEW s, IsSeq(s), NEW e
  PROVE  /\ Len(s) \in Nat /\ Len(Append(s, e)) = Len(s) + 1 /\ Append(s, e)[Len(s) + 1] = e
         /\ \A i \in 1..Len(s) : Append(s, e)[i] = s[i]
         /\ IsSeq(Append(s, e))
<1>0. PICK a : a = Append(s, e) OBVIOUS
<1> DEFINE S == {s[i] : i \in 1..Len(s)}
           T == S \cup {e}
           A == {a[i] : i \in 1..Len(a)}
<1>1. s \in Seq(S) BY DEF IsSeq
<1> HIDE DEF S
<1>2. s \in Seq(T) BY <1>1, SeqMonotonic
<1>3. e \in T OBVIOUS
<1> HIDE DEF T
<1>4. /\ a \in Seq(T) /\ Len(a) = Len(s) + 1 /\ a[Len(s) + 1] = e
      /\ \A i \in 1..Len(s) : a[i] = s[i]
  BY <1>0, <1>2, <1>3, AppendProperties
<1>5. Len(s) \in Nat /\ Len(a) \in Nat BY <1>2, <1>4, LenProperties
<1>6. a = [i \in 1..Len(a) |-> a[i]]
  <2>1. a \in [1..Len(a) -> T] BY <1>4, LenProperties
  <2> QED BY <2>1
<1>7. \A i \in 1..Len(a) : a[i] \in A OBVIOUS
<1> HIDE DEF A
<1>8. [i \in 1..Len(a) |-> a[i]] \in Seq(A) BY <1>5, <1>7, IsASeq
<1>9. a \in Seq(A) BY <1>6, <1>8
<1>10. IsSeq(a) BY <1>9 DEF A, IsSeq
<1> QED BY <1>0, <1>4, <1>5, <1>10

\* The clock has a length, and the rotation is on it.
LEMMA ClockIs == Len(Clock) \in Nat /\ Len(Clock) >= 2 /\ RotateAt \in Nat
<1>1. Len(Clock) \in Nat BY ActaConstants, LenProperties
<1> QED BY <1>1, ActaConstants

\* A receipt stays as it was written when another is appended.
LEMMA IssuePreserves ==
  ASSUME ActaInv, NEW prev \in 0..Len(receipts), NEW bare \in BOOLEAN, Issue(prev, bare)
  PROVE  ActaInv'
<1>0. PICK L : L = Len(receipts) OBVIOUS
<1> DEFINE kid == SigningKid
           link == IF prev = 0 THEN Genesis ELSE IF bare THEN BareOf(receipts[prev]) ELSE HashOf(receipts[prev])
           P(at) == Payload(L + 1, kid, at, link, "policy")
           R(at) == Receipt("envelope", AlgOf(kid), kid, P(at), Sig(kid, P(at)))
<1>1. PICK at \in Clock[now] : receipts' = Append(receipts, R(at)) BY <1>0 DEF Issue
<1>2. /\ IsSeq(receipts) /\ parent \in Seq(Nat) /\ Len(parent) = L
      /\ \A i \in 1..L : Written(i)
      /\ now \in 1..Len(Clock)
  BY <1>0 DEF ActaInv, FilesOK
<1>3. /\ L \in Nat /\ Len(receipts') = L + 1 /\ receipts'[L + 1] = R(at)
      /\ \A i \in 1..L : receipts'[i] = receipts[i]
      /\ IsSeq(receipts')
  <2> DEFINE e == R(at)
  <2>1. receipts' = Append(receipts, e) BY <1>1
  <2> HIDE DEF e
  <2>2. /\ Len(receipts) \in Nat /\ Len(receipts') = Len(receipts) + 1 /\ receipts'[Len(receipts) + 1] = e
        /\ \A i \in 1..Len(receipts) : receipts'[i] = receipts[i]
        /\ IsSeq(receipts')
    <3>1. PICK s : s = receipts OBVIOUS
    <3>2. PICK x : x = e OBVIOUS
    <3>3. PICK a : a = receipts' OBVIOUS
    <3>4. IsSeq(s) BY <1>2, <3>1
    <3>5. a = Append(s, x) BY <2>1, <3>1, <3>2, <3>3
    <3>6. /\ Len(s) \in Nat /\ Len(Append(s, x)) = Len(s) + 1 /\ Append(s, x)[Len(s) + 1] = x
          /\ \A i \in 1..Len(s) : Append(s, x)[i] = s[i]
          /\ IsSeq(Append(s, x))
      BY <3>4, AppendIs
    <3> QED BY <3>1, <3>2, <3>3, <3>5, <3>6
  <2> QED BY <2>2, <1>0 DEF e
<1>4. parent' = Append(parent, prev) /\ now' = now /\ shown' = shown /\ shown = << >> BY DEF Issue
<1>5. prev \in 0..L /\ prev \in Nat BY <1>0, <1>3
<1>6. /\ parent' \in Seq(Nat) /\ Len(parent') = L + 1 /\ parent'[L + 1] = prev
      /\ \A i \in 1..L : parent'[i] = parent[i]
  <2>1. PICK q, l : q = parent /\ l = L OBVIOUS
  <2>2. /\ Append(q, prev) \in Seq(Nat) /\ Len(Append(q, prev)) = l + 1 /\ Append(q, prev)[l + 1] = prev
        /\ \A i \in 1..l : Append(q, prev)[i] = q[i]
    <3>1. q \in Seq(Nat) /\ Len(q) = l /\ prev \in Nat BY <1>2, <1>5, <2>1
    <3> QED BY ONLY <3>1, AppendProperties
  <2> QED BY <1>4, <2>1, <2>2
<1>7. FilesOK' BY <1>3, <1>6 DEF FilesOK
<1>8. ASSUME NEW i \in 1..L PROVE Written(i)'
  <2>1. Written(i) BY <1>2
  <2>2. receipts'[i] = receipts[i] /\ parent'[i] = parent[i] BY <1>3, <1>6
  <2>3. parent[i] \in 0..(i - 1) BY <2>1 DEF Written
  <2>4. parent[i] # 0 => receipts'[parent[i]] = receipts[parent[i]] BY <2>3, <1>3, <1>8
  <2> QED BY <2>1, <2>2, <2>4 DEF Written
<1>9. Written(L + 1)'
  <2>1. R(at).kid = kid /\ R(at).payload = P(at) BY DEF Receipt
  <2>2. P(at).at = at /\ P(at).link = link BY DEF Payload
  <2>3. \E q \in 1..Len(Clock) : at \in Clock[q] /\ kid = (IF q < RotateAt THEN "k1" ELSE "k2")
    BY <1>1, <1>2 DEF SigningKid
  <2>4. prev # 0 => receipts'[prev] = receipts[prev] BY <1>3, <1>5
  <2>5. IF prev = 0 THEN link = Genesis ELSE link = HashOf(receipts'[prev]) \/ link = BareOf(receipts'[prev]) BY <2>4
  <2>6. R(at) = Receipt("envelope", AlgOf(kid), kid, P(at), Sig(kid, P(at))) OBVIOUS
  <2>7. P(at) = Payload(L + 1, kid, at, link, "policy") OBVIOUS
  <2> DEFINE r == R(at)
             p == P(at)
             k == kid
             l == link
  <2>8. /\ r.kid = k /\ r.payload = p /\ p.at = at /\ p.link = l
        /\ r = Receipt("envelope", AlgOf(k), k, p, Sig(k, p)) /\ p = Payload(L + 1, k, at, l, "policy")
        /\ receipts'[L + 1] = r
        /\ \E q \in 1..Len(Clock) : at \in Clock[q] /\ k = (IF q < RotateAt THEN "k1" ELSE "k2")
        /\ IF prev = 0 THEN l = Genesis ELSE l = HashOf(receipts'[prev]) \/ l = BareOf(receipts'[prev])
    BY <1>3, <2>1, <2>2, <2>3, <2>5, <2>6, <2>7
  <2> HIDE DEF r, p, k, l
  <2>9. prev \in 0..((L + 1) - 1) BY <1>3, <1>5
  <2> QED BY <2>8, <2>9, <1>6 DEF Written
<1>10. \A i \in 1..Len(receipts') : Written(i)'
  <2>1. \A i \in 1..Len(receipts') : i \in 1..L \/ i = L + 1 BY <1>3
  <2> QED BY <2>1, <1>8, <1>9
<1>11. ShownOK' BY <1>4 DEF ShownOK
<1> QED BY <1>2, <1>4, <1>7, <1>10, <1>11 DEF ActaInv

\* The invariant holds of every state.
THEOREM Kept == ActaSpec => []ActaInv
<1>1. ActaInit => ActaInv
  <2> SUFFICES ASSUME ActaInit PROVE ActaInv
    OBVIOUS
  <2>1. Len(receipts) = 0 /\ Len(parent) = 0 /\ parent \in Seq(Nat) BY DEF ActaInit
  <2>2. IsSeq(receipts) BY DEF ActaInit, IsSeq
  <2>3. now \in 1..Len(Clock) BY ClockIs DEF ActaInit
  <2>4. shown = << >> BY DEF ActaInit
  <2> QED BY <2>1, <2>2, <2>3, <2>4 DEF ActaInv, FilesOK, ShownOK
<1>2. ActaInv /\ [ActaNext]_actaVars => ActaInv'
  <2> SUFFICES ASSUME ActaInv, [ActaNext]_actaVars PROVE ActaInv'
    OBVIOUS
  <2>1. CASE Tick
    <3>1. now' \in 1..Len(Clock) BY <2>1, ClockIs DEF Tick, ActaInv
    <3> QED BY <2>1, <3>1 DEF Tick, ActaInv, FilesOK, Written, ShownOK
  <2>2. CASE Show
    <3>1. now' = now /\ receipts' = receipts /\ parent' = parent BY <2>2 DEF Show
    <3>2. ShownOK'
      <4>1. CASE \E s \in Sequences : shown' = ReceiptsAt(s) /\ edited' = (s \notin Paths)
        BY <3>1, <4>1 DEF ShownOK, Sequences, Paths, Indices, ReceiptsAt
      <4>2. CASE \E s \in Paths : \E i \in 1..Len(s) : \E r \in Edits(receipts[s[i]]) :
                   shown' = [ReceiptsAt(s) EXCEPT ![i] = r] /\ edited' = TRUE
        BY <3>1, <4>2 DEF ShownOK, Paths, Indices, ReceiptsAt
      <4> QED BY <2>2, <4>1, <4>2 DEF Show
    <3> QED BY <3>1, <3>2 DEF ActaInv, FilesOK, Written
  <2>3. CASE Forget BY <2>3 DEF Forget, ActaInv, FilesOK, Written, ShownOK
  <2>4. ASSUME NEW prev \in 0..Len(receipts), NEW bare \in BOOLEAN, Issue(prev, bare) PROVE ActaInv'
    BY <2>4, IssuePreserves
  <2>5. CASE UNCHANGED actaVars
    <3>1. now' = now /\ receipts' = receipts /\ parent' = parent /\ shown' = shown /\ edited' = edited BY <2>5 DEF actaVars
    <3>2. ShownOK'
      <4>1. CASE shown = << >> BY <3>1, <4>1 DEF ShownOK
      <4>2. CASE \E s \in Sequences : shown = ReceiptsAt(s) /\ edited = (s \notin Paths)
        BY <3>1, <4>2 DEF ShownOK, Sequences, Paths, Indices, ReceiptsAt
      <4>3. CASE \E s \in Paths : \E i \in 1..Len(s) : \E r \in Edits(receipts[s[i]]) :
                   shown = [ReceiptsAt(s) EXCEPT ![i] = r] /\ edited = TRUE
        BY <3>1, <4>3 DEF ShownOK, Paths, Indices, ReceiptsAt
      <4> QED BY <4>1, <4>2, <4>3 DEF ActaInv, ShownOK
    <3> QED BY <3>1, <3>2 DEF ActaInv, FilesOK, Written
  <2> QED BY <2>1, <2>2, <2>3, <2>4, <2>5 DEF ActaNext
<1> QED BY <1>1, <1>2, PTL DEF ActaSpec

-----------------------------------------------------------------------------
(* Receipts of the issuer *)

\* The members of a receipt that the issuer wrote.
LEMMA WrittenIs ==
  ASSUME ActaInv, NEW k \in 1..Len(receipts)
  PROVE  LET r == receipts[k]
         IN  /\ r = [shape |-> "envelope", flaw |-> "none", alg |-> AlgOf(r.kid), kid |-> r.kid, payload |-> r.payload,
                     sig |-> [by |-> r.kid, of |-> r.payload, low |-> TRUE]]
             /\ r.kid \in Kids
             /\ r.payload = [id |-> k, issuer |-> r.kid, at |-> r.payload.at, link |-> r.payload.link, pd |-> "policy"]
             /\ \E q \in 1..Len(Clock) : r.payload.at \in Clock[q] /\ r.kid = (IF q < RotateAt THEN "k1" ELSE "k2")
             /\ parent[k] \in 0..(k - 1)
             /\ IF parent[k] = 0 THEN r.payload.link = Genesis
                ELSE r.payload.link = HashOf(receipts[parent[k]]) \/ r.payload.link = BareOf(receipts[parent[k]])
<1>1. Written(k) BY DEF ActaInv
<1>2. receipts[k].kid \in Kids BY <1>1 DEF Written, Kids
<1> QED BY <1>1, <1>2 DEF Written, Receipt, Payload, Sig

\* The same, member by member.
LEMMA Members ==
  ASSUME ActaInv, NEW k \in 1..Len(receipts)
  PROVE  LET r == receipts[k]
         IN  /\ r.shape = "envelope" /\ r.flaw = "none" /\ r.kid \in Kids /\ r.alg = AlgOf(r.kid)
             /\ r.payload.id = k /\ r.payload.issuer = r.kid /\ r.payload.pd = "policy"
             /\ r.sig.by = r.kid /\ r.sig.of = r.payload /\ r.sig.low = TRUE
<1>1. PICK r : r = receipts[k] OBVIOUS
<1>2. PICK p : p = r.payload OBVIOUS
<1>3. PICK a : a = r.kid OBVIOUS
<1>4. /\ r = [shape |-> "envelope", flaw |-> "none", alg |-> AlgOf(a), kid |-> a, payload |-> p,
              sig |-> [by |-> a, of |-> p, low |-> TRUE]]
      /\ a \in Kids
      /\ p = [id |-> k, issuer |-> a, at |-> p.at, link |-> p.link, pd |-> "policy"]
  BY <1>1, <1>2, <1>3, WrittenIs
<1>5. /\ r.shape = "envelope" /\ r.flaw = "none" /\ r.kid = a /\ r.alg = AlgOf(a) /\ r.payload = p
      /\ r.sig.by = a /\ r.sig.of = p /\ r.sig.low = TRUE
  BY <1>4
<1>6. p.id = k /\ p.issuer = a /\ p.pd = "policy" BY <1>4
<1> QED BY <1>1, <1>4, <1>5, <1>6

\* A link names one receipt.
LEMMA LinkPins ==
  ASSUME NEW x, NEW y
  PROVE  /\ HashOf(x) # Genesis /\ BareOf(x) # Genesis /\ HashOf(x) # BareOf(y)
         /\ HashOf(x) = HashOf(y) => x = y
         /\ BareOf(x) = BareOf(y) => x = y
<1>1. Len(HashOf(x)) = 2 /\ Len(BareOf(x)) = 1 /\ Len(BareOf(y)) = 1 /\ Len(Genesis) = 0 BY DEF HashOf, BareOf, Genesis
<1>2. HashOf(x) # Genesis /\ BareOf(x) # Genesis /\ HashOf(x) # BareOf(y) BY <1>1
<1>3. HashOf(x)[2] = x /\ HashOf(y)[2] = y /\ BareOf(x)[1] = x /\ BareOf(y)[1] = y BY DEF HashOf, BareOf
<1> QED BY <1>2, <1>3

\* The receipt that a receipt's link hashes is the one it was chained to.
LEMMA ParentPinned ==
  ASSUME ActaInv, NEW k \in 1..Len(receipts), NEW x, receipts[k].payload.link \in {HashOf(x), BareOf(x)}
  PROVE  parent[k] \in 1..Len(receipts) /\ receipts[parent[k]] = x
<1>1. /\ parent[k] \in 0..(k - 1)
      /\ IF parent[k] = 0 THEN receipts[k].payload.link = Genesis
         ELSE receipts[k].payload.link = HashOf(receipts[parent[k]]) \/ receipts[k].payload.link = BareOf(receipts[parent[k]])
  BY WrittenIs
<1>2. HashOf(x) # Genesis /\ BareOf(x) # Genesis BY LinkPins
<1>3. parent[k] # 0 BY <1>1, <1>2
<1> DEFINE y == receipts[parent[k]]
<1>4. HashOf(x) # BareOf(y) /\ (HashOf(x) = HashOf(y) => x = y) /\ (BareOf(x) = BareOf(y) => x = y) BY LinkPins
<1>5. HashOf(y) # BareOf(x) BY LinkPins
<1> HIDE DEF y
<1>6. x = y BY <1>1, <1>3, <1>4, <1>5 DEF y
<1>7. Len(receipts) \in Nat
  <2>1. IsSeq(receipts) BY DEF ActaInv, FilesOK
  <2> QED BY <2>1, LenProperties DEF IsSeq
<1>8. parent[k] \in 1..Len(receipts) BY <1>1, <1>3, <1>7
<1> QED BY <1>6, <1>8 DEF y

\* What a receipt that passes has shown, whatever the party holds.
LEMMA PassMeans ==
  ASSUME NEW r, NEW rp, VerifyReceipt(r, rp) = "pass"
  PROVE  /\ r.flaw = "none" /\ r.payload.issuer = r.kid /\ r.kid \in Kids
         /\ r.alg = AlgOf(r.kid) /\ SignatureHolds(r, r.kid)
BY DEF VerifyReceipt, NoEntry

\* A chain that passes: every receipt does, and no link is a problem.
LEMMA ChainPassMeans ==
  ASSUME NEW rs, NEW rp \in Parties, ChainVerdict(rs, rp) = "pass", NEW i \in 1..Len(rs)
  PROVE  VerifyReceipt(rs[i], rp) = "pass" /\ ~LinkProblem(rs, i, rp)
<1>1. VerifyReceipt(rs[i], rp) # "fail" /\ VerifyReceipt(rs[i], rp) # "not_assessed" /\ ~LinkProblem(rs, i, rp)
  BY DEF ChainVerdict
<1>2. VerifyReceipt(rs[i], rp) \in {"pass", "fail", "not_assessed"} BY KeysInformReceipt
<1> QED BY <1>1, <1>2

\* An edit that needs no key of the issuer never passes, but the flat form of an
\* EdDSA receipt.
LEMMA EditsFail ==
  ASSUME ActaInv, NEW k \in 1..Len(receipts), NEW r \in Edits(receipts[k]), NEW rp, VerifyReceipt(r, rp) = "pass"
  PROVE  r = Reshaped(receipts[k]) /\ r # receipts[k] /\ r.payload = receipts[k].payload
<1>1. PICK o : o = receipts[k] OBVIOUS
<1>2. PICK p : p = o.payload OBVIOUS
<1>3. PICK a : a = o.kid OBVIOUS
<1>4. PICK t, l : t = p.at /\ l = p.link OBVIOUS
<1>5. PICK g : g = AlgOf(a) OBVIOUS
<1>6. /\ o = [shape |-> "envelope", flaw |-> "none", alg |-> g, kid |-> a, payload |-> p,
              sig |-> [by |-> a, of |-> p, low |-> TRUE]]
      /\ a \in Kids
      /\ p = [id |-> k, issuer |-> a, at |-> t, link |-> l, pd |-> "policy"]
  BY <1>1, <1>2, <1>3, <1>4, <1>5, WrittenIs
<1>7. /\ r.flaw = "none" /\ r.payload.issuer = r.kid /\ r.kid \in Kids
      /\ r.alg = AlgOf(r.kid) /\ SignatureHolds(r, r.kid)
  BY PassMeans
<1>8. r.sig.by = r.kid /\ r.sig.of = r.payload /\ (r.alg = "ES256" => r.sig.low) BY <1>7 DEF SignatureHolds
<1>9. k # 0 OBVIOUS
<1>10. r \in Edits(o) BY <1>1
<1>11. CASE r = AlteredPayload(o)
  <2>1. r = [o EXCEPT !.payload.id = 0] BY <1>11 DEF AlteredPayload
  <2>2. r.payload.id = 0 /\ r.sig.of = p BY <2>1, <1>6
  <2>3. p.id = k BY <1>6
  <2> QED BY <2>2, <2>3, <1>8, <1>9
<1>12. CASE r = FlippedAlg(o)
  <2>1. r.alg = "ML-DSA-65" BY <1>12, <1>6 DEF FlippedAlg
  <2> QED BY <2>1, <1>7 DEF AlgOf
<1>13. CASE r = Reshaped(o)
  <2>1. r.shape = "flat" /\ r.payload = p BY <1>13, <1>6 DEF Reshaped
  <2>2. o.shape = "envelope" BY <1>6
  <2> QED BY <2>1, <2>2, <1>13, <1>1, <1>2
<1>14. CASE r = Flawed(o)
  <2>1. r.flaw = "signature_in_signing_input" BY <1>14, <1>6 DEF Flawed
  <2> QED BY <2>1, <1>7
<1>15. CASE r = Outsider(o, "eve") \/ r = Outsider(o, a)
  <2>1. r.sig.by = "eve" BY <1>15 DEF Outsider, Receipt, Sig
  <2>2. "eve" \notin Kids BY DEF Kids
  <2> QED BY <2>1, <2>2, <1>7, <1>8
<1>16. CASE o.alg = "ES256" /\ r = Twin(o)
  <2>1. r = [o EXCEPT !.sig.low = FALSE] BY <1>16 DEF Twin
  <2>2. r.alg = "ES256" /\ r.sig.low = FALSE BY <2>1, <1>6, <1>16
  <2> QED BY <2>2, <1>8
<1> QED BY <1>3, <1>10, <1>11, <1>12, <1>13, <1>14, <1>15, <1>16 DEF Edits

\* A receipt of the issuer passes for a party with all keys: its instant is on the
\* side of the rotation that its key is for, however the instant is written.
LEMMA WrittenPasses ==
  ASSUME ActaInv, NEW k \in 1..Len(receipts)
  PROVE  VerifyReceipt(receipts[k], Informed) = "pass"
<1>1. PICK r : r = receipts[k] OBVIOUS
<1>2. /\ r.flaw = "none" /\ r.kid \in Kids /\ r.alg = AlgOf(r.kid) /\ r.payload.issuer = r.kid
      /\ r.sig.by = r.kid /\ r.sig.of = r.payload /\ r.sig.low = TRUE
  BY <1>1, Members
<1>3. PICK q \in 1..Len(Clock) : r.payload.at \in Clock[q] /\ r.kid = (IF q < RotateAt THEN "k1" ELSE "k2")
  BY <1>1, WrittenIs
<1>4. PICK t : t = r.payload.at OBVIOUS
<1>5. PICK c : c = Change OBVIOUS
<1>6. c \in Clock[RotateAt] /\ RotateAt \in 1..Len(Clock)
  <2>1. RotateAt \in 1..Len(Clock) BY ActaConstants, ClockIs
  <2>2. \E x : x \in Clock[RotateAt] BY <2>1, ActaConstants
  <2> QED BY <2>1, <2>2, <1>5 DEF Change
<1>7. t \in Texts /\ c \in Texts /\ ValidInstant(t)
  <2>1. Clock[q] \in SUBSET Texts /\ Clock[RotateAt] \in SUBSET Texts BY <1>3, <1>6, ActaConstants, ElementOfSeq
  <2> QED BY <2>1, <1>3, <1>4, <1>6, ActaConstants
<1>8. Earlier(t, c) <=> q < RotateAt BY <1>3, <1>4, <1>6, ActaConstants
<1>9. KeyBefore(InstantKey(t), InstantKey(c)) <=> q < RotateAt BY <1>7, <1>8, InstantsCompare
<1>10. PICK e : e = FullEntry(r.kid) OBVIOUS
<1>11. e \in Entries(r.kid) BY <1>10 DEF Entries
<1>12. /\ e.there = TRUE /\ e.ok = TRUE
       /\ e.from  = (IF r.kid = "k1" THEN NoBound ELSE At(c))
       /\ e.until = (IF r.kid = "k1" THEN At(c) ELSE NoBound)
  BY <1>2, <1>5, <1>10, <1>11, EntryShape
<1>13. /\ Window(t, NoBound, At(c)) = (IF KeyBefore(InstantKey(t), InstantKey(c)) THEN "inside" ELSE "outside")
       /\ Window(t, At(c), NoBound) = (IF KeyBefore(InstantKey(t), InstantKey(c)) THEN "outside" ELSE "inside")
  BY WindowShape
<1>14. Window(t, e.from, e.until) = "inside" BY <1>3, <1>9, <1>12, <1>13
<1>15. Informed.mldsa = TRUE /\ Informed.keys[r.kid] = e BY <1>2, <1>10 DEF Informed, FullKeys
<1>16. SignatureHolds(r, r.kid) BY <1>2 DEF SignatureHolds
<1> QED BY <1>1, <1>2, <1>4, <1>7, <1>12, <1>14, <1>15, <1>16 DEF VerifyReceipt

\* A selection of receipts, and its length.
LEMMA ChainIs ==
  ASSUME ActaInv, NEW s \in Sequences
  PROVE  /\ Len(s) \in Nat \ {0} /\ Len(ReceiptsAt(s)) = Len(s)
         /\ \A i \in 1..Len(s) : s[i] \in 1..Len(receipts) /\ ReceiptsAt(s)[i] = receipts[s[i]]
<1>1. PICK n \in 1..MaxShown : s \in [1..n -> 1..Len(receipts)] BY DEF Sequences, Indices
<1>2. n \in Nat \ {0} OBVIOUS
<1>3. s \in Seq(1..Len(receipts)) BY <1>1, <1>2, SeqDef
<1>4. Len(s) = n BY <1>1, <1>2, <1>3, LenProperties
<1>5. \A i \in 1..n : s[i] \in 1..Len(receipts) BY <1>1
<1> DEFINE c == [i \in 1..n |-> receipts[s[i]]]
           S == {receipts[i] : i \in 1..Len(receipts)}
<1>6. ReceiptsAt(s) = c BY <1>4 DEF ReceiptsAt
<1>7. \A i \in 1..n : receipts[s[i]] \in S BY <1>5
<1> HIDE DEF S
<1>8. c \in Seq(S) BY <1>2, <1>7, IsASeq
<1>9. DOMAIN c = 1..n /\ \A i \in 1..n : c[i] = receipts[s[i]] OBVIOUS
<1> HIDE DEF c
<1>10. Len(c) \in Nat /\ DOMAIN c = 1..Len(c) BY <1>8, LenProperties
<1>11. Len(c) = n BY <1>2, <1>9, <1>10
<1> QED BY <1>2, <1>4, <1>5, <1>6, <1>9, <1>11

\* A path is a selection in which each receipt was chained to the one before it.
LEMMA PathIs ==
  ASSUME NEW s \in Paths
  PROVE  s \in Sequences /\ \A i \in 2..Len(s) : parent[s[i]] = s[i - 1]
BY DEF Paths, Sequences

\* A path with one receipt replaced.
IsEdit(rs, s, j, r) == rs = [ReceiptsAt(s) EXCEPT ![j] = r]

\* It has the receipts of the path everywhere else.
LEMMA EditedIs ==
  ASSUME ActaInv, NEW s \in Sequences, NEW j \in 1..Len(s), NEW r,
         NEW rs, IsEdit(rs, s, j, r)
  PROVE  /\ Len(s) \in Nat \ {0} /\ Len(rs) = Len(s) /\ rs[j] = r
         /\ \A i \in 1..Len(s) : s[i] \in 1..Len(receipts) /\ (i # j => rs[i] = receipts[s[i]])
<1>0. rs = [ReceiptsAt(s) EXCEPT ![j] = r] BY DEF IsEdit
<1>1. /\ Len(s) \in Nat \ {0} /\ Len(ReceiptsAt(s)) = Len(s)
      /\ \A i \in 1..Len(s) : s[i] \in 1..Len(receipts) /\ ReceiptsAt(s)[i] = receipts[s[i]]
  BY ChainIs
<1> DEFINE n == Len(s)
           S == {receipts[i] : i \in 1..Len(receipts)} \cup {r}
<1>2. ReceiptsAt(s) = [i \in 1..n |-> receipts[s[i]]] BY DEF ReceiptsAt
<1> HIDE DEF n
<1>3. n \in Nat \ {0} /\ j \in 1..n BY <1>1 DEF n
<1>4. rs = [i \in 1..n |-> IF i = j THEN r ELSE receipts[s[i]]] BY <1>0, <1>2, <1>3
<1>5. \A i \in 1..n : (IF i = j THEN r ELSE receipts[s[i]]) \in S BY <1>1 DEF n
<1> HIDE DEF S
<1>6. [i \in 1..n |-> IF i = j THEN r ELSE receipts[s[i]]] \in Seq(S) BY <1>3, <1>5, IsASeq
<1>7. rs \in Seq(S) BY <1>4, <1>6
<1>8. DOMAIN rs = 1..n /\ rs[j] = r /\ \A i \in 1..n : i # j => rs[i] = receipts[s[i]] BY <1>3, <1>4
<1>9. Len(rs) \in Nat /\ DOMAIN rs = 1..Len(rs) BY <1>7, LenProperties
<1>10. Len(rs) = n BY <1>3, <1>8, <1>9
<1> QED BY <1>0, <1>1, <1>8, <1>10 DEF n

-----------------------------------------------------------------------------
(* The properties *)

\* The links of a chain that passes name the parents of the receipts in it.
LEMMA PassLinks ==
  ASSUME ActaInv, NEW rs, NEW rp \in Parties, ChainVerdict(rs, rp) = "pass", Len(rs) \in Nat,
         NEW i \in 2..Len(rs), NEW k \in 1..Len(receipts), rs[i] = receipts[k]
  PROVE  parent[k] \in 1..Len(receipts) /\ rs[i - 1] = receipts[parent[k]]
<1>1. i \in 1..Len(rs) /\ i > 1 OBVIOUS
<1>2. ~LinkProblem(rs, i, rp) BY <1>1, ChainPassMeans
<1>3. BodyOf(rs[i]) \in {HashOf(rs[i - 1]), BareOf(rs[i - 1])} BY <1>1, <1>2 DEF LinkProblem
<1>4. receipts[k].flaw = "none" BY Members
<1>5. receipts[k].payload.link \in {HashOf(rs[i - 1]), BareOf(rs[i - 1])} BY <1>3, <1>4 DEF BodyOf
<1> QED BY <1>5, ParentPinned

\* A chain of the issuer's receipts that passes.
LEMMA PassOfChain ==
  ASSUME ActaInv, NEW s \in Sequences, shown = ReceiptsAt(s), NEW rp \in Parties, ChainVerdict(shown, rp) = "pass",
         NEW i \in 1..Len(shown)
  PROVE  IssuedAt(i) /\ (i > 1 => parent[shown[i].payload.id] = shown[i - 1].payload.id)
<1>1. /\ Len(s) \in Nat \ {0} /\ Len(shown) = Len(s)
      /\ \A j \in 1..Len(s) : s[j] \in 1..Len(receipts) /\ shown[j] = receipts[s[j]]
  BY ChainIs
<1>2. \A j \in 1..Len(s) : shown[j].payload.id = s[j] BY <1>1, Members
<1>3. IssuedAt(i) BY <1>1, <1>2 DEF IssuedAt, Indices
<1>4. ASSUME i > 1 PROVE parent[shown[i].payload.id] = shown[i - 1].payload.id
  <2>1. PICK k : k = s[i] OBVIOUS
  <2>2. k \in 1..Len(receipts) /\ shown[i] = receipts[k] /\ i \in 2..Len(shown) /\ Len(shown) \in Nat BY <1>1, <1>4, <2>1
  <2>3. parent[k] \in 1..Len(receipts) /\ shown[i - 1] = receipts[parent[k]]
    <3>1. PICK rs : rs = shown OBVIOUS
    <3>2. ChainVerdict(rs, rp) = "pass" /\ Len(rs) \in Nat /\ i \in 2..Len(rs) /\ rs[i] = receipts[k] BY <2>2, <3>1
    <3>3. parent[k] \in 1..Len(receipts) /\ rs[i - 1] = receipts[parent[k]] BY <2>2, <3>2, PassLinks
    <3> QED BY <3>1, <3>3
  <2>4. receipts[parent[k]].payload.id = parent[k] BY <2>3, Members
  <2> QED BY <2>1, <2>2, <2>3, <2>4, <1>1, <1>2
<1> QED BY <1>3, <1>4

\* A path with an edited receipt that passes: the edit is the flat form of the last.
LEMMA PassOfEdited ==
  ASSUME ActaInv, NEW s \in Paths, NEW j \in 1..Len(s), NEW r \in Edits(receipts[s[j]]),
         shown = [ReceiptsAt(s) EXCEPT ![j] = r], NEW rp \in Parties, ChainVerdict(shown, rp) = "pass",
         NEW i \in 1..Len(shown)
  PROVE  /\ IssuedAt(i) \/ (i = Len(shown) /\ \E n \in Indices : shown[i] = Reshaped(receipts[n]))
         /\ i > 1 => parent[shown[i].payload.id] = shown[i - 1].payload.id
<1>1. s \in Sequences /\ \A m \in 2..Len(s) : parent[s[m]] = s[m - 1] BY PathIs
<1>2. /\ Len(s) \in Nat \ {0} /\ Len(shown) = Len(s) /\ shown[j] = r
      /\ \A m \in 1..Len(s) : s[m] \in 1..Len(receipts) /\ (m # j => shown[m] = receipts[s[m]])
  <2>1. PICK rs : rs = shown OBVIOUS
  <2>2. IsEdit(rs, s, j, r) /\ s \in Sequences BY <1>1, <2>1 DEF IsEdit
  <2>3. /\ Len(s) \in Nat \ {0} /\ Len(rs) = Len(s) /\ rs[j] = r
        /\ \A m \in 1..Len(s) : s[m] \in 1..Len(receipts) /\ (m # j => rs[m] = receipts[s[m]])
    BY ONLY <2>2, ActaInv, j \in 1..Len(s), EditedIs
  <2> QED BY <2>1, <2>3
<1>3. PICK k : k = s[j] OBVIOUS
<1>4. k \in 1..Len(receipts) /\ r \in Edits(receipts[k]) BY <1>2, <1>3
<1>5. VerifyReceipt(r, rp) = "pass"
  <2>1. j \in 1..Len(shown) BY <1>2
  <2>2. VerifyReceipt(shown[j], rp) = "pass" BY <2>1, ChainPassMeans
  <2> QED BY <2>2, <1>2
<1>6. r = Reshaped(receipts[k]) /\ r # receipts[k] /\ r.payload = receipts[k].payload BY <1>4, <1>5, EditsFail
<1>7. \A m \in 1..Len(s) : shown[m].payload.id = s[m]
  <2>1. \A m \in 1..Len(s) : receipts[s[m]].payload.id = s[m] BY <1>2, Members
  <2>2. r.payload.id = s[j] BY <2>1, <1>3, <1>6
  <2> QED BY <2>1, <2>2, <1>2
<1>8. j = Len(shown)
  <2> SUFFICES ASSUME j # Len(shown) PROVE FALSE
    OBVIOUS
  <2>1. PICK m : m = j + 1 OBVIOUS
  <2>2. m \in 2..Len(shown) /\ m \in 2..Len(s) /\ m \in 1..Len(s) /\ m # j /\ m - 1 = j /\ Len(shown) \in Nat BY <1>2, <2>1
  <2>3. PICK h : h = s[m] OBVIOUS
  <2>4. h \in 1..Len(receipts) /\ shown[m] = receipts[h] BY <1>2, <2>2, <2>3
  <2>5. shown[m - 1] = receipts[parent[h]]
    <3>1. PICK rs : rs = shown OBVIOUS
    <3>2. ChainVerdict(rs, rp) = "pass" /\ Len(rs) \in Nat /\ m \in 2..Len(rs) /\ rs[m] = receipts[h] BY <2>2, <2>4, <3>1
    <3>3. parent[h] \in 1..Len(receipts) /\ rs[m - 1] = receipts[parent[h]] BY <2>4, <3>2, PassLinks
    <3> QED BY <3>1, <3>3
  <2>6. parent[h] = s[j] BY <1>1, <2>2, <2>3
  <2> QED BY <2>2, <2>5, <2>6, <1>2, <1>3, <1>6
<1>9. CASE i = j
  <2>1. \E n \in Indices : shown[i] = Reshaped(receipts[n]) BY <1>2, <1>4, <1>6, <1>9 DEF Indices
  <2>2. i > 1 => parent[s[i]] = s[i - 1] /\ i - 1 \in 1..Len(s) BY <1>1, <1>2
  <2> QED BY <1>2, <1>7, <1>8, <1>9, <2>1, <2>2
<1>10. CASE i # j
  <2>1. IssuedAt(i) BY <1>2, <1>7, <1>10 DEF IssuedAt, Indices
  <2>2. i > 1 => parent[s[i]] = s[i - 1] /\ i - 1 \in 1..Len(s) BY <1>1, <1>2
  <2> QED BY <1>2, <1>7, <2>1, <2>2
<1> QED BY <1>9, <1>10

\* verify_chain: a chain that passes, for any relying party, is what the issuer
\* wrote, each receipt chained to the one before it.
THEOREM PassedIsPath == ActaSpec => []PassIsPath
<1>1. ActaInv => PassIsPath
  <2> SUFFICES ASSUME ActaInv, NEW rp \in Parties, ChainVerdict(shown, rp) = "pass", NEW i \in 1..Len(shown)
               PROVE  /\ IssuedAt(i) \/ (i = Len(shown) /\ \E n \in Indices : shown[i] = Reshaped(receipts[n]))
                      /\ i > 1 => parent[shown[i].payload.id] = shown[i - 1].payload.id
    BY Zenon DEF PassIsPath
  <2>1. shown # << >> BY DEF ActaInv
  <2>2. CASE \E s \in Sequences : shown = ReceiptsAt(s) BY <2>2, PassOfChain
  <2>3. CASE \E s \in Paths : \E j \in 1..Len(s) : \E r \in Edits(receipts[s[j]]) : shown = [ReceiptsAt(s) EXCEPT ![j] = r]
    <3>1. PICK s \in Paths : \E j \in 1..Len(s) : \E r \in Edits(receipts[s[j]]) : shown = [ReceiptsAt(s) EXCEPT ![j] = r] BY <2>3
    <3>2. PICK j \in 1..Len(s) : \E r \in Edits(receipts[s[j]]) : shown = [ReceiptsAt(s) EXCEPT ![j] = r] BY <3>1
    <3>3. PICK r \in Edits(receipts[s[j]]) : shown = [ReceiptsAt(s) EXCEPT ![j] = r] BY <3>2
    <3> QED BY <3>3, PassOfEdited
  <2>4. ShownOK BY DEF ActaInv
  <2> QED BY <2>1, <2>2, <2>3, <2>4 DEF ShownOK
<1> QED BY <1>1, Kept, PTL

\* What is shown has a length.
LEMMA ShownLength ==
  ASSUME ActaInv
  PROVE  Len(shown) \in Nat
<1>1. CASE shown = << >> BY <1>1
<1>2. ASSUME NEW s \in Sequences, shown = ReceiptsAt(s) PROVE Len(shown) \in Nat BY <1>2, ChainIs
<1>3. ASSUME NEW s \in Paths, NEW j \in 1..Len(s), NEW r \in Edits(receipts[s[j]]), shown = [ReceiptsAt(s) EXCEPT ![j] = r]
      PROVE  Len(shown) \in Nat
  <2>1. s \in Sequences BY PathIs
  <2>2. PICK rs : rs = shown OBVIOUS
  <2>3. IsEdit(rs, s, j, r) BY <1>3, <2>2 DEF IsEdit
  <2>4. Len(s) \in Nat \ {0} /\ Len(rs) = Len(s) BY <2>1, <2>3, EditedIs
  <2> QED BY <2>2, <2>4
<1> QED BY <1>1, <1>2, <1>3 DEF ActaInv, ShownOK

\* verify_chain: what the relying party lacks never makes a finding, and never
\* hides that the receipts are not in the order they were chained in.
THEOREM AbsenceOnlyInforms == ActaSpec => []KeysOnlyInform
<1>1. ActaInv => KeysOnlyInform
  <2> SUFFICES ASSUME ActaInv, NEW rp \in Parties
               PROVE  /\ ChainVerdict(shown, rp) \in {"not_assessed", ChainVerdict(shown, Informed)}
                      /\ ( /\ \A i \in 1..Len(shown) : IssuedAt(i)
                           /\ \E i \in 2..Len(shown) : parent[shown[i].payload.id] # shown[i - 1].payload.id )
                           => ChainVerdict(shown, rp) = "fail"
    BY DEF KeysOnlyInform
  <2>1. Len(shown) \in Nat BY ShownLength
  <2>2. ChainVerdict(shown, rp) \in {"not_assessed", ChainVerdict(shown, Informed)} BY <2>1, KeysInformChain
  <2>3. ASSUME \A i \in 1..Len(shown) : IssuedAt(i),
               NEW i \in 2..Len(shown), parent[shown[i].payload.id] # shown[i - 1].payload.id
        PROVE  ChainVerdict(shown, rp) = "fail"
    <3>1. PICK k : k = shown[i].payload.id OBVIOUS
    <3>2. i \in 1..Len(shown) /\ i - 1 \in 1..Len(shown) /\ i > 1 BY <2>1
    <3>3. k \in 1..Len(receipts) /\ shown[i] = receipts[k] BY <2>3, <3>1, <3>2 DEF IssuedAt, Indices
    <3>4. PICK x : x = shown[i - 1] OBVIOUS
    <3>5. ASSUME BodyOf(shown[i]) \in {HashOf(x), BareOf(x)} PROVE FALSE
      <4>1. receipts[k].flaw = "none" BY <3>3, Members
      <4>2. receipts[k].payload.link \in {HashOf(x), BareOf(x)} BY <3>3, <3>5, <4>1 DEF BodyOf
      <4>3. parent[k] \in 1..Len(receipts) /\ receipts[parent[k]] = x BY <3>3, <4>2, ParentPinned
      <4>4. receipts[parent[k]].payload.id = parent[k] BY <4>3, Members
      <4> QED BY <4>3, <4>4, <3>1, <3>4, <2>3
    <3>6. LinkProblem(shown, i, rp) BY <3>2, <3>4, <3>5 DEF LinkProblem
    <3> QED BY <3>2, <3>6 DEF ChainVerdict
  <2> QED BY <2>2, <2>3
<1> QED BY <1>1, Kept, PTL

\* verify_receipt at a key rotation: a chain nobody edited passes for a party with
\* all keys, and is never a failure for one that lacks or misconfigured some.
THEOREM HonestPass == ActaSpec => []HonestChains
<1>1. ActaInv => HonestChains
  <2> SUFFICES ASSUME ActaInv, shown # << >>, ~edited
               PROVE  /\ ChainVerdict(shown, Informed) = "pass"
                      /\ \A rp \in Parties : ChainVerdict(shown, rp) # "fail"
    BY DEF HonestChains
  <2>1. PICK s \in Sequences : shown = ReceiptsAt(s) /\ edited = (s \notin Paths) BY DEF ActaInv, ShownOK
  <2>2. s \in Paths BY <2>1
  <2>3. \A i \in 2..Len(s) : parent[s[i]] = s[i - 1] BY <2>2, PathIs
  <2>4. /\ Len(s) \in Nat \ {0} /\ Len(shown) = Len(s)
        /\ \A i \in 1..Len(s) : s[i] \in 1..Len(receipts) /\ shown[i] = receipts[s[i]]
    BY <2>1, ChainIs
  <2>5. ASSUME NEW i \in 1..Len(shown)
        PROVE  VerifyReceipt(shown[i], Informed) = "pass" /\ ~PolicyProblem(shown[i])
    <3>1. s[i] \in 1..Len(receipts) /\ shown[i] = receipts[s[i]] BY <2>4
    <3>2. PICK k : k = s[i] OBVIOUS
    <3>3. k \in 1..Len(receipts) /\ shown[i] = receipts[k] BY <3>1, <3>2
    <3>4. VerifyReceipt(receipts[k], Informed) = "pass" BY <3>3, WrittenPasses
    <3>5. receipts[k].flaw = "none" /\ receipts[k].payload.pd = "policy" BY <3>3, Members
    <3> QED BY <3>3, <3>4, <3>5 DEF PolicyProblem
  <2>6. ASSUME NEW i \in 1..Len(shown) PROVE ~LinkProblem(shown, i, Informed)
    <3> SUFFICES ASSUME i > 1 PROVE ~LinkProblem(shown, i, Informed)
      BY DEF LinkProblem
    <3>1. i \in 2..Len(s) /\ i - 1 \in 1..Len(shown) /\ i - 1 \in 1..Len(s) BY <2>4
    <3>2. PICK k : k = s[i] OBVIOUS
    <3>3. k \in 1..Len(receipts) /\ shown[i] = receipts[k] /\ parent[k] = s[i - 1] BY <2>3, <2>4, <3>1, <3>2
    <3>4. shown[i - 1] = receipts[parent[k]] /\ parent[k] \in 1..Len(receipts) BY <2>4, <3>1, <3>3
    <3>5. receipts[k].flaw = "none" BY <3>3, Members
    <3>6. IF parent[k] = 0 THEN receipts[k].payload.link = Genesis
          ELSE receipts[k].payload.link = HashOf(receipts[parent[k]]) \/ receipts[k].payload.link = BareOf(receipts[parent[k]])
      BY <3>3, WrittenIs
    <3>7. receipts[k].payload.link = HashOf(shown[i - 1]) \/ receipts[k].payload.link = BareOf(shown[i - 1])
      BY <3>4, <3>6
    <3>8. HashOf(shown[i - 1]) # Genesis /\ BareOf(shown[i - 1]) # Genesis BY LinkPins
    <3>9. BodyOf(shown[i]) = receipts[k].payload.link BY <3>3, <3>5 DEF BodyOf
    <3>10. VerifyReceipt(shown[i - 1], Informed) # "fail" BY <2>5, <3>1
    <3> QED BY <3>7, <3>8, <3>9, <3>10 DEF LinkProblem
  <2>7. ChainVerdict(shown, Informed) = "pass" BY <2>5, <2>6 DEF ChainVerdict
  <2>8. ASSUME NEW rp \in Parties PROVE ChainVerdict(shown, rp) # "fail"
    <3>1. Len(shown) \in Nat BY <2>4
    <3>2. ChainVerdict(shown, rp) \in {"not_assessed", ChainVerdict(shown, Informed)} BY <3>1, KeysInformChain
    <3> QED BY <2>7, <3>2
  <2> QED BY <2>7, <2>8
<1> QED BY <1>1, Kept, PTL

=============================================================================
