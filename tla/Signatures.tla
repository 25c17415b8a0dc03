----------------------------- MODULE Signatures -----------------------------
(***************************************************************************)
(* signer.py: the hybrid signatures of a ledger's entries and              *)
(* verify_ledger_signatures, the verdict on them.                          *)
(*                                                                         *)
(* An entry is [prev, data, self, sig, signer, pqsig, pqsigner].  A hash   *)
(* is the sequence of the data hashed, so self = Append(prev, data) when   *)
(* the entry recomputes.  A signature is <<key, hash>>, NoSig, or BadSig   *)
(* (not strict base64 of its length).                                      *)
(***************************************************************************)
EXTENDS Integers, Sequences, FiniteSets

None      == "none"
NoSig     == << >>
BadSig    == <<"malformed">>
WeakKey   == "weak"     \* an Ed25519 key of small or mixed order

Chain(datas) ==
  [i \in 1..Len(datas) |->
     [prev |-> SubSeq(datas, 1, i - 1), data |-> datas[i], self |-> SubSeq(datas, 1, i),
      sig |-> NoSig, signer |-> None, pqsig |-> NoSig, pqsigner |-> None]]

\* sign_ledger, one entry: without a PQ key the stale PQ fields are stripped.
Signed(e, ed, pq) ==
  [e EXCEPT !.sig = <<ed, e.self>>, !.signer = ed,
            !.pqsig = IF pq = None THEN NoSig ELSE <<pq, e.self>>, !.pqsigner = pq]

\* _content_self_hash_ok
ContentOk(e) == e.self = Append(e.prev, e.data)

\* The curve equation: under a key of small order a signature fits any message.
EdVerifies(key, sig, hash) == sig = <<key, hash>> \/ (key = WeakKey /\ sig[1] = WeakKey)

\* ed25519_order.strict_problem: such keys are refused before the equation.
StrictProblem(key) == key = WeakKey

(* The Ed25519 outcome of an entry, in the order of the code; opt.ed is    *)
(* the expected key.                                                       *)
EdOutcome(e, opt) ==
  IF e.sig = NoSig \/ e.signer = None             THEN "missing"
  ELSE IF ~ContentOk(e)                           THEN "content_hash_mismatch"
  ELSE IF opt.ed # None /\ e.signer # opt.ed      THEN "signer_mismatch"
  ELSE IF e.sig = BadSig                          THEN "malformed_signature_field"
  ELSE IF StrictProblem(e.signer)                 THEN "small_order_key"
  ELSE IF ~EdVerifies(e.signer, e.sig, e.self)    THEN "bad_signature"
  ELSE "ok"

\* Outcomes after which the loop goes on to the PQ fields of the entry.
ReachesPq == {"ok", "small_order_key", "bad_signature"}

PqOutcome(e, opt) ==
  IF EdOutcome(e, opt) \notin ReachesPq             THEN "unreached"
  ELSE IF e.pqsig = NoSig /\ e.pqsigner = None      THEN (IF opt.pq # None THEN "pq_missing" ELSE "absent")
  ELSE IF e.pqsig = NoSig \/ e.pqsigner = None      THEN "half"
  ELSE IF opt.pq # None /\ e.pqsigner # opt.pq      THEN "pq_signer_mismatch"
  ELSE IF e.pqsig = BadSig                          THEN "malformed_pq_field"
  ELSE IF ~opt.mldsa                                THEN (IF opt.pq # None THEN "pq_unverifiable" ELSE "unverified")
  ELSE IF e.pqsig # <<e.pqsigner, e.self>>          THEN "bad_pq_signature"
  ELSE "ok"

PqFailures  == {"pq_missing", "half", "pq_signer_mismatch", "malformed_pq_field", "pq_unverifiable", "bad_pq_signature"}

PqStatus(es, opt) ==
  LET out     == {PqOutcome(es[i], opt) : i \in 1..Len(es)}
      reasons == out \cap PqFailures
  IN  IF reasons = {"pq_unverifiable"}                               THEN "unverifiable"
      ELSE IF reasons = {"pq_missing"}                               THEN "missing"
      ELSE IF reasons # {}                                           THEN "invalid"
      ELSE IF out \subseteq {"unreached", "absent"}                  THEN "absent"
      ELSE IF ~opt.mldsa                                             THEN "unverifiable"
      ELSE IF out # {"ok"}                                           THEN "partial"
      ELSE IF \E i \in 1..Len(es) : EdOutcome(es[i], opt) # "ok"     THEN "classical_broken"
      ELSE IF opt.pq = None                                          THEN "unpinned"
      ELSE "protected"

PqProtected(status) ==
  CASE status = "protected"                    -> "true"
    [] status \in {"unverifiable", "unpinned"} -> "null"
    [] OTHER                                   -> "false"

VerifySignatures(es, opt) ==
  LET status == PqStatus(es, opt)
  IN  [ok      |-> /\ es # << >>
                   /\ \A i \in 1..Len(es) : EdOutcome(es[i], opt) = "ok" /\ PqOutcome(es[i], opt) \notin PqFailures,
       signers |-> {es[i].signer : i \in {j \in 1..Len(es) : EdOutcome(es[j], opt) = "ok"}},
       pqsigners |-> {es[i].pqsigner : i \in {j \in 1..Len(es) : PqOutcome(es[j], opt) = "ok"}},
       status  |-> status,
       pqp     |-> PqProtected(status)]
=============================================================================
