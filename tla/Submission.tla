----------------------------- MODULE Submission -----------------------------
(***************************************************************************)
(* submit_checkpoint, add_checkpoint and WitnessService of                 *)
(* cryptovalid_witness: clients submit checkpoints of one growing log to   *)
(* several witnesses over a network that loses and delays, learn the size  *)
(* a witness stores from its 409, ask once more, and write the cosigned    *)
(* note, which relying parties verify.                                     *)
(*                                                                         *)
(* The log has one history, so that a root is its size and a proof from    *)
(* the stored size verifies; the files behind a witness's answer, and logs *)
(* that fork, are module Witness.                                          *)
(***************************************************************************)
EXTENDS Note

CONSTANTS
  Clients,    \* processes that submit
  Witnesses,  \* names of witnesses
  PqNames,    \* witnesses with an ML-DSA-44 key beside the Ed25519 one
  Ahead,      \* how far each witness's clock is ahead
  FirstSize,          \* entries at the start
  MaxSize, MaxTime,   \* bounds: entries, seconds
  MaxFaults   \* bound: requests and answers lost or delayed, errors, junk

ASSUME SubmissionConstants ==
  /\ IsFiniteSet(Witnesses) /\ "eve" \notin Witnesses   \* the name of a cosigner nobody trusts
  /\ PqNames \subseteq Witnesses /\ Ahead \in [Witnesses -> Nat]
  /\ FirstSize \in 0..MaxSize /\ MaxSize \in Nat /\ MaxTime \in Nat /\ MaxFaults \in Nat

VARIABLES
  size,     \* entries of the ledger
  time,     \* the clock
  stored,   \* size each witness last cosigned, -1 = none
  job,      \* each client's call: [pc, w, note, old]
  late,     \* requests whose client has given up on them
  out,      \* the note at --out, written last by any client; form = FALSE: none
  cosigs,   \* ghost: [w, size, at]: when a witness last cosigned each size, in true time
  faults    \* used budget

vars == <<size, time, stored, job, late, out, cosigs, faults>>

LogKey      == <<"log", "ed25519">>
Checkpoint(n) == SignNote(n, LogKey)     \* of the ledger's first n entries
KeysOf(w)   == {<<w, "cosig">>} \cup (IF w \in PqNames THEN {<<w, "mldsa44">>} ELSE {})
WitnessKeys == UNION {KeysOf(w) : w \in Witnesses}
NoNote      == [form |-> FALSE, text |-> 0, lines |-> {}]
Idle        == [pc |-> "idle", w |-> "none", note |-> NoNote, old |-> 0]
Fault       == faults < MaxFaults /\ faults' = faults + 1

Init ==
  /\ size = FirstSize /\ time = 1 /\ stored = [w \in Witnesses |-> -1]
  /\ job = [c \in Clients |-> Idle] /\ late = {} /\ out = NoNote
  /\ cosigs = {} /\ faults = 0

\* A second passes, with or without a new entry in the ledger.
Tick ==
  /\ time < MaxTime /\ time' = time + 1
  /\ size' \in {size, size + 1} \cap 0..MaxSize
  /\ UNCHANGED <<stored, job, late, out, cosigs, faults>>

Ask(c, w, note) ==
  /\ job[c].pc = "idle"
  /\ job' = [job EXCEPT ![c] = [pc |-> "first", w |-> w, note |-> note, old |-> 0]]
  /\ UNCHANGED <<size, time, stored, late, out, cosigs, faults>>

(* The command reads the ledger and signs its checkpoint; a library caller *)
(* may submit a note that has cosignatures to a further witness.  Asked    *)
(* first with old size 0.                                                  *)
Submit(c, w)   == Ask(c, w, Checkpoint(size))
Resubmit(c, w) == out.form /\ (\A l \in out.lines : l.key[1] # w) /\ Ask(c, w, out)

-----------------------------------------------------------------------------
(* The witness: add_checkpoint of WitnessService, one request at a time.   *)
HasProof(j) == 0 < j.old /\ j.old < j.note.text

\* The answer, in the order of the rules of witness_cosign.
StatusOf(j) ==
  LET s == stored[j.w]
      n == j.note.text
  IN  IF VerifyNote(j.note, {LogKey}, TRUE) # "OK" THEN 403
      ELSE IF j.old > n                            THEN 400
      ELSE IF j.old # Max({s, 0})                  THEN 409
      ELSE IF s \in {-1, 0, n} /\ HasProof(j)      THEN 422
      ELSE IF s \notin {-1, 0, n} /\ ~HasProof(j)  THEN 422
      ELSE 200

Renewed(gs, new) == {g \in gs : g.w # new.w \/ g.size # new.size} \cup {new}

\* The request is carried out: what it persists comes before any answer.
Process(j) ==
  LET status == StatusOf(j)
  IN  /\ stored' = IF status = 200 THEN [stored EXCEPT ![j.w] = j.note.text] ELSE stored
      /\ cosigs' = IF status = 200 THEN Renewed(cosigs, [w |-> j.w, size |-> j.note.text, at |-> time]) ELSE cosigs

Answer(j) == CosignLines(KeysOf(j.w), j.note.text, time + Ahead[j.w])

-----------------------------------------------------------------------------
(* The client: submit_checkpoint on an answer.                             *)
Client == [logs |-> {LogKey}, witnesses |-> WitnessKeys, min |-> 1, age |-> -1, skew |-> 0, mldsa |-> TRUE]

\* Lines of trusted keys, replacing older lines of the same keys; verified before they are accepted.
Cosigned(note, body) ==
  LET new == {l \in body : l.key \in WitnessKeys}
  IN  [note EXCEPT !.lines = new \cup {l \in note.lines : l.key \notin {k.key : k \in new}}]
Accepts(note, body) ==
  /\ \E l \in body : l.key \in WitnessKeys
  /\ VerifyWitnessed(Cosigned(note, body), Client, time) = "OK"

Fails(c) == job' = [job EXCEPT ![c] = Idle] /\ UNCHANGED out

Received(c, body) ==
  IF Accepts(job[c].note, body)
    THEN out' = Cosigned(job[c].note, body) /\ job' = [job EXCEPT ![c] = Idle]
    ELSE Fails(c)

AsksAgain_AnySize(j) == j.pc = "first" /\ stored[j.w] > 0
Resend_Zero(j) == [j EXCEPT !.pc = "second"]

\* A 409 is followed once, with the size it names, when the client has that many leaves.
AsksAgain(j) == j.pc = "first" /\ 0 < stored[j.w] /\ stored[j.w] <= j.note.text
Resend(j)    == [j EXCEPT !.pc = "second", !.old = stored[j.w]]

\* A request and its answer.
Serve(c) ==
  /\ job[c].pc # "idle"
  /\ Process(job[c])
  /\ IF StatusOf(job[c]) = 200                           THEN Received(c, Answer(job[c]))
     ELSE IF StatusOf(job[c]) = 409 /\ AsksAgain(job[c]) THEN job' = [job EXCEPT ![c] = Resend(job[c])] /\ UNCHANGED out
     ELSE Fails(c)
  /\ UNCHANGED <<size, time, late, faults>>

\* The witness carried the request out and the client saw no answer (status 0).
AnswerLost(c) == job[c].pc # "idle" /\ Fault /\ Process(job[c]) /\ Fails(c) /\ UNCHANGED <<size, time, late>>

\* No answer in time, or none at all: the request may still arrive; or a 500.
Timeout(c) ==
  /\ job[c].pc # "idle" /\ Fault /\ Fails(c)
  /\ late' \in {late, late \cup {[job[c] EXCEPT !.pc = "late", !.note = Checkpoint(@.text)]}}   \* its lines no longer matter
  /\ UNCHANGED <<size, time, stored, cosigs>>

ServeLate(j) == Process(j) /\ late' = late \ {j} /\ UNCHANGED <<size, time, job, out, faults>>

\* A 200 of something else than this witness: lines of unknown keys, or lines
\* that name its keys and do not verify.
Junk(c) ==
  /\ job[c].pc # "idle" /\ Fault
  /\ \E k \in KeysOf(job[c].w) \cup {<<"eve", "cosig">>} :
       Received(c, {Line(k, time, <<"eve", "cosig">>, job[c].note.text, time)})
  /\ UNCHANGED <<size, time, stored, late, cosigs>>

Next ==
  \/ Tick
  \/ \E c \in Clients : Serve(c) \/ AnswerLost(c) \/ Timeout(c) \/ Junk(c) \/ \E w \in Witnesses : Submit(c, w) \/ Resubmit(c, w)
  \/ \E j \in late : ServeLate(j)

Spec == Init /\ [][Next]_vars

\* Every request is served or given up in the end, and as long as clients are
\* free again and again, some client submits to each witness again and again.
FairSpec ==
  /\ Spec
  /\ \A c \in Clients : WF_vars(Serve(c))
  /\ \A w \in Witnesses : SF_vars(\E c \in Clients : Submit(c, w))

-----------------------------------------------------------------------------
(* What relying parties are shown: notes that were written, and edits of   *)
(* them that need no key.                                                  *)
Written == {n \in {out} : n.form}
Edits(n) ==
  {[n EXCEPT !.text = 1 - n.text]}
  \cup {[n EXCEPT !.lines = @ \ {l}] : l \in n.lines}
  \cup {[n EXCEPT !.lines = (@ \ {l}) \cup {[l EXCEPT !.ts = MaxTime]}] : l \in n.lines}
  \cup {[n EXCEPT !.lines = @ \cup {Line(k, time, <<"eve", "cosig">>, n.text, time)}] : k \in {<<"eve", "cosig">>, <<"w2", "cosig">>}}
Presented == Written \cup UNION {Edits(n) : n \in Written}

Party(min, age, mldsa) == [Client EXCEPT !.min = min, !.age = age, !.mldsa = mldsa]
Parties == {Party(1, -1, TRUE), Party(2, -1, TRUE), Party(1, 0, TRUE), Party(2, 1, FALSE)}

(* verify_witnessed: a note that a relying party accepts was cosigned by   *)
(* as many different witnesses as it asks for; with max_age_s each of them *)
(* cosigned it within that time of now (less by how far its clock is       *)
(* ahead), and had cosigned no larger tree before it did.  (Looked at when *)
(* no call is under way: calls only read what this is about until they     *)
(* end.)                                                                   *)
FreshView ==
  (\A c \in Clients : job[c].pc = "idle") =>
  \A n \in Presented, rp \in Parties :
    VerifyWitnessed(n, rp, time) = "OK" =>
      \E W \in SUBSET Witnesses :
        /\ Cardinality(W) >= rp.min
        /\ \A w \in W : \E g \in cosigs :
             /\ g.w = w /\ g.size = n.text
             /\ rp.age # -1 => time - g.at <= rp.age + Ahead[w]
             /\ \A h \in cosigs : (h.w = w /\ h.size > n.text) => h.at >= g.at

(* submit_checkpoint racing other clients, lost answers and late requests: *)
(* an honest log's client is never told that it rolled back, sent no proof *)
(* or a wrong one, which are the answers that accuse a log.                *)
NeverAccused == \A j \in late \cup {job[c] : c \in Clients} : j.pc # "idle" => StatusOf(j) \in {200, 409}

(* submit_checkpoint: one retry per call is enough.  However clients race, *)
(* with finitely many faults every witness cosigns the last tree.          *)
Witnessed == <>[](\A w \in Witnesses : stored[w] = size)
=============================================================================
