-------------------------------- MODULE Note --------------------------------
(***************************************************************************)
(* cryptovalid_checkpoint and verify_witnessed of cryptovalid_witness: a   *)
(* checkpoint of a log as a signed note, the lines cosigners add to it,    *)
(* and what a relying party concludes from it.                             *)
(*                                                                         *)
(* A note is [form, text, lines]: whether its bytes are a note at all, the *)
(* checkpoint (its size: the log has one history), and its set of lines (a *)
(* repeated line counts once, their order never).  A key is <<name, type>>.*)
(* A line names a key and a time and is signed by a key over a text and a  *)
(* time; a log's line carries no time, written 0.                          *)
(***************************************************************************)
EXTENDS Integers, FiniteSets, FiniteSetsExt

LogTypes       == {"ed25519", "ecdsa"}
CosignerTypes  == {"cosig", "mldsa44"}
SupportedTypes == LogTypes \cup CosignerTypes

Line(key, ts, by, of, at) == [key |-> key, ts |-> ts, by |-> by, of |-> of, at |-> at]
SignedLine(key, text, ts) == Line(key, ts, key, text, ts)

\* sign_note; cosign_v1 and cosign_v1_mldsa44 refuse a time that is not positive.
SignNote(text, key)       == [form |-> TRUE, text |-> text, lines |-> {SignedLine(key, text, 0)}]
CosignLines(keys, text, ts) == {SignedLine(k, text, ts) : k \in {q \in keys : ts >= 1}}

\* What a line must satisfy under the known key it names.
LineHolds(l, text) ==
  /\ l.by = l.key /\ l.of = text /\ l.at = l.ts
  /\ l.key[2] \in CosignerTypes => l.ts >= 1

(* verify_note.  Lines of keys that are not known, or whose type cannot be *)
(* verified by this program, are ignored; a host without ML-DSA leaves the *)
(* lines it cannot check undecided, unless another known key's line fails. *)
VerifyNote(note, vkeys, mldsa) ==
  LET matched   == {l \in note.lines : l.key \in vkeys /\ l.key[2] \in SupportedTypes}
      checkable == {l \in matched : l.key[2] = "mldsa44" => mldsa}
  IN  IF ~note.form                                         THEN "NON_VALIDA"
      ELSE IF \E l \in checkable : ~LineHolds(l, note.text) THEN "NON_VALIDA"
      ELSE IF matched # checkable                           THEN "NON_VERIFICATA"
      ELSE IF matched = {}                                  THEN "NON_VALIDA"
      ELSE "OK"

\* Keys the callers refuse before they look at a note.
KeysRefused(logKeys, witnessKeys) ==
  logKeys = {} \/ (\E k \in logKeys : k[2] \notin LogTypes) \/ (\E k \in witnessKeys : k[2] \in LogTypes)

Counted_ByKey(note, witnessKeys) == {l.key : l \in {q \in note.lines : q.key \in witnessKeys}}

\* The witnesses of a note are names: two keys of one name are one witness.
Counted(note, witnessKeys) == {<<l.key[1]>> : l \in {q \in note.lines : q.key \in witnessKeys}}

\* A witness counts with its newest line.
NewestOf(note, witnessKeys, w) == Max({l.ts : l \in {q \in note.lines : q.key \in witnessKeys /\ q.key[1] = w[1]}})

(* verify_witnessed for a party rp: its keys, min_witnesses, max_age_s     *)
(* (-1: none), clock_skew_s and whether its host verifies ML-DSA.          *)
VerifyWitnessed(note, rp, now) ==
  LET usable == {k \in rp.witnesses : k[2] \in CosignerTypes}
      v      == VerifyNote(note, rp.logs \cup usable, rp.mldsa)
      wits   == Counted(note, usable)
      fresh  == {w \in wits : LET ts == NewestOf(note, usable, w) IN ts <= now + rp.skew /\ now - ts <= rp.age}
  IN  IF KeysRefused(rp.logs, rp.witnesses)              THEN "raises"
      ELSE IF v # "OK"                                   THEN v
      ELSE IF ~\E l \in note.lines : l.key \in rp.logs   THEN "NON_VALIDA"
      ELSE IF Cardinality(wits) < rp.min                 THEN "NON_VALIDA"
      ELSE IF rp.age # -1 /\ Cardinality(fresh) < rp.min THEN "NON_VALIDA"
      ELSE "OK"
=============================================================================
