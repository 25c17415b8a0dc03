---------------------------- MODULE LedgerCheck ----------------------------
(***************************************************************************)
(* verifier.verify_ledger and cryptovalid_tip.check_tip: the verdict on a  *)
(* ledger file and on the signed tip beside it.                            *)
(*                                                                         *)
(* A line is a record: "entry", "blank", or "broken" (not strict JSON, or  *)
(* not an object).  A hash is the tuple of what was hashed; a signature is *)
(* the name of the key.  A timestamp is a number.                          *)
(***************************************************************************)
EXTENDS Parts

GENESIS == << >>
Algos   == <<"sha256", "sha3_256">>
Blank   == [kind |-> "blank"]
Broken  == [kind |-> "broken"]

\* canonical_payload and hash_with: what self_hash commits to.
HashOf(algo, e)  == <<algo, e.idx, e.data, e.extra, e.prev>>
Entry(algo, i, d, prev) ==
  LET e == [kind |-> "entry", idx |-> i, data |-> d, prev |-> prev, extra |-> FALSE, self |-> << >>]
  IN  [e EXCEPT !.self = HashOf(algo, e)]

\* The lines that are entries, in their order in the file.
EntryLines(lines) == {i \in 1..Len(lines) : lines[i].kind = "entry"}
Entries(lines)    == Keep(lines, EntryLines(lines))

FirstSelf(es) == IF es = << >> THEN GENESIS ELSE es[1].self
LastSelf(es)  == IF es = << >> THEN GENESIS ELSE es[Len(es)].self

\* detect_algo: the algorithm under which the first entry recomputes.
DetectAlgo(es) ==
  IF es # << >> /\ es[1].self = HashOf(Algos[2], es[1]) THEN Algos[2] ELSE Algos[1]

\* The checks on the chain, each with the name of its error.
ChainErrors(lines) ==
  LET es   == Entries(lines)
      algo == DetectAlgo(es)
      Bad(name, P(_)) == IF \E i \in 1..Len(es) : P(i) THEN {name} ELSE {}
  IN  (IF \E i \in 1..Len(lines) : lines[i].kind = "broken" THEN {"json_decode"} ELSE {})
      \cup Bad("unknown_field", LAMBDA i : es[i].extra)
      \cup Bad("hash_mismatch", LAMBDA i : es[i].self # HashOf(algo, es[i]))
      \cup Bad("link", LAMBDA i : es[i].prev # (IF i = 1 THEN GENESIS ELSE es[i - 1].self))
      \cup Bad("idx_mismatch", LAMBDA i : es[i].idx # i - 1)
      \cup (IF es = << >> THEN {"empty_ledger"} ELSE {})

-----------------------------------------------------------------------------
NoTip     == [kind |-> "none"]
BadTip    == [kind |-> "unreadable"]     \* not strict JSON, not an object
Tip(n, id, last, ts, key, pq) ==
  [kind |-> "tip", wellformed |-> TRUE, entries |-> n, id |-> id, last |-> last, ts |-> ts, key |-> key, pq |-> pq]

(* The options of a verification: the trusted log key ("" = none given),   *)
(* the trusted post-quantum key, a tip required, not_before, the expected  *)
(* ledger id, and whether ML-DSA can be verified on this host.             *)

\* verify_tip_signature: "ok" or the reason, in the order of the code.
TipSignature(tip, opt) ==
  IF ~tip.wellformed                           THEN "invalid"
  ELSE IF tip.pq = "malformed"                 THEN "invalid"
  ELSE IF opt.key = ""                         THEN "untrusted"
  ELSE IF opt.key = "bad" \/ tip.key # opt.key THEN "invalid"
  ELSE IF opt.pq # "" /\ tip.pq = "none"       THEN "pq_missing"
  ELSE IF opt.pq # "" /\ tip.pq # opt.pq       THEN "invalid"
  ELSE IF opt.pq # "" /\ ~opt.mldsa            THEN "pq_unverifiable"
  ELSE IF opt.pq = "bad"                       THEN "invalid"
  ELSE "ok"

CheckTip_Undated(n, first, last, tip, opt) ==
  LET sig == TipSignature(tip, opt)
  IN  IF sig # "ok"                   THEN (IF sig = "untrusted" THEN "tip_untrusted" ELSE "tip_invalid")
      ELSE IF n > 0 /\ tip.id # first THEN "tip_of_another_ledger"
      ELSE IF n # tip.entries         THEN "unsealed_tail"
      ELSE IF last # tip.last         THEN "tail_rewritten"
      ELSE "ok"

\* check_tip: entries, first and last self_hash of the file against the tip.
CheckTip(n, first, last, tip, opt) ==
  LET sig == TipSignature(tip, opt)
  IN  IF sig # "ok"                                        THEN (IF sig = "untrusted" THEN "tip_untrusted" ELSE "tip_invalid")
      ELSE IF opt.expect # GENESIS /\ tip.id # opt.expect  THEN "ledger_id_mismatch"
      ELSE IF n > 0 /\ tip.id # first                      THEN "tip_of_another_ledger"
      ELSE IF opt.notBefore # -1 /\ tip.ts < opt.notBefore THEN "tip_rolled_back"
      ELSE IF n < tip.entries                              THEN "tail_truncated"
      ELSE IF n > tip.entries                              THEN "unsealed_tail"
      ELSE IF last # tip.last                              THEN "tail_rewritten"
      ELSE "ok"

\* The part of verify_ledger that looks at the tip.
TipErrors(lines, tip, opt) ==
  LET es       == Entries(lines)
      required == opt.require \/ opt.pq # ""
      checked  == IF tip.kind = "none"            THEN (IF required THEN "tip_missing" ELSE "ok")
                  ELSE IF opt.key = ""            THEN (IF required THEN "tip_untrusted" ELSE "ok")
                  ELSE IF tip.kind = "unreadable" THEN "tip_unreadable"
                  ELSE CheckTip(Len(es), FirstSelf(es), LastSelf(es), tip, opt)
  IN  ({checked} \ {"ok"}) \cup (IF opt.pq # "" /\ opt.key = "" THEN {"pq_key_without_log_key"} ELSE {})

\* verify_ledger: PASS when the set of errors is empty.
VerifyLedger(lines, tip, opt) == ChainErrors(lines) \cup TipErrors(lines, tip, opt)
=============================================================================
