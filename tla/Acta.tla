-------------------------------- MODULE Acta --------------------------------
(***************************************************************************)
(* cryptovalid_acta: decision receipts signed by an issuer that rotates    *)
(* its key, chained by the hash of the preceding receipt, shown whole, in  *)
(* part or edited to a relying party whose key set may be incomplete or    *)
(* misconfigured; verify_receipt and verify_chain answer pass, fail or     *)
(* not_assessed.                                                           *)
(*                                                                         *)
(* A hash is the receipt hashed.  A signature is [by, of, low]: the key,   *)
(* the signing input, and for ES256 the half of the range S is in.         *)
(***************************************************************************)
EXTENDS Instant, FiniteSets

CONSTANTS
  Clock,        \* sequence of sets: the texts that write the same instant
  RotateAt,     \* position in Clock from which the second key signs
  MaxReceipts,  \* bound: receipts issued
  MaxShown      \* bound: receipts in a chain that is verified

ASSUME ActaConstants ==
  /\ Clock \in Seq(SUBSET Texts) /\ RotateAt \in 2..Len(Clock) /\ MaxReceipts \in Nat /\ MaxShown \in Nat
  /\ \A p \in 1..Len(Clock) : Clock[p] # {} /\ \A t \in Clock[p] : ValidInstant(t)
  /\ \A p, q \in 1..Len(Clock) : \A t \in Clock[p], u \in Clock[q] : Earlier(t, u) <=> p < q

VARIABLES
  now,      \* position in Clock
  receipts, \* receipts signed by the issuer
  parent,   \* ghost: index of the receipt each one was chained to, 0 = genesis
  shown,    \* the chain given to the relying party
  edited    \* ghost: it is not what the issuer wrote

actaVars == <<now, receipts, parent, shown, edited>>

\* sign_receipt signs with EdDSA; after the rotation the issuer's own software signs with ES256.
Kids     == {"k1", "k2"}
AlgOf(k) == IF k = "k1" THEN "EdDSA" ELSE "ES256"
Genesis  == << >>
HashOf(r)  == <<"sha256", r>>
BareOf(r)  == <<r>>                      \* earlier revisions: no prefix

Payload(id, kid, at, link, pd) == [id |-> id, issuer |-> kid, at |-> at, link |-> link, pd |-> pd]
Receipt(shape, alg, kid, payload, sig) ==
  [shape |-> shape, flaw |-> "none", alg |-> alg, kid |-> kid, payload |-> payload, sig |-> sig]
Sig(by, payload) == [by |-> by, of |-> payload, low |-> TRUE]

ActaInit == now = 1 /\ receipts = << >> /\ parent = << >> /\ shown = << >> /\ edited = FALSE

Tick == shown = << >> /\ now < Len(Clock) /\ now' = now + 1 /\ UNCHANGED <<receipts, parent, shown, edited>>

SigningKid == IF now < RotateAt THEN "k1" ELSE "k2"

(* decision_payload and sign_receipt.  The preceding receipt is read from  *)
(* a file: any earlier one, so that two runs can chain to the same.        *)
Issue(prev, bare) ==
  /\ shown = << >> /\ Len(receipts) < MaxReceipts
  /\ \E at \in Clock[now] :
       LET kid  == SigningKid
           link == IF prev = 0 THEN Genesis ELSE IF bare THEN BareOf(receipts[prev]) ELSE HashOf(receipts[prev])
           p    == Payload(Len(receipts) + 1, kid, at, link, "policy")
       IN  receipts' = Append(receipts, Receipt("envelope", AlgOf(kid), kid, p, Sig(kid, p)))
  /\ parent' = Append(parent, prev)
  /\ UNCHANGED <<now, shown, edited>>

-----------------------------------------------------------------------------
(* What is shown: a path of receipts, or an edit of one that needs no key  *)
(* of the issuer.                                                          *)
Indices == 1..Len(receipts)
Paths   == {s \in UNION {[1..n -> Indices] : n \in 1..MaxShown} : \A i \in 2..Len(s) : parent[s[i]] = s[i - 1]}
ReceiptsAt(s) == [i \in 1..Len(s) |-> receipts[s[i]]]

AlteredPayload(r) == [r EXCEPT !.payload.id = 0]
FlippedAlg(r)     == [r EXCEPT !.alg = "ML-DSA-65"]
Twin(r)           == [r EXCEPT !.sig.low = FALSE]           \* (r, n - s) verifies too
Reshaped(r)       == [r EXCEPT !.shape = "flat", !.alg = "EdDSA"]
Flawed(r)         == [r EXCEPT !.flaw = "signature_in_signing_input"]
Outsider(r, kid)  == LET p == [r.payload EXCEPT !.issuer = kid, !.id = 0] IN Receipt("envelope", "EdDSA", kid, p, Sig("eve", p))
Edits(r) ==
  {AlteredPayload(r), FlippedAlg(r), Reshaped(r), Flawed(r), Outsider(r, "eve"), Outsider(r, r.kid)}
  \cup (IF r.alg = "ES256" THEN {Twin(r)} ELSE {})

\* Any receipts in any order: dropped, repeated or swapped ones among them.
Sequences == UNION {[1..n -> Indices] : n \in 1..MaxShown}

Show ==
  /\ shown = << >>
  /\ \/ \E s \in Sequences : shown' = ReceiptsAt(s) /\ edited' = (s \notin Paths)
     \/ \E s \in Paths : \E i \in 1..Len(s) : \E r \in Edits(receipts[s[i]]) :
          shown' = [ReceiptsAt(s) EXCEPT ![i] = r] /\ edited' = TRUE
  /\ UNCHANGED <<now, receipts, parent>>

Forget == shown # << >> /\ shown' = << >> /\ edited' = FALSE /\ UNCHANGED <<now, receipts, parent>>

ActaNext ==
  \/ Tick \/ Show \/ Forget
  \/ \E prev \in 0..Len(receipts), bare \in BOOLEAN : Issue(prev, bare)

ActaSpec == ActaInit /\ [][ActaNext]_actaVars

-----------------------------------------------------------------------------
(* The relying party: for each kid no entry, or key material and a window; *)
(* complete: the set is its whole trust list (an absent key is a refusal:  *)
(* only the default, FALSE, is checked); mldsa: the host verifies it.      *)
NoEntry == [there |-> FALSE]
Entry(ok, from, until) == [there |-> TRUE, ok |-> ok, from |-> from, until |-> until]

Change    == CHOOSE t \in Clock[RotateAt] : TRUE
FullEntry(k) == IF k = "k1" THEN Entry(TRUE, NoBound, At(Change)) ELSE Entry(TRUE, At(Change), NoBound)

\* What may be configured for a kid; keys_from_jwks refuses the third and fourth, a library caller can give them.
Entries(k) ==
  {NoEntry, FullEntry(k), [FullEntry(k) EXCEPT !.ok = FALSE],
   IF k = "k1" THEN [FullEntry(k) EXCEPT !.from = BadBound] ELSE [FullEntry(k) EXCEPT !.until = BadBound]}

FullKeys == [k \in Kids |-> FullEntry(k)]
KeySets  == UNION {{[FullKeys EXCEPT ![k] = e] : e \in Entries(k)} : k \in Kids}   \* one entry at a time is amiss
Parties  == [keys : KeySets, complete : {FALSE}, mldsa : BOOLEAN]
Informed == [keys |-> FullKeys, complete |-> FALSE, mldsa |-> TRUE]

SignatureHolds_Malleable(r, kid) == r.sig.by = kid /\ r.sig.of = r.payload

\* The equation, and for ES256 only the low half of S.
SignatureHolds(r, kid) == r.sig.by = kid /\ r.sig.of = r.payload /\ (AlgOf(kid) = "ES256" => r.sig.low)

(* verify_receipt: the first refusal decides.  Flaws of the form stand for *)
(* the refusals before the key set is consulted (_shape, jcs, members).    *)
VerifyReceipt(r, rp) ==
  LET e == IF r.kid \in Kids THEN rp.keys[r.kid] ELSE NoEntry
  IN  IF r.flaw # "none" \/ r.payload.issuer # r.kid \/ ~ValidInstant(r.payload.at) THEN "fail"
      ELSE IF ~e.there                                                              THEN (IF rp.complete THEN "fail" ELSE "not_assessed")
      ELSE IF Window(r.payload.at, e.from, e.until) = "outside"                     THEN "fail"
      ELSE IF Window(r.payload.at, e.from, e.until) = "bound"                       THEN "not_assessed"
      ELSE IF ~e.ok                                                                 THEN "not_assessed"
      ELSE IF r.alg = "ML-DSA-65" /\ ~rp.mldsa                                      THEN "not_assessed"
      ELSE IF r.alg # AlgOf(r.kid) \/ ~SignatureHolds(r, r.kid)                     THEN "fail"
      ELSE "pass"

BodyOf(r) == IF r.flaw = "none" THEN r.payload.link ELSE Genesis

(* verify_chain, the link of receipt i: absent, not checkable because the  *)
(* receipt before it failed, or another hash.  A receipt that was not      *)
(* assessed is still hashed.                                               *)
LinkProblem(rs, i, rp) ==
  /\ i > 1
  /\ \/ BodyOf(rs[i]) = Genesis
     \/ VerifyReceipt(rs[i - 1], rp) = "fail"
     \/ BodyOf(rs[i]) \notin {HashOf(rs[i - 1]), BareOf(rs[i - 1])}

PolicyProblem(r) == r.flaw # "none" \/ r.payload.pd # "policy"

ChainVerdict_Absent(rs, rp) ==
  IF \E i \in 1..Len(rs) : VerifyReceipt(rs[i], rp) = "not_assessed"                                                THEN "not_assessed"
  ELSE IF \E i \in 1..Len(rs) : VerifyReceipt(rs[i], rp) = "fail" \/ LinkProblem(rs, i, rp) \/ PolicyProblem(rs[i]) THEN "fail"
  ELSE "pass"

\* fail over not_assessed over pass.
ChainVerdict(rs, rp) ==
  IF \E i \in 1..Len(rs) : VerifyReceipt(rs[i], rp) = "fail" \/ LinkProblem(rs, i, rp) \/ PolicyProblem(rs[i]) THEN "fail"
  ELSE IF \E i \in 1..Len(rs) : VerifyReceipt(rs[i], rp) = "not_assessed"                                      THEN "not_assessed"
  ELSE "pass"

-----------------------------------------------------------------------------
IssuedAt(i) == shown[i].payload.id \in Indices /\ shown[i] = receipts[shown[i].payload.id]

(* verify_chain: whatever the relying party holds, a chain that passes is  *)
(* what the issuer wrote, each receipt chained to the one before it: none  *)
(* dropped, repeated, swapped, altered or re-encoded within it.  Only the  *)
(* last one, which nothing hashes, may be an EdDSA receipt in flat form.   *)
PassIsPath ==
  \A rp \in Parties :
    ChainVerdict(shown, rp) = "pass" =>
      \A i \in 1..Len(shown) :
        /\ IssuedAt(i) \/ (i = Len(shown) /\ \E n \in Indices : shown[i] = Reshaped(receipts[n]))
        /\ i > 1 => parent[shown[i].payload.id] = shown[i - 1].payload.id

(* verify_receipt and _outside_window at a key rotation: an unedited chain *)
(* passes for a party with all keys, however its instants are written, and *)
(* is never a failure for a party that lacks or misconfigured some.        *)
HonestChains ==
  (shown # << >> /\ ~edited) =>
    /\ ChainVerdict(shown, Informed) = "pass"
    /\ \A rp \in Parties : ChainVerdict(shown, rp) # "fail"

(* verify_chain's order of verdicts, fail over not_assessed over pass: an  *)
(* absence on the relying party's side never makes a finding, and never    *)
(* hides one that needs no key: receipts of the issuer put together in an  *)
(* order they were not chained in fail for every party.                    *)
KeysOnlyInform ==
  shown # << >> =>
    \A rp \in Parties :
      LET verdict == ChainVerdict(shown, rp)
      IN  /\ verdict \in {"not_assessed", ChainVerdict(shown, Informed)}
          /\ ( /\ \A i \in 1..Len(shown) : IssuedAt(i)
               /\ \E i \in 2..Len(shown) : parent[shown[i].payload.id] # shown[i - 1].payload.id ) => verdict = "fail"
=============================================================================
