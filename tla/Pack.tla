-------------------------------- MODULE Pack --------------------------------
(***************************************************************************)
(* Custody of signed evidence: signer.sign_ledger over a key backend       *)
(* (cryptovalid_kms) whose key may rotate during the run, evidence_pack    *)
(* build into a directory that may hold an earlier pack, kills between its *)
(* writes, edits of the pack by whoever holds it, and what verify_pack and *)
(* verify_evidence then say to a reader.                                   *)
(*                                                                         *)
(* A file digest is the content of the file, a manifest digest the body of *)
(* the manifest.  "eve" stands for every key that is not the operator's.   *)
(***************************************************************************)
EXTENDS Signatures

CONSTANTS
  Names,        \* ledgers of the operator
  Live,         \* those that still grow; the others were signed before
  EdKeys,       \* keys the Ed25519 backend holds, in turn
  PqKeys,       \* keys the ML-DSA backend holds, in turn
  MaxAppends, MaxRotations, MaxKills, MaxEdits, MaxSigns, MaxBuilds   \* bounds

ASSUME PackConstants ==
  /\ Live \subseteq Names /\ EdKeys # {} /\ PqKeys # {}
  /\ {"op", "eve", "eveq", None, WeakKey} \cap (EdKeys \cup PqKeys) = {}
  /\ {MaxAppends, MaxRotations, MaxKills, MaxEdits, MaxSigns, MaxBuilds} \subseteq Nat

VARIABLES
  key, pqkey,   \* the keys the backends sign with now
  data,         \* name -> data of the hash-chained ledger
  signed,       \* name -> the signed ledger, output of sign_ledger
  sg,           \* the sign_ledger under way
  dir, man,     \* the pack: name -> file, MANIFEST.json
  bd,           \* the build_pack under way
  issued,       \* ghost: manifest bodies a build signed with the operator's key
  used          \* counters of the bounds

vars == <<key, pqkey, data, signed, sg, dir, man, bd, issued, used>>

Absent == << >>
NoMan  == [there |-> FALSE]
Idle   == [pc |-> "idle"]
Count(what) == used' = [used EXCEPT ![what] = @ + 1]

Init ==
  /\ key = (CHOOSE k \in EdKeys : TRUE) /\ pqkey = (CHOOSE k \in PqKeys : TRUE)
  /\ data = [n \in Names |-> <<n>>]
  /\ signed = [n \in Names |-> IF n \in Live THEN Absent ELSE << Signed(Chain(<<n>>)[1], key, pqkey) >>]
  /\ sg = Idle /\ bd = Idle
  /\ dir = [n \in Names |-> Absent] /\ man = NoMan
  /\ issued = {}
  /\ used = [append |-> 0, rotate |-> 0, kill |-> 0, edit |-> 0, sign |-> 0, build |-> 0]

AppendEntry(n) ==
  /\ sg = Idle /\ bd = Idle /\ used.append < MaxAppends
  /\ data' = [data EXCEPT ![n] = Append(@, n)]
  /\ Count("append")
  /\ UNCHANGED <<key, pqkey, signed, sg, dir, man, bd, issued>>

-----------------------------------------------------------------------------
(* cryptovalid_kms.  A backend is opened from its URI in an environment;   *)
(* the constructors refuse before a key is used.                           *)
Environments == [params : BOOLEAN, secret : BOOLEAN, url : {"https", "loopback", "http"}]
Private(env) == env.url # "http"

FileOpens(env)       == TRUE
Pkcs11Opens(env)     == env.params /\ env.secret         \* the PIN, from the environment only
AwsKmsOpens(env)     == env.params
AwsKmsHttpOpens(env) == env.params /\ env.secret /\ Private(env)
VaultOpens(env)      == env.params /\ env.secret /\ Private(env)
NetHsmOpens(env)     == env.params /\ env.secret /\ Private(env)

BackendFromUri(scheme, env) ==
  CASE scheme = "file"        -> FileOpens(env)
    [] scheme = "pkcs11"      -> Pkcs11Opens(env)
    [] scheme = "awskms"      -> AwsKmsOpens(env)
    [] scheme = "awskms-http" -> AwsKmsHttpOpens(env)
    [] scheme = "vault"       -> VaultOpens(env)
    [] scheme = "nethsm"      -> NetHsmOpens(env)
    [] OTHER                  -> FALSE

Schemes == {"file", "pkcs11", "awskms", "awskms-http", "vault", "nethsm"}

\* A file key is read once and cached; a token signs with the key it holds at the call.
SignsWith(cached, declared, current) == IF cached THEN declared ELSE current

\* An alias is re-pointed, a Vault key gets a new version, a token a new key.
Rotate ==
  /\ used.rotate < MaxRotations
  /\ \/ key' \in EdKeys \ {key} /\ UNCHANGED pqkey
     \/ pqkey' \in PqKeys \ {pqkey} /\ UNCHANGED key
  /\ Count("rotate")
  /\ UNCHANGED <<data, signed, sg, dir, man, bd, issued>>

(* sign_ledger reads the public keys once, then signs entry by entry.      *)
SignStart(n) ==
  /\ sg = Idle /\ bd = Idle /\ used.sign < MaxSigns
  /\ \E scheme \in Schemes, pq \in {None, "file", "kms"} :
       /\ \E env \in Environments : BackendFromUri(scheme, env)
       /\ sg' = [pc |-> "sign", name |-> n, cached |-> scheme = "file", pqcached |-> pq = "file",
                 ed |-> key, pq |-> IF pq = None THEN None ELSE pqkey,
                 todo |-> Chain(data[n]), out |-> << >>]
  /\ Count("sign")
  /\ UNCHANGED <<key, pqkey, data, signed, dir, man, bd, issued>>

SignEntry_Trusting ==
  /\ sg.pc = "sign" /\ sg.todo # << >>
  /\ LET ed == SignsWith(sg.cached, sg.ed, key)
         pq == IF sg.pq = None THEN None ELSE SignsWith(sg.pqcached, sg.pq, pqkey)
     IN  sg' = [sg EXCEPT !.todo = Tail(@), !.out = Append(@, Signed(Head(sg.todo), ed, pq))]
  /\ UNCHANGED <<key, pqkey, data, signed, dir, man, bd, issued, used>>

\* Every signature is verified against the declared key; another key ends the call.
SignEntry ==
  /\ sg.pc = "sign" /\ sg.todo # << >>
  /\ LET ed == SignsWith(sg.cached, sg.ed, key)
         pq == IF sg.pq = None THEN None ELSE SignsWith(sg.pqcached, sg.pq, pqkey)
     IN  sg' = IF ed = sg.ed /\ pq = sg.pq
               THEN [sg EXCEPT !.todo = Tail(@), !.out = Append(@, Signed(Head(sg.todo), ed, pq))]
               ELSE Idle
  /\ UNCHANGED <<key, pqkey, data, signed, dir, man, bd, issued, used>>

\* write_output: the whole file at once.
SignWrite ==
  /\ sg.pc = "sign" /\ sg.todo = << >>
  /\ signed' = [signed EXCEPT ![sg.name] = sg.out]
  /\ sg' = Idle
  /\ UNCHANGED <<key, pqkey, data, dir, man, bd, issued, used>>

\* A call to the token fails or answers with a signature of the wrong length, or the process is killed.
SignAborts ==
  /\ sg # Idle /\ used.kill < MaxKills
  /\ sg' = Idle /\ Count("kill")
  /\ UNCHANGED <<key, pqkey, data, signed, dir, man, bd, issued>>

-----------------------------------------------------------------------------
(* build_pack.  pins = [ed, pq]; signkey: the manifest is signed.          *)
HashPass(l) ==
  /\ l # Absent
  /\ \A i \in 1..Len(l) : ContentOk(l[i]) /\ l[i].prev = (IF i = 1 THEN << >> ELSE l[i - 1].self)
HeadOf(l)      == IF l = Absent THEN None ELSE l[Len(l)].self
FirstSigned(l) == l # Absent /\ l[1].sig # NoSig

Opt(ed, pq, mldsa) == [ed |-> ed, pq |-> pq, mldsa |-> mldsa]

\* The record of a ledger in the manifest; the signature fields are there when the first entry is signed.
Meta(l, pins) ==
  LET sv == VerifySignatures(l, Opt(pins.ed, pins.pq, TRUE))
      s  == FirstSigned(l)
  IN  [entries |-> Len(l), head |-> HeadOf(l), hash |-> HashPass(l), sigs |-> s,
       signers |-> IF s THEN sv.signers ELSE {}, pqsigners |-> IF s THEN sv.pqsigners ELSE {},
       pqp |-> IF s THEN sv.pqp ELSE "false"]

Body(files, leds) == [files |-> files, leds |-> leds]
Manifest(body, signer, ts) ==
  [there |-> TRUE, body |-> body, digest |-> body, signer |-> signer,
   sig |-> IF signer = None THEN NoSig ELSE <<signer, body>>, ts |-> ts, extra |-> FALSE]

BuildStart ==
  /\ sg = Idle /\ bd = Idle /\ used.build < MaxBuilds
  /\ \A n \in Names : signed[n] # Absent
  /\ \E hybrid, signkey \in BOOLEAN :       \* pq_pubkey_b64 needs signer_pubkey_hex
       bd' = [pc |-> "copy", todo |-> Names, name |-> None, signkey |-> signkey,
                 pins |-> [ed |-> IF hybrid THEN key ELSE None, pq |-> IF hybrid THEN pqkey ELSE None],
                 files |-> [n \in Names |-> Absent], leds |-> [n \in Names |-> << >>]]
  /\ Count("build")
  /\ UNCHANGED <<key, pqkey, data, signed, sg, dir, man, issued>>

\* copy_output: temporary and rename; the old file is replaced at once.
BuildCopy ==
  /\ bd.pc = "copy" /\ bd.todo # {}
  /\ LET n == CHOOSE x \in bd.todo : TRUE
     IN  /\ dir' = [dir EXCEPT ![n] = signed[n]]
         /\ bd' = [bd EXCEPT !.pc = "describe", !.name = n, !.todo = @ \ {n}]
  /\ UNCHANGED <<key, pqkey, data, signed, sg, man, issued, used>>

\* The digest and the verdicts are of the bytes now at the destination; a pinned layer that is not there raises.
BuildDescribe ==
  /\ bd.pc = "describe"
  /\ LET n    == bd.name
         meta == Meta(dir[n], bd.pins)
     IN  bd' = IF meta.sigs /\ bd.pins.pq # None /\ meta.pqp # "true"
               THEN Idle
               ELSE [bd EXCEPT !.pc = "copy", !.files[n] = dir[n], !.leds[n] = meta]
  /\ UNCHANGED <<key, pqkey, data, signed, sg, dir, man, issued, used>>

\* _rfc3161_stamp records a token only when its imprint is this digest.
Stamps(body) == {{}, {body}}

\* Digest, signature and timestamp, then MANIFEST.json; SUMMARY.md after it is read by no verifier.
BuildManifest ==
  /\ bd.pc = "copy" /\ bd.todo = {}
  /\ LET body == Body(bd.files, bd.leds)
     IN  /\ \E ts \in Stamps(body) : man' = Manifest(body, IF bd.signkey THEN "op" ELSE None, ts)
         /\ issued' = IF bd.signkey THEN issued \cup {body} ELSE issued
  /\ bd' = Idle
  /\ UNCHANGED <<key, pqkey, data, signed, sg, dir, used>>

\* A kill, a failing write, or openssl that cannot be run (CheckNotRun): what was copied stays.
BuildAborts ==
  /\ bd # Idle /\ used.kill < MaxKills
  /\ bd' = Idle /\ Count("kill")
  /\ UNCHANGED <<key, pqkey, data, signed, sg, dir, man, issued>>

-----------------------------------------------------------------------------
(* Whoever holds the pack edits a ledger and the manifest, with any key    *)
(* but the operator's.                                                     *)
Stripped(e) == [e EXCEPT !.sig = NoSig, !.signer = None]
NoPq(e)     == [e EXCEPT !.pqsig = NoSig, !.pqsigner = None]
Foreign(l)  == LET c == Chain([i \in 1..Len(l) |-> "eve"]) IN [i \in 1..Len(c) |-> Signed(c[i], "eve", "eveq")]
EditedLedgers(l) ==
  {l, Foreign(l), Chain([i \in 1..Len(l) |-> "eve"])}
  \cup (IF l = Absent THEN {} ELSE
     {SubSeq(l, 1, Len(l) - 1),                        \* the tail is cut off
      [l EXCEPT ![Len(l)].data = "eve"],               \* content altered, hash kept
      [l EXCEPT ![1] = Stripped(@)],                   \* the first signature removed
      [i \in 1..Len(l) |-> NoPq(l[i])],                \* the PQ layer removed
      [l EXCEPT ![Len(l)].pqsig = BadSig],
      [i \in 1..Len(l) |-> [l[i] EXCEPT !.signer = WeakKey, !.sig = <<WeakKey, << >>>>]]})

\* The manifests that can be put beside edited files: kept, made anew, or spliced with the old signature.
EditedManifests(files) ==
  LET body(pins) == Body(files, [n \in Names |-> Meta(files[n], pins)])
      own        == {body([ed |-> "eve", pq |-> "eveq"]), body([ed |-> None, pq |-> None])}
  IN  {man, [man EXCEPT !.extra = TRUE]}
      \cup {Manifest(b, s, {}) : b \in own, s \in {None, "eve"}}
      \cup {[man EXCEPT !.body = b, !.digest = b] : b \in own}       \* digest recomputed, signature kept
      \cup {[man EXCEPT !.body = b] : b \in own}                     \* digest and signature kept

Edit ==
  /\ sg = Idle /\ bd = Idle /\ man.there /\ used.edit < MaxEdits
  /\ \E n \in Names : \E l \in EditedLedgers(dir[n]) :
       LET files == [dir EXCEPT ![n] = l]
       IN  dir' = files /\ man' \in EditedManifests(files)
  /\ used' = [c \in DOMAIN used |-> IF c = "edit" THEN used.edit + 1 ELSE 0]
  /\ UNCHANGED <<key, pqkey, data, signed, sg, bd, issued>>

-----------------------------------------------------------------------------
(* verify_pack for a reader: opt = [ed, pq] the ledger keys the caller     *)
(* pins, mansigner the manifest key it pins, mldsa and openssl: what this  *)
(* host can verify.                                                        *)
FileOk(n)     == dir[n] # Absent /\ dir[n] = man.body.files[n]
ManifestOk    == man.digest = man.body
Authenticated == man.sig # NoSig /\ man.signer # None /\ man.sig = <<man.signer, man.digest>>

ManifestPinned_Unbound(opt) == opt.mansigner # None /\ Authenticated /\ man.signer = opt.mansigner

ManifestPinned(opt) ==
  opt.mansigner # None /\ Authenticated /\ ManifestOk /\ man.signer = opt.mansigner

LedgerResult(n, opt) ==
  LET l    == dir[n]
      lm   == man.body.leds[n]
      rec  == opt.pq = None /\ lm.pqp = "true" /\ ManifestPinned(opt)
              /\ Cardinality(lm.pqsigners) = 1 /\ Cardinality(lm.signers) = 1
      exp  == IF rec THEN Opt(CHOOSE k \in lm.signers : TRUE, CHOOSE k \in lm.pqsigners : TRUE, opt.mldsa)
                     ELSE Opt(opt.ed, opt.pq, opt.mldsa)
      sv   == VerifySignatures(l, exp)
      lost == lm.pqp = "true" /\ sv.pqp # "true"
      refuted == sv.status \in {"absent", "partial", "invalid"}
  IN  IF ~FirstSigned(l)
      THEN [hash |-> HashPass(l), sig |-> TRUE, pq |-> "false",
            whole |-> Len(l) = lm.entries /\ HeadOf(l) = lm.head]
      ELSE [hash |-> HashPass(l),
            sig  |-> sv.ok /\ ~(lost /\ exp.pq # None),
            pq   |-> IF lost /\ exp.pq = None /\ ~refuted THEN "null" ELSE sv.pqp,
            whole |-> Len(l) = lm.entries /\ HeadOf(l) = lm.head]

LedgersOk(opt) ==
  \A n \in Names : dir[n] # Absent /\ LedgerResult(n, opt).hash /\ LedgerResult(n, opt).sig /\ LedgerResult(n, opt).whole

\* _verify_rfc3161: granted and the imprint is the digest; "null" without openssl.
Rfc3161(opt) ==
  IF man.ts = {} THEN "unclaimed" ELSE IF ~opt.openssl THEN "null" ELSE IF man.ts = {man.digest} THEN "true" ELSE "false"

Valid_Unbound(opt) ==
  /\ man.there /\ ~man.extra
  /\ (\A n \in Names : FileOk(n)) /\ LedgersOk(opt)
  /\ ~(man.sig # NoSig /\ ~Authenticated)

\* The verdict; a missing or open manifest fails first.
Valid(opt) ==
  /\ man.there /\ ~man.extra
  /\ (\A n \in Names : FileOk(n)) /\ ManifestOk /\ LedgersOk(opt)
  /\ ~(man.sig # NoSig /\ ~Authenticated)

(* verify_evidence.verify_pack: the layers of the receipt.  It opens the   *)
(* manifest a second time; reread: a signature was found in it then.       *)
PassFail(b) == IF b THEN "PASS" ELSE "FAIL"
Layers(opt, reread) ==
  IF ~man.there \/ man.extra THEN <<"FAIL">>
  ELSE << PassFail(\A n \in Names : FileOk(n)), PassFail(ManifestOk),
          IF Authenticated THEN "PASS" ELSE IF reread THEN "FAIL" ELSE "SKIP",
          PassFail(LedgersOk(opt)),
          CASE Rfc3161(opt) = "true" -> "PASS" [] Rfc3161(opt) = "false" -> "FAIL" [] OTHER -> "SKIP",
          PassFail(Valid(opt)) >>

\* _rollup: some layer was checked and none failed.
Rollup(layers) ==
  /\ \E i \in 1..Len(layers) : layers[i] # "SKIP"
  /\ \A i \in 1..Len(layers) : layers[i] \in {"SKIP", "PASS"}

-----------------------------------------------------------------------------
\* Once the pack is in other hands the operator no longer writes it.
Operator ==
  \/ \E n \in Live : AppendEntry(n) \/ SignStart(n)
  \/ Rotate \/ SignEntry \/ SignWrite \/ SignAborts
  \/ BuildStart \/ BuildCopy \/ BuildDescribe \/ BuildManifest \/ BuildAborts

Next == (used.edit = 0 /\ Operator) \/ Edit

Spec == Init /\ [][Next]_vars

-----------------------------------------------------------------------------
Readers ==
  [ed : {None}, pq : {None}, mansigner : {None, "op"}, mldsa : BOOLEAN, openssl : {TRUE}]
  \cup [ed : EdKeys, pq : PqKeys, mansigner : {None}, mldsa : BOOLEAN, openssl : {TRUE}]

TypeOK ==
  /\ key \in EdKeys /\ pqkey \in PqKeys
  /\ sg.pc \in {"idle", "sign"} /\ bd.pc \in {"idle", "copy", "describe"}
  /\ man.there => DOMAIN man.body.files = Names
  /\ used.kill \in 0..MaxKills /\ used.build \in 0..MaxBuilds

(* sign_ledger with a key that rotates while it runs: a signed ledger is   *)
(* on disk only if one Ed25519 key signed every entry and one ML-DSA key   *)
(* signed every entry or none, so that it verifies under its first signer. *)
SignedByOneKey ==
  \A n \in Names :
    signed[n] # Absent =>
      VerifySignatures(signed[n], Opt(signed[n][1].signer, signed[n][1].pqsigner, TRUE)).ok

(* build_pack over an earlier pack, killed between its copies, and edits   *)
(* by anyone: a pack that verifies with a manifest signed by the           *)
(* operator's key holds exactly the files one signed build put there,      *)
(* whatever the reader pins and the host can check, for verify_pack and    *)
(* for the front-end that reads the manifest twice.                        *)
OneBuild == man.body \in issued /\ \A n \in Names : dir[n] = man.body.files[n]

PackIsOneBuild ==
  (man.there /\ man.signer = "op" /\ Authenticated /\ ~OneBuild) =>
    \A opt \in Readers : ~Valid(opt) /\ \A reread \in BOOLEAN : ~Rollup(Layers(opt, reread))

(* verify_pack's pq_protected is true only for a ledger whose every entry  *)
(* the operator signed with both keys: recorded keys are not trusted       *)
(* unless the caller pinned the manifest signer and the body is bound.     *)
SignedByOperator(e) == e.sig # NoSig /\ e.sig[1] \in EdKeys /\ e.pqsig # NoSig /\ e.pqsig[1] \in PqKeys

ProtectedIsSigned ==
  \A n \in Names :
    (man.there /\ dir[n] # Absent /\ \E i \in 1..Len(dir[n]) : ~SignedByOperator(dir[n][i])) =>
      \A opt \in Readers : LedgerResult(n, opt).pq # "true"
=============================================================================
