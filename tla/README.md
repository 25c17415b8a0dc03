# A TLA+ model of CryptoValid OpenCore

CryptoValid OpenCore writes, seals, watches and verifies tamper-evident evidence: hash-chained
JSONL ledgers with Merkle tree heads, signed checkpoints that witnesses cosign, time-stamp tokens,
write-once records with erasable keys. This directory models the parts of it that keep state, checks
them with TLC and proves the most important results with TLAPS.

## Contents

1. [The system](#the-system): inventory of its components
2. [The modules](#the-modules): how states and actions correspond to the code
3. [What the runs check](#what-the-runs-check), bounds and fairness
4. [What is proved](#what-is-proved)
5. [Disagreements between code and documentation](#disagreements-between-code-and-documentation)
6. [What is not modelled](#what-is-not-modelled)
7. [Plan](#plan)

## The system

| component | state it keeps | operations | what is hard |
|---|---|---|---|
| **ingest** `cryptovalid_ingest.py` | a directory of segments with `.sth.json`, `.tip.json`, `.tsr` sidecars with their metadata and a `HEAD.json`; in memory the active segment, its index and chain, a queue, an open handle | `append`, `flush`, `seal`, `close`, open/resume, `verify_archive` | crash at any byte of a batch; failing writes and failing roll-backs; STH, HEAD and next segment written in three steps; rotation decided outside the lock; the time stamp taken outside the lock |
| **file writers** `verifier.py` | files at promised paths, stdout | `_write_stdout`, `write_output`, `write_new`, `copy_output`, `append_line`, `receipt_cli` | short writes, full pipes, lost readers, kills; the exit code must tell the truth about all of it |
| **ledger verification** `verifier.py` | none | `verify_ledger`, strict JSON, canonical form | ledger and tip are read at different moments; which inputs are rejected, and as what |
| **tip** `cryptovalid_tip.py`, `verifiers/go/append.go` | `.tip.json`, the lock file of the Go writer | `write_tip`, `sign_tip`, `check_tip`, `AppendSigned` | lag and lead of the tip after failures; `sign_tip` without the writer's lock |
| **monitor** `cryptovalid_monitor.py` | last accepted tree head | `run`, `find_matches` | ledger read twice while others write it; state file edited; silence |
| **witness** `cryptovalid_witness.py` | last cosigned checkpoint per origin, pending roots, ring of refusals, pairs seen; evidence and history files | `witness_cosign`, HTTP service, `submit_checkpoint`, `verify_witnessed` | concurrent workers; kills between four writes; conflicting roots in any order; bounded memory under replay; clients that race with each other, with lost answers and with their own late requests |
| **checkpoint** `cryptovalid_checkpoint.py` | none | `sign_note`, `cosign_v1`, `verify_note` | classification of signature lines: unknown, unsupported, undecidable here, false |
| **WORM escrow** `cryptovalid_worm.py` | objects (write once), keys | `store_record_escrow`, `retrieve_record`, `crypto_shred` | check-then-link; retries; erasure against store and retrieve |
| **merkle**, **receipts** | none | roots, inclusion and consistency proofs | boundaries of the proof algorithms |
| **signer, KMS** `signer.py`, `cryptovalid_kms.py` | key files, signed ledgers | `keygen`, `sign_ledger`, `verify_ledger_signatures`, `backend_from_uri` | a key that rotates at the token while a ledger is signed; two layers of signatures of which one may be missing, unpinned or unverifiable |
| **evidence pack** `evidence_pack.py`, `verify_evidence.py` | a pack directory with `MANIFEST.json` | `build_pack`, `verify_pack` | kill while building over an earlier pack; edits that keep or splice the manifest's signature |
| **decision receipts** `cryptovalid_acta.py` | none | `sign_receipt`, `verify_receipt`, `verify_chain` | instants at a key rotation, chains in part, relying parties with incomplete key sets |
| **MCP server** | none of its own | tools that call the others | retries of calls that half happened |
| re-anchoring, heterogeneous anchors, LOTL, TSA, Solana | caches | network calls and quorum rules | stale and missing answers |
| other draft verifiers (APS, SCITT, ...), fund certification, reports, ports in other languages | none | stateless checks | none of it is concurrent |

How they interact: every command delivers through the file writers. `ingest` writes through
`append_line`/`write_output`, writes a tip through `tip`, takes its roots from `merkle`, signs through
`signer`/`kms`, and asks a TSA for tokens. `monitor` reads the ledger `ingest` (or any writer) appends to
and the signed head it publishes. A log operator turns a head into a `checkpoint` and submits it to
`witness`, which keeps what it cosigned so that it never signs two histories; relying parties verify the
note that comes back. `signer` signs a finished ledger and `evidence pack` puts signed ledgers, their
verdicts and a signed manifest into a directory that changes hands. `worm` stands alone beside the ledger,
which records digests of its objects. All of them share one assumption: a process can be killed at any
step, and a file operation can fail.

What makes each component correct is stated in the properties below. In short: *ingest*, an acknowledged
entry is never lost and a sealed segment never changes; *file writers*, the exit code is the truth and a file
is whole; *tip*, what passes was signed and an honest log is not accused; *merkle* and *receipts*, what is
accepted is a prefix or a leaf of what was signed, and honest proofs are accepted; *monitor*, the heads
accepted are one growing tree; *witness*, the same for what was cosigned, and a log that signs two trees is
recorded as having done so; *checkpoint*, what a relying party accepts is a recent view of enough witnesses;
*worm*, an object is written once and an erased record stays erased; *signer*, one key signs one ledger;
*pack*, a valid pack under the operator's key is one build; *receipts of decisions*, a chain that passes is
what the issuer wrote and a missing key never makes or hides a finding.

## The modules

| module | models | main state | actions |
|---|---|---|---|
| `Ingest` | `Ingestor`, `append_line`, `write_tip` as it calls them, `verify_archive` | per segment `file` (lines), `torn` (bytes without newline), `sth`, `tip`, `tsr` (token and metadata); `head`; `seq idx prev first buf fh` are `_seq _idx _prev _first _buf _fh`; `pc op seal` per thread | `OpenFresh Resume RefuseResume` (`_open_or_resume`, `_resume`), `AppendEntry`, `Call`, `CallRotate`, the steps of `flush` (`FlushNothing FlushClosed WriteSome SyncBatch WriteTip`), of `seal` (`SealNothing SealSegment WriteHead RotateSegment`), of `_anchor` (`Request WriteToken WriteMeta`), each failing call (`WriteFails RollbackFails TipFails SealFails SealUnsynced HeadFails RotateFails`), `Crash` |
| `EvidenceLog` | what the writer promises: one log to which entries are only appended, each once and in order, never losing an acknowledged one | `log acked` | |
| `Output` | the writers of `verifier.py` under four commands (`verify`, `sign`, `copy`, `keygen`) | `disk` by path, `tmp`, `left buf sink pipe` of stdout, `failed`, `code`, per process | `KeygenRefuses Start RefuseTarget OpenTarget DirectWrite FillTmp SyncTmp Commit Link LinkExists` (files), `FlushText TakeRaw TakeBuffered AllTaken FlushSome Finish BrokenPipe` (stdout, exit), `FileFails SourceFails StdoutFails ReaderGone Kill`, `Drain` (the reader) |
| `LedgerCheck` | `verify_ledger`, `check_tip`, `verify_tip_signature` as operators that return sets of error names | | |
| `SignedLedger` | the Go appender (`Append`, `AppendSigned`), `sign_tip`, a verifier, whoever can write the files | `ledger torn tip`, `lock`, what each signer and reader has read | `AppendLine AppendFails SealTail SealFails`, `ReadChain SignTip`, `ReadLedger Verify`, `Tamper`, `Tick` |
| `Signatures` | `sign_ledger`'s record of one entry, `verify_ledger_signatures` with every status of the post-quantum layer, the refusal of weak keys (`ed25519_order`) | | |
| `Pack` | key backends, `sign_ledger`, `build_pack`, `verify_pack`, the pack branch of `verify_evidence` | backend keys, ledgers, signed ledgers, the pack's `dir` and `man`, the calls under way `sg bd` | `AppendEntry Rotate`, `SignStart SignEntry SignWrite SignAborts`, `BuildStart BuildCopy BuildDescribe BuildManifest BuildAborts`, `Edit` |
| `Instant` | `_instant`, `_instant_exact`, `_outside_window` | | |
| `Acta` | `sign_receipt`, `verify_receipt`, `verify_chain` | `receipts` (signed), `shown` | `Tick Issue Show Forget` |
| `Note` | `sign_note`, `cosign_v1` and its ML-DSA-44 form, `verify_note`, `verify_witnessed` | | |
| `Submission` | `submit_checkpoint`, `add_checkpoint`, `WitnessService` | `stored` per witness, `job` per client, `late` requests, the note `out` | `Submit Resubmit Serve AnswerLost Timeout ServeLate Junk Tick` |
| `Monitor` | `cryptovalid_monitor.run` in its deployments (`writer` with a key file, `auditor` with a trusted key and a published head, `none`) | the ledger, the state file, the locals of a run | `Snapshot ReadLeaves LoadState Red Green GreenStay Kill`; around it `BeginAppend EndAppend Publish TamperLedger EditState Tick` |
| `Worm` | `LocalWormStore`, `KeyRing`, escrow functions | `object keys`, per caller `at rid key` | `NewKey PutExists PutLink PutFails Shred GetKey GetBlob` |
| `Witness` | `witness_cosign`, `_cosign_locked` and the service around it | `state` (the JSON state), `evidence`, `history`, `cut` (a file ends in part of a line), per worker `pc job` | `Enter` (lock, load, decide), `RecordEvidence RecordHistory SaveState Reply`, `WriteFails`, `Kill` |
| `Hash` | `leaf_hash`, `node_hash`: a hash is the tree that was hashed | | |
| `Parts` | what a list comprehension with a condition keeps of a list (`Keep`), used by `Acta`, `SignedLedger` and `Witness` | | |
| `MerkleTree` | `mth`, `inclusion_proof`, `consistency_proof`: what a log makes (recursive operators) | | |
| `ProofWalk` | the verifiers of those proofs, one loop iteration per step: `verify_consistency`, `verify_consistency_b64`, `verify_receipt`, `consistency_roots` under `verify_cose`; `verify_inclusion`, `_verify_inclusion_from_leaf_hash` under both receipts, `_root_from_inclusion` | `job` (the call), `fn sn fr sr` as in the code, `rest` of the path, verdict `ok`, `at` | `Refuse SameSize BeginConsistency Skip BeginInclusion TooLong JoinLeft Climb JoinRight Finish` |

`MCIngest`, `MCWorm`, `MCWitness`, `MCMerkle`, `MCSignedLedger`, `MCActa` and `MCSubmission` instantiate these
for TLC (the refinement mapping to `EvidenceLog` is at the end of `Ingest`); `Output`, `Pack` and `Monitor` need
no instance of their own. The theorems are in eight modules: `IngestProofs`, `OutputProofs` (`Output` and `Worm`),
`MonitorProofs` (`Monitor` and `ProofWalk`), `WitnessProofs`, `PackProofs` (`Pack` and `Acta`), `SubmissionProofs`,
`SignedLedgerProofs`, and `PartsProofs` with the lemmas about `Parts` that three of the others use. `Worm`, `ProofWalk`
and `Acta` therefore prefix their `Init`, `Next` and `Spec` (`WormSpec`, `WalkSpec`, `ActaSpec`).

**Composition.** `SignedLedger` puts the Go writer, the Python signer and the Python verifier of `LedgerCheck`
over one pair of files. `Pack` puts the signer, the key backends, the pack builder and two verifiers over one
directory. `Submission` puts clients, witnesses and relying parties (`Note`) together; it takes from `Witness`
that what a request persists is persisted before it is answered, which `CosignedPersisted` checks there
under kills and failing writes. `Ingest`, `Monitor` and `Submission` take a root to be the sequence of its
leaves, or its size in a log with one history, which `ProofWalk` justifies.

Conventions. An entry, a tree head, a key is a number or a name; a hash is the thing hashed; a signature is the
key and what it signed. In `Ingest`, `Monitor` and `Witness` a Merkle root is the sequence of its leaves and a
consistency proof is the prefix relation; `ProofWalk`, where a root is the whole tree and a proof is a path
of hashes, shows that this is what the proof algorithms decide. Outside `Output`, which takes it apart, `write_output` is atomic
(temporary file and rename), and `PromisedWhole` is why; a fault after the rename (the fsync of the
directory) is a fault of its own in `Ingest` (`sthsync`, `headsync`). An operator whose name ends in
`_Something` beside the operator it imitates is a *mutant*, a plausible bug used to show that a property can
fail; no specification uses it.

Points of the models that are easy to get wrong:

* `append_line` is three steps in `Ingest`: any part of the batch may reach the file
  (`WriteSome`), then either fsync succeeds (`SyncBatch`), or the call fails and truncates back to the
  remembered end (`WriteFails`), or the truncation fails as well (`RollbackFails`). The queue is emptied
  only after success; the chain state in memory is already ahead.
* Lines written after a torn end are *fused*: `Joined` turns the first of them into a line that does
  not parse. `_resume` keeps the lines before the first that does not parse (`Kept`).
* `append` releases the lock before it rotates; `CallRotate` is the thread coming back with
  `min_entries`, so that another thread may have rotated in between.
* `_anchor` runs without the lock on the STH its thread sealed (`seal`), while others seal on. It files
  whatever token comes back, even one that was not granted, is not signed or carries another digest
  (`BadAnswers`), and only the metadata says so; a failure in any of its steps goes into the metadata too, except
  that of writing the metadata, which `seal()` raises.
* In `Output` `verify` goes on to stdout after its file failed and the others do not; a lost stdout is 74
  whatever the verdict; the buffer is flushed before the exit code is chosen (`FlushDone`).
* In `SignedLedger` `sign_tip` counts the entries without the lock and may put an older tip over a newer one;
  the verifier reads the lines first and the tip second. Whoever tampers has every genuine tip ever issued.
* In `Monitor` whoever edits the state may put into it any head the log key signed: that of an older state, that of
  the ledger as it is, rewritten or not, or the published one (`SignedTrees`). `run()` cannot tell such a head from
  its own; the ghost `since` marks where the baseline was replaced so.
* In `Pack` the digest in the manifest is of the bytes at the destination, not of the source, and the
  signature fields of a ledger are recorded only when its first entry is signed. An unpinned reader takes
  the recorded keys only if the manifest itself verifies under the pinned manifest key (`LedgerResult`).
* In `Acta` a receipt that could not be assessed is still hashed for the next link, one that failed is not.
* In `Submission` the answer to a request is computed when the witness serves it; the 409 a client follows
  may be out of date by its second request, which another 409 then ends.
* In `Witness` the decision is one atomic step because it runs under the file lock and only reads; the
  writes that follow are separate steps, in the order of `Order`, because a kill may fall between them.
* In `ProofWalk` sizes, index and path belong to the maker of the proof, the old root or leaf to the reader,
  and the new root to the signer. `verify_receipt` compares the size with the signed one; `verify_cose`
  cannot, since the sizes are in the unprotected header. `verify_inclusion` alone does not stop when
  path is left over at the root (`TooLong`), and `verify_receipt` does not look at the path between two
  heads of one size (`SameSize`); neither lets a false claim through.

## What the runs check

| run | instance | states | properties |
|---|---|---|---|
| `ingest_faults` | 2 threads, batch 2, rotate at 2, 3 entries, one fault among `write sth open answer`, one crash | 571 k, 103 s | `AckedRecoverable SealedVerifies HeadCommitsPrefix TipInStep ResumeAccepts SealedNeverChanges ImplementsEvidenceLog` |
| `ingest_threads` | 2 threads, 5 entries, no faults, fairness | 91 k, 13 s | `SegmentBound HeadUpToDate DueIsSealed` |
| `ingest_sidecars` | 2 threads, batch 1, rotate at 1, 3 entries, one fault among `rollback tip sthsync head headsync tsa answer token tokensync lotl meta`, one crash | 959 k, 40 s | `AnchorTruthful SthCommitsEntries` |
| `output` | 2 commands of any kind, outcomes of 2 units, a pipe that holds 1, one fault, one kill, fairness | 197 k, 34 s | `ExitTruthful PromisedWhole KeysKept Ends` |
| `tips` | 1 writer, 1 `sign_tip`, 1 verifier with 8 sets of options, 2 entries, one tampering, one fault, fairness | 501 k, 104 s | `AcceptedWasSigned HonestVerdicts EventuallySealed` |
| `pack` | 2 ledgers, 2 keys of each kind, one append, rotation, kill and edit, 2 calls of sign and build | 239 k, 81 s | `SignedByOneKey PackIsOneBuild ProtectedIsSigned` |
| `acta` | 3 receipts over 3 instants, chains up to 3 in any order or with one edit, 14 relying parties | 62 k, 73 s | `PassIsPath HonestChains KeysOnlyInform` |
| `submission` | 2 clients, 2 witnesses of which one has two keys and one a clock ahead, one fault, fairness | 122 k, 75 s | `FreshView NeverAccused Witnessed` |
| `monitor` | all deployments, 2 entries, 2 tamperings, fairness | 239 k, 47 s | `BaselinesLinear CatchesUp` |
| `witness` | 2 workers, trees up to 2 leaves of 2 values, 3 requests, one failing write, one kill that may cut a line, every memory bound 1 or 2, of which only the bound on pending roots is exceeded | 138 k, 24 s | `CosignedPersisted SplitViewRecorded EachRootRecorded EvidenceSound StoredGrows` |
| `worm` | 3 callers, 2 records, 3 stores | 36 k, 3 s | `ErasedStaysErased WriteOnce` |
| `merkle` | every consistency and inclusion proof for trees up to 9 leaves, as made and with one element missing, doubled, foreign or added, sizes and index one off; every path of up to 3 nodes for trees up to 4 leaves against all their one-leaf forks | 875 k, 13 s | `ProofsExact AcceptedIsPrefix AcceptedIsIncluded` |

What they say:

* *Ingest.* `AckedRecoverable`: a restart finds every entry a flush returned for. `SealedVerifies`: `verify_archive` finds no fault in the chain, root or STH link of a sealed segment, and one in
  its token only if the TSA's own answer was bad (as in `test_ingest.py:355-377`, where an untouched archive fails).
  `SealedNeverChanges`: a sealed segment stays. `HeadCommitsPrefix`, `HeadUpToDate`: the HEAD
  commits to a prefix of the archive, and to all of it when no call is under way. `TipInStep`: a tip names
  entries that are there and (with no failing tip write among the faults) all acknowledged ones. `ResumeAccepts`: what a
  crash leaves is never refused. `AnchorTruthful`: a token is filed beside the STH it was requested for, and
  the metadata never claim a token file, a bound digest or an unqualified success that is not there.
  `SthCommitsEntries`: an STH commits only to entries. `SegmentBound`, `DueIsSealed`: rotation neither overshoots nor is forgotten.
* *Output.* `ExitTruthful`: the exit code says exactly whether the whole outcome was delivered.
  `PromisedWhole`: no part or mixture at a promised path. `KeysKept`: a key file is never replaced.
  `Ends`: every command that is not killed ends, however slowly its pipe is read.
* *Tips.* `AcceptedWasSigned`: what passes with a required tip was signed, entry by entry, not before the
  time asked for. `HonestVerdicts`: the errors an honest ledger can produce. `EventuallySealed`: its tail
  ends up sealed.
* *Pack.* `SignedByOneKey`: a signed ledger is signed by one pair of keys although the backend's key rotates.
  `PackIsOneBuild`: a valid pack whose manifest the operator's key signed is one that one build made.
  `ProtectedIsSigned`: `pq_protected` is true only of entries the operator's keys signed.
* *Acta*: `PassIsPath`, `HonestChains`, `KeysOnlyInform`, in one sentence each in `Acta.tla`.
* *Submission*: `FreshView`: an accepted note was cosigned by enough different witnesses, recently, none of whom
  had cosigned a larger tree before. `NeverAccused`: whatever clients race and messages do, an honest log is
  answered 200 or 409. `Witnessed`: every witness cosigns the last tree.
* *Monitor*: `BaselinesLinear`: the heads accepted since the baseline was last replaced are one growing tree.
  What replaces it is deleting the state file, having no key, or putting another head of the log key into it; an
  edited size, root or time, a dropped head and one of another key do not. `CatchesUp`: with nobody tampering the
  baseline reaches the last published head.
* *Witness*: `CosignedPersisted`, `StoredGrows`: what was cosigned is one growing tree and on disk;
  `SplitViewRecorded`, `EvidenceSound`: two signed trees are recorded, nothing else is, and once;
  `EachRootRecorded`: without failing writes and kills each of the roots is in some record. That the state
  file stays within its bounds (`StateBounded`) is proved and has no run of its own.
* *Worm*: `ErasedStaysErased`, `WriteOnce`. *Merkle*: `ProofsExact`: the verifiers accept exactly the
  proofs the log makes; `AcceptedIsPrefix`, `AcceptedIsIncluded`.

`CHECK_DEADLOCK FALSE` appears where the bound on requests or entries ends a behaviour, or where a
restart is refused, a command has exited or a verifier has returned: there the program really has nothing
left to do.

**Why the bounds are enough to be interesting.** `Ingest`: with `Batch = Rotate = 2` and three entries
there is a sealed segment, an active one and a partly written batch at once; one crash reaches every
step, and the restarted process goes on appending. Two threads are what a race for rotation needs.
In `ingest_sidecars` every entry is a segment, so that three segments are sealed while their anchors are under way; one
fault there is one bad answer of the TSA, one failing step of `_anchor`, or one failing write that leaves a fused line or a
segment to be sealed twice.
`Output`: an outcome of two units through a pipe that holds one gives short writes, a full pipe and a part
left in the buffer; two commands are what a race for a path needs. `SignedLedger`: two entries give a tip over
none, one or both; one fault gives a torn line or a missing tip, and one tampering gives each edit together
with each older tip. `Pack`: two ledgers so that a kill leaves one new and one old file, two builds so that
there is an old one, one rotation, one edit. `Acta`: three receipts are the first chain with an interior;
the clock has a leap second, digits past the tenth, and one instant written in two zones. `Submission`:
two clients race at a witness; three sizes (none, first, last), one witness a second ahead, one fault.
`Monitor`: two entries and two tamperings give a truncation followed by growth, a rewrite of any suffix,
and an edit of the state that makes a tampered ledger fit, its own signed head included. `Worm`: two stores of one record
and a third caller that shreds or retrieves between their steps. `Witness`: two sizes and two leaf values
give a stored, a passed and a pending size, each with a rival root. With three requests the bound on pending roots is
exceeded and something is forgotten; those on refusals, pairs seen and the history scan are reached at most, and what is
true beyond them rests on the theorems. `merkle`: nine leaves are the first size past 8, so that sizes below, at and above three
powers of two occur on both sides; three nodes are the longest path of a tree of four leaves and one more.

Some instances are narrower than what they stand for, and the theorems are wider only where the model is. `ingest_threads`
has no crash (`HeadUpToDate` is false after some, see below). In `tips` and its theorems a file is truncated, rechained
from any entry on, or edited in one line, but a `self_hash` stays with its line and lines keep their order. `pack` edits
one ledger or the manifest once, and its readers are a fixed family. In `acta` a party lacks one thing at a time. In
`submission` the relying parties are four fixed policies without skew of their own and what is presented to them is the note at
`--out` or that note with one edit; `NeverAccused` is about the HTTP answers, while the witness's internal count of rollbacks
also counts an honest note that is merely late (`cryptovalid_witness.py:348-349`). `witness` has one origin.

The theorems below remove the bounds for every safety property of the runs but one, `ProofsExact`
(some under hypotheses on the faults, named with them). The symmetry sets are the threads, callers and workers, which the specifications treat
alike; they are used only in runs that check no liveness.

**Fairness.** `ingest_threads`: a thread inside a call keeps running (weak fairness of `Step`), and a
thread that waits for the lock gets it in the end (strong fairness of `CallRotate`), which the
interpreter's scheduling of a contended `RLock` amounts to. Nothing makes a caller call. `monitor`: the
command is scheduled again and again and is not killed every time (strong fairness of its steps: a run
is disabled while it is killed and enabled again at the next schedule); an append that began ends and the
writer publishes its head (weak fairness). `Tick`, tampering and new appends are never forced. `output`: a
process that can go on does (`_wait_writable` sleeps in `select`, it does not give up), and a reader that has
not gone away reads. `tips`: a writer that holds the lock goes on to write its tip, and `sign_tip` is run
again and again, as its documentation asks ("Call after every append"). `submission`: a request under way is
answered or given up (weak fairness of `Serve`; the client has a timeout), and clients submit to every
witness again and again as long as one is free again and again (strong fairness of `Submit`: a client is
not free all the time). Faults, kills and lost answers are never forced.

**Refinement.** `ImplementsEvidenceLog` maps the archive to a log from places (segment, line) to entries (`Committed`),
leaving out the lines after the remembered end while `append_line` is at work, since a failure takes them back (`Firm`). The
abstract log never changes an entry, grows only after all its places, is in the order of `append()`, which also
rules out an entry that a retried batch records twice, and contains what is acknowledged.

## What is proved

All theorems hold for every value of the constants that the modules' `ASSUME`s admit: any number of threads,
workers, commands, entries, faults and crashes. A theorem that needs a hypothesis on the faults or crashes names
it; the disagreements below show what goes wrong without those on roll-backs, tips and `seal()`. The assumptions on constants say no more than what
the bounds and sets mean: bounds are numbers, memory bounds of the witness at least 1, the clock of `Acta` is ordered as RFC 3339
orders instants, the witnesses are finitely many and nobody trusts a cosigner `"eve"`, and a verifier trusts no key of whoever
tampers. An invariant that a run checks is seldom inductive; each part
below names the strengthening (checked by TLC before it was proved) and why it is needed.

`IngestProofs`
* `TypeCorrect`: `Spec => []TypeOK`. The type is not inductive, because a step that writes to
  "the active segment" is typed only if that segment exists. `TypeInv = TypeOK /\ Placed`
  adds where each thread and the process stand: the active segment is the last one or the one about to
  be created, a thread past the write is on an existing one, a dead process has no thread in a call.
* `AckedEntriesSurvive`: if the truncation of a failed write never fails itself (`"rollback"` not among
  the faults), `Spec => []AckedRecoverable`. `DurableInv` is: every line ever queued or
  written parses (`AllOk`); a write never starts after torn bytes (`CleanEnd`); an acknowledged entry is
  in the firm part of a file, and an entry of the living process is there or still queued
  (`Accounted`), where the firm part of the file being written ends at `append_line`'s remembered end.
* `NeverRefused` (`ResumeAccepts`), under the same hypothesis. `StreamInv`: each segment is a hash chain
  (`Chains`), and the lines on disk followed by the queue are a chain of which `_idx`, `_prev`, `_first` are the
  state (`InStep`), whatever part of a batch was written, taken back or left by a kill.
* `LogImplemented` (`ImplementsEvidenceLog`), under the same hypothesis: `Spec` implements `EvidenceLog` under the mapping `Committed`. `OrderInv`: the
  lines on disk are in the order of `append()` from place to place, also the ones not yet firm, which a crash makes firm
  (`DiskOrder`); the queue is in order and after every firm line (`QueueOrder`); the next number is fresh (`NextIsFresh`).
  `OrderStep` shows that a step keeps the firm lines and makes lines firm only in the last segment (`Grows`), `LogStep`
  that this is a step of the log.
* `SealedSegmentsStay`: if no write of `seal()` fails after the STH is in place, `Spec =>
  SealedNeverChanges`. The invariant `ActiveUnsealed` says that the segment in use has no STH except
  between the STH write and the switch to the next segment.
* `HeadNeverAhead` (`HeadCommitsPrefix`) and `ArchiveVerifies` (`SealedVerifies`), under the same hypothesis and, for the
  second, no failing roll-back. `SealInv` adds that only the active segment can be unsealed (`SealedBelow`)
  and that a sealed one reads back to the leaves of its STH, which links to the one before (`Faithful`). That a token beside
  it fails only by the TSA's fault follows with `AnchorInv`: the token's request was for this STH.
* `HeadStaysCurrent` (`HeadUpToDate`), without crashes: from the STH to the HEAD the thread holds the lock, so that
  outside that step the HEAD counts exactly the sealed segments (`HeadCurrent`).
* `TipStaysInStep` (`TipInStep`), if neither a roll-back nor a write of the tip fails. `TipInv`: a tip is the state of a
  prefix of the firm lines (`TipFirm`); entries are numbered apart, and none in the queue is acknowledged (`Numbered`); a
  line past the tip is not acknowledged, and if it is durable some `flush()` is about to write the tip
  that covers it (`Uncovered`).
* `AnchorsTruthful` (`AnchorTruthful`) and `OnlyEntriesCommitted` (`SthCommitsEntries`), with no hypothesis. `AnchorInv`: a
  thread that anchors, outside the lock, works on a segment below the active one that no other thread anchors and whose STH is the
  one it copied (`SealerInv`); the token it is about to file answers the request for that STH (`CarriesToken`), and the metadata
  it carries are true of what is on disk by then. A segment that is still in use has nothing beside it, so that one that
  is sealed twice after a failing HEAD write has no token of its first STH.
* `SegmentsBounded` (`SegmentBound`), for any finite set of threads, without faults and crashes. `BoundInv`: every entry
  past `rotate_entries` has a thread of its own that has yet to rotate (`Due`).

`OutputProofs` on `Output`: `TypeCorrect`, `WholeOrOld` (`PromisedWhole`), `Truthful` (`ExitTruthful`), `NeverReplaced` (`KeysKept`), for any number
of commands, any outcome size, pipe, faults and kills. `OutInv` says of each command: what it has still to write,
what is in the buffer and what stdout took add up to its outcome (`Balanced`); the files it made and the ones that
failed are what its position and exit code say (`Accounted`, `Placed`, `Ended`); the temporary file it is about to
move into place is whole (`Filled`). The exit code alone is not inductive because it is chosen from `failed` several
steps after the failure.

`MonitorProofs` on `Monitor`: `TypeCorrect`, `Linear` (`BaselinesLinear`), `Signed` (`StateIsSigned`, an action property: under a
key a run leaves only a state whose head the log key signed for that very tree). `LinearInv`: the state file, and the copy of it that
a run decides on, stand for the last tree accepted since the baseline was last replaced; under a key the size and root may have
been edited, but a head signed by the log key is of that tree (`Grounded`). An edit that puts in another head of the log key moves
`since` past every tree accepted so far, after which the claim starts anew.

`WitnessProofs`
* `TypeCorrect`, `Persisted` (`CosignedPersisted`), `Grows` (`StoredGrows`), `Bounded` (`StateBounded`),
  `Sound` (`EvidenceSound`) from `WitInv`: one request at a time is past the lock (`OneAtATime`); what a request
  carries through its four writes extends what is on disk (`Carries`), its state is within the bounds and names only
  roots the log signed (`GoodSt`); while nothing failed, the pairs in the evidence are among the pairs seen, or
  `lost` says that one was forgotten (`Remembered`).
* `NoProofLost` (`SplitViewRecorded`) from `SplitInv` on top of it: at every moment, on disk and in the request under
  way, a root that was answered for is the stored one, is in the history, is pending, or is refused and kept, or
  already has a pair at its size (`Books`), so that whichever root comes second meets the first.
* `EachRootProved` (`EachRootRecorded`) from `RootInv`, which is about behaviours in which nothing fails or is
  killed. `Books` would allow a root that no pair names. `RootInv` adds that one root of each size can still meet
  another (`Meets`) and that two which differ are both in a pair (`Recorded`). A new root that meets another is put
  into a pair, and if no two roots of its size differed before, the other root of that pair is all there was
  (`RootsAfter`). It holds because every root presented is then answered: a pair may name a
  root whose request failed, and so leave out the one that was answered.

`SubmissionProofs`, for any number of clients, any finite set of witnesses, sizes, times and faults
* `SubmissionCorrect`: `Spec => []SubmissionInv`. The types; every request, at a client or late, is to a witness,
  of a genuine note and with an old size that the note reaches (`UnderWay`); a genuine note carries the log's line and
  otherwise only lines that cosigners made for it (`Genuine`); a witness's cosignatures grow in
  size with time and are not beyond what it stores (`Ascending`).
* `HonestLogNeverAccused` (`NeverAccused`): a request under way is then behind or at the stored size in one of the
  ways that `add_checkpoint` answers with 200 or 409, whatever was lost, late or raced before.
* `AcceptedViewIsFresh` (`FreshView`): the lines `verify_witnessed` counts are those of different trusted witnesses, each
  a cosignature of this tree, and by `Ascending` none of them had cosigned a larger one before.

`SignedLedgerProofs`, for ledgers of any length, any number of writers, signers and verifiers and any number of acts of
tampering of the modelled kinds (a `self_hash` is never edited and lines are never reordered: `chain_tip` signs over a `self_hash` in
the middle that it does not recompute)
* `LedgersSigned`: `Spec => []SignedInv`. A hash is the nested record of what was hashed, so that it commits to every line
  before it and to data of its own. What the log key signed ends in the last hash of a linked chain. Its number of
  entries is the length of that chain or, when tampering made it wrong, one that no file holds this hash
  beyond (`SealInv`). So it must hold already of what a signer has read (`SignerInv`) and of
  what a writer is about to seal (`LockInv`), and every tip with the log's key is one of those signed
  (`TipFileInv`). Tampering leaves hashes out of a file (`Part`), or keeps a part of it and adds at the end the hash
  of data of its own (`Extends`); neither moves a signed hash further back (`Bounded`).
* `AcceptedSigned` (`AcceptedWasSigned`): a ledger that passes with a required tip is linked and has the tip's last hash at
  the tip's place; then its entries up to there are the ones signed.
* `HonestVerified` (`HonestVerdicts`): without tampering the ledger only grows, and what a verifier or `sign_tip` has read and
  what the tip names are its first entries (`HonestInv`).
* `TypeCorrect`.

`PackProofs` on `Pack`: `TypeCorrect`, `OneKeySigns` (`SignedByOneKey`), `OneBuildVerifies` (`PackIsOneBuild`), `ProtectedWasSigned`
(`ProtectedIsSigned`). `PackInv` says what `sign_ledger` has written and is writing is signed with the keys of its first
entry (`SigningOK`), that a build has described every ledger it is done with (`BuildOK`), that files are the operator's
until somebody edits them (`DirOK`), and that the operator's signature is only on bodies a build
signed (`ManOK`, `IssuedOK`). The manifest's digests then make what verifies equal to what that build saw.

`PackProofs` on `Acta`
* `InstantsCompare`: for any two RFC 3339 texts the keys of `_instant_exact` compare as the instants do, the fraction
  digit by digit. It needs that `rstrip("0")` leaves a last digit that is not zero (`LastDigitIs`), which makes
  a longer fraction with the same beginning the later one (`FractionsCompare`).
* `PassedIsPath` (`PassIsPath`), `HonestPass` (`HonestChains`), `AbsenceOnlyInforms` (`KeysOnlyInform`), for clocks, chains and
  numbers of receipts of any length. `ActaInv`: every receipt is as `sign_receipt` made it, with the key of its
  instant and the hash of an earlier receipt (`Written`), and what is shown is receipts of the issuer or a path with one
  edited (`ShownOK`). A link then names one receipt (`ParentPinned`); an edit without the issuer's key fails but for the flat form
  (`EditsFail`), which no later link can hash; `KeysInformReceipt`, which holds of any receipt whatever,
  compares a party's answer with that of a party with all keys; `HonestPass` uses `InstantsCompare` at the rotation.

`OutputProofs` on `Worm`
* `ObjectsAreWrittenOnce` (`WriteOnce`): only the link at a free path changes an object.
* `ReceiptsAreTrue`: the invariant adds that a store in progress holds a key, so that a receipt never
  names the absent object.
* `ErasureIsFinal`: keys are drawn once each, in different records they differ, an erased key is in no
  ring, and a retrieve that still holds one took it before the shred (`ErasureInv`).

`MonitorProofs` on `ProofWalk`
* `ConsistencySound` (`AcceptedIsPrefix`) and `InclusionSound` (`AcceptedIsIncluded`), for trees, paths and
  claimed sizes of any magnitude, negative ones included, and with no assumption on who made the proof except
  that hashes do not collide. The loop invariant `WalkInv` says that while the path is read the data of the old
  root rebuilt so far is a prefix of the data of the new one, and that the reader's leaf is within the root
  rebuilt so far. It holds at the start because both roots begin as the same node; a hash put to the left
  of both keeps it (`PrefixLeft`), and so does one put to the right of the new root (`PrefixRight`). The
  comparison at the end makes it a statement about the roots the reader holds. Positions and sizes
  do not occur in it, which is why sizes that nobody signed do no harm to these two properties.

Only model-checked:
* liveness (`DueIsSealed`, `CatchesUp`, `Ends`, `EventuallySealed`, `Witnessed`): TLAPS here has no support for fairness and `ENABLED`;
* `ProofsExact`, which is about what the recursive `consistency_proof` computes: induction over data and `RECURSIVE`
  operators are out of its reach.

## Disagreements between code and documentation

None of the runs is about these; each can be reproduced with the modules as the line says.

* `seal()` raises between STH and HEAD and leaves the sealed segment active; it is appended to and sealed
  again ("Sealed segments are never reopened", `cryptovalid_ingest.py:35`, against line 263). `Ingest` with one
  thread, `Batch = 1`, `Rotate = 2`, `Faults = {"head"}` violates `SealedNeverChanges`.
* A failing write of the token's metadata raises out of `seal()`, and so out of `append()`, although the entry is queued and the segment is
  sealed ("qualunque errore finisce nei metadata, mai sull'ingestione", `cryptovalid_ingest.py:277`, against line 307, which is
  outside the `try`). In `WriteMeta` this is the disjunct with `Fail("meta")`.
* The monitor's report declares that deleting the state or replaying an older one resets the baseline without an alert
  (`cryptovalid_monitor.py:176-178`). Any other head that the log key signed does so too (lines 118-134): the head a
  writer published of a rewritten ledger, put into the state file, is accepted and the next green run goes on from it. `Monitor` with
  `Replaces` reduced to the deleted file, the missing key and the heads in `bases` violates `BaselinesLinear`.
* Write and truncation both fail; the queued batch is written after the torn part, and the next restart
  drops entries that `flush()` returned for (`cryptovalid_ingest.py:234` against lines 34 and 233). `Ingest` with
  `Faults = {"rollback"}` violates `AckedRecoverable`.
* A store refused because the object exists has already replaced the record's key (`cryptovalid_worm.py:106`).
  `Worm` violates `Retained`.
* A kill inside `append_line` leaves part of an evidence line; the next proof is fused with it and never
  written again, since the pair counts as seen (`cryptovalid_witness.py:227`). `Witness` violates
  `SplitViewRecorded` without its premise `Intact`.
* A cosigned checkpoint is appended to the history before the state is saved (`cryptovalid_witness.py:405` and
  line 408): when the save fails, the client gets an error and the history has a line for a checkpoint that was
  never returned ("one line per cosigned checkpoint", the repository's `README.md:1397`). A later rollback may then be paired with that line and
  not with the root that was returned, so that `EachRootRecorded` holds only without failing writes.
* Every green run of the monitor rewrites the time that silence is measured from (`Green` sets `ts`), so it
  is the time since the last green run and not, as the module's header says, how long the head has been
  unchanged (`cryptovalid_monitor.py:182` against line 15).
* A crash between STH and HEAD leaves a HEAD that lags until the next seal (`HeadUpToDate` is checked only
  without crashes; `HeadCommitsPrefix`, that the HEAD never claims too much, is checked with them), and a
  failing `write_tip` leaves durable entries beyond the tip because a repeated `flush()` has nothing queued.

Limits of the design that the properties had to name, none of them contradicted by a document: the last
receipt of an ACTA chain may be re-encoded in flat form and still passes, since nothing hashes it
(`PassIsPath`); a receipt whose `alg` was changed to ML-DSA-65 is `not_assessed` on a host without ML-DSA and fails on
one with it (`KeysOnlyInform`); `verify_pack` looks at a ledger's signatures only if its first entry
has one, so that without a pinned manifest key a stripped ledger beside a manifest made anew is valid
(`PackIsOneBuild` is about a manifest signed by the operator); when two `keygen --pq` race, the loser at `<keyfile>.pq` ends with exit
1 and a traceback, not with 2 (`LinkExists`); a verifier that reads while the log grows may answer
`tail_truncated`, and a tip signed over the empty file is later called foreign (`HonestVerdicts`).

## What is not modelled

* `last_anchor_error` of `Ingest`, which nothing in the archive depends on; `_anchor` takes the lock for a moment to read and write
  attributes, which guards nothing here. Whether a token is qualified (LOTL) is a field of the metadata that no property reads;
  that the check raises is modelled.
* Cryptography, byte formats, JSON, CBOR, base64. A conversion matters only as "this line parses or not",
  except for RFC 3339 instants (`Instant`), where it decides an order.
* The file system below the calls: `fsync` is believed, a rename is atomic, a failed `write` may leave
  any part of its data.
* Two writer processes on one archive directory, two monitor runs on one state file: the code takes no
  lock against them.
* In `Witness`: the checks on a note before the lock (they touch no state; `Note` has them), several origins (all
  maps are keyed by origin), requests with an explicit timestamp, the HTTP framing.
* In `Pack`: the protocols of the key backends (PKCS#11, AWS, Vault, NetHSM), which are calls that succeed,
  fail, or answer with another key; SUMMARY.md, which no verifier reads.
* In `Acta`: canonical JSON and the refusals of malformed members, which are one flaw of the form.
* Network clients (TSA, LOTL, Solana, KMS) are calls that succeed or fail.
* The stateless verifiers, renderers, test runners and ports listed in `PROJECT.json`: sequential parsing and
  arithmetic over text, which unit tests and the differential oracle of the repository reach as well.

Definitions that no configuration lists and that can be added to one: `TypeOK` of each module, `ReceiptsHold`
(`Worm`, proved), `StateIsSigned` (`Monitor`, proved), `StateBounded` (`Witness`, proved), `Retained` (`Worm`, violated, see above).

## Plan

1. Done: `Ingest`, `Monitor`, `Worm`, `Witness`, the Merkle proofs with the receipts; the file writers, the tips with the
   Go writer, signer and packs, ACTA chains, notes and submission.
   Theorems for the refinement of `EvidenceLog`, for every safety property of the runs except `ProofsExact`, and for
   the soundness of the Merkle proofs.
2. `MCP`: `append_event` over `Ingest` by two processes, and the retry of a call that raised after it queued;
   this needs the payload in the entry.
3. The decision rules: re-anchoring from surviving witnesses, quorum of heterogeneous anchors, LOTL
   status history, DORA deadlines, as operators against a reference definition.
