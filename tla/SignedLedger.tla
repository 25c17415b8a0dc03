---------------------------- MODULE SignedLedger ----------------------------
(***************************************************************************)
(* A ledger and the signed tip beside it, as several processes use them:   *)
(* writers that append under the file lock and write the tip before they   *)
(* release it (Go AppendSigned), commands that read the ledger without the *)
(* lock and sign what they read (sign_tip), verifiers that read the ledger *)
(* and then the tip (verify_ledger), and someone who can write the two     *)
(* files but has no key.                                                   *)
(***************************************************************************)
EXTENDS LedgerCheck

CONSTANTS
  Writers, Signers, Readers,
  Opts,        \* the options verifiers are run with
  MaxEntries,  \* bound: entries written by anyone
  MaxTamper,   \* bound: writes by someone without the key
  MaxFaults,   \* bound: failing calls and killed writers
  MaxTime      \* bound: clock

ASSUME SignedLedgerConstants ==
  /\ \A n \in {MaxEntries, MaxTamper, MaxFaults, MaxTime} : n \in Nat
  /\ "free" \notin Writers
  /\ \A o \in Opts : o.key \in {"", "log", "bad"} /\ o.notBefore \in Int   \* nobody trusts a key of the tamperer

VARIABLES
  ledger, torn,  \* the complete lines; part of a line follows them
  tip,           \* the tip file
  lock,          \* the writer that holds the file lock, or "free"
  signer,        \* signer -> [n, id, last] read by chain_tip, or Idle
  reader,        \* reader -> the lines it read, or Idle
  now, data, tampers, faults,
  signed,        \* ghost: what the log key signed: the lines, when, with which keys
  issued         \* ghost: every genuine tip ever written

vars == <<ledger, torn, tip, lock, signer, reader, now, data, tampers, faults, signed, issued>>

Idle    == [at |-> "idle"]
Untampered == tampers = 0
Chain(lines) == [i \in 1..Len(Entries(lines)) |-> Entries(lines)[i].self]

Init ==
  /\ ledger = << >> /\ torn = FALSE
  /\ tip = NoTip
  /\ lock = "free"
  /\ signer = [s \in Signers |-> Idle]
  /\ reader = [r \in Readers |-> Idle]
  /\ now = 0 /\ data = 0 /\ tampers = 0 /\ faults = 0
  /\ signed = {} /\ issued = {}

TypeOK ==
  /\ \A i \in 1..Len(ledger) :
       /\ ledger[i].kind \in {"entry", "blank", "broken"}
       /\ ledger[i].kind = "entry" => ledger[i].idx \in Nat
  /\ torn \in BOOLEAN
  /\ tip.kind \in {"none", "unreadable", "tip"}
  /\ lock \in Writers \cup {"free"}
  /\ \A s \in Signers : signer[s].at \in {"idle", "read"}
  /\ \A r \in Readers : reader[r].at \in {"idle", "read"}
  /\ now \in 0..MaxTime /\ data \in 0..MaxEntries /\ tampers \in 0..MaxTamper /\ faults \in 0..MaxFaults
  /\ issued \subseteq {Tip(s.n, s.id, s.last, s.ts, "log", s.pq) : s \in signed}

-----------------------------------------------------------------------------
(* write_tip: sign (entries, ledger id, last hash) now, replace the file.  *)
(* AppendSigned has the Ed25519 key only; sign_tip is run with both keys.  *)
WriteTip(t, chain, pq) ==
  /\ tip' = Tip(t.n, t.id, t.last, now, "log", pq)
  /\ issued' = issued \cup {tip'}
  /\ signed' = signed \cup {[n |-> t.n, id |-> t.id, last |-> t.last, ts |-> now, pq |-> pq, chain |-> chain]}

\* tail(): the last line that is not blank is an entry, the file ends with a newline.
TailReadable ==
  /\ ~torn
  /\ \A i \in 1..Len(ledger) : ledger[i].kind = "broken" => \E j \in EntryLines(ledger) : i < j

TailState ==
  LET es == Entries(ledger)
  IN  IF es = << >> THEN [idx |-> 0, prev |-> GENESIS] ELSE [idx |-> es[Len(es)].idx + 1, prev |-> LastSelf(es)]

\* appendLocked up to the fsync of the line.
AppendLine(w) ==
  /\ lock = "free" /\ data < MaxEntries /\ TailReadable
  /\ lock' = w
  /\ \E a \in 1..2 :
       /\ ledger # << >> => Algos[a] = DetectAlgo(Entries(ledger))   \* a log keeps its algorithm
       /\ ledger' = Append(ledger, Entry(Algos[a], TailState.idx, data, TailState.prev))
  /\ data' = data + 1
  /\ UNCHANGED <<torn, tip, signer, reader, now, tampers, faults, signed, issued>>

\* A failing write or fsync is undone, unless the truncation fails as well;
\* a kill before the fsync leaves part of the line.
AppendFails(w) ==
  /\ lock = "free" /\ data < MaxEntries /\ TailReadable
  /\ faults < MaxFaults /\ faults' = faults + 1
  /\ torn' \in BOOLEAN
  /\ UNCHANGED <<ledger, tip, lock, signer, reader, now, data, tampers, signed, issued>>

SealTail_WrongId(w) ==
  LET es == Entries(ledger)
  IN  /\ lock = w /\ es # << >>
      /\ WriteTip([n |-> es[Len(es)].idx + 1, id |-> LastSelf(es), last |-> LastSelf(es)], Chain(ledger), "none")
      /\ lock' = "free"
      /\ UNCHANGED <<ledger, torn, signer, reader, now, data, tampers, faults>>

\* firstSelfHash: the first line only, which may be blank.
FirstLineSelf == IF ledger[1].kind = "entry" THEN ledger[1].self ELSE GENESIS

\* The hook of AppendSigned: the tip names idx + 1 entries, under the lock.
SealTail(w) ==
  LET es == Entries(ledger)
  IN  /\ lock = w /\ es # << >> /\ ledger[1].kind # "broken"
      /\ WriteTip([n |-> es[Len(es)].idx + 1, id |-> FirstLineSelf, last |-> LastSelf(es)], Chain(ledger), "none")
      /\ lock' = "free"
      /\ UNCHANGED <<ledger, torn, signer, reader, now, data, tampers, faults>>

\* The first line cannot be read, the tip cannot be written, or the writer is
\* killed: the entry is there and the tip stays behind.
SealFails(w) ==
  /\ lock = w
  /\ \/ ledger[1].kind = "broken" /\ UNCHANGED faults
     \/ faults < MaxFaults /\ faults' = faults + 1
  /\ lock' = "free"
  /\ UNCHANGED <<ledger, torn, tip, signer, reader, now, data, tampers, signed, issued>>

\* chain_tip: counts the entries, without the lock; a line that is not an
\* entry with a self_hash is refused.
ReadChain(s) ==
  /\ signer[s] = Idle
  /\ \A i \in 1..Len(ledger) : ledger[i].kind # "broken"
  /\ ~torn
  /\ LET es == Entries(ledger)
     IN  signer' = [signer EXCEPT ![s] = [at |-> "read", n |-> Len(es), id |-> FirstSelf(es), last |-> LastSelf(es), chain |-> Chain(ledger)]]
  /\ UNCHANGED <<ledger, torn, tip, lock, reader, now, data, tampers, faults, signed, issued>>

SignTip_IfNone(s) ==
  /\ signer[s].at = "read"
  /\ IF tip = NoTip THEN WriteTip(signer[s], signer[s].chain, "pq") ELSE UNCHANGED <<tip, signed, issued>>
  /\ signer' = [signer EXCEPT ![s] = Idle]
  /\ UNCHANGED <<ledger, torn, lock, reader, now, data, tampers, faults>>

SignTip(s) ==
  /\ signer[s].at = "read"
  /\ WriteTip(signer[s], signer[s].chain, "pq")
  /\ signer' = [signer EXCEPT ![s] = Idle]
  /\ UNCHANGED <<ledger, torn, lock, reader, now, data, tampers, faults>>

\* verify_ledger reads all lines, and looks for the tip after that: between
\* the two it is at "read", and what it would answer is Errors.
LinesRead == IF torn THEN Append(ledger, Broken) ELSE ledger
ReadLedger(r) ==
  /\ reader[r] = Idle
  /\ reader' = [reader EXCEPT ![r] = [at |-> "read", lines |-> LinesRead]]
  /\ UNCHANGED <<ledger, torn, tip, lock, signer, now, data, tampers, faults, signed, issued>>

Errors(r, opt) == VerifyLedger(reader[r].lines, tip, opt)
Verify(r) ==
  /\ reader[r].at = "read"
  /\ reader' = [reader EXCEPT ![r] = Idle]
  /\ UNCHANGED <<ledger, torn, tip, lock, signer, now, data, tampers, faults, signed, issued>>

-----------------------------------------------------------------------------
(* Someone who can write the files but has no log key.                     *)
Tampering == tampers < MaxTamper /\ tampers' = tampers + 1

Truncate ==
  /\ \E n \in 0..(Len(ledger) - 1) : ledger' = SubSeq(ledger, 1, n)
  /\ torn' = FALSE /\ UNCHANGED data
\* A suffix replaced by an entry chained properly, or an entry added; it may
\* have a field outside the schema, hashed with the rest.
Rechain ==
  /\ data < MaxEntries /\ data' = data + 1
  /\ \E n \in 0..Len(ledger) :
       /\ \A i \in 1..n : ledger[i].kind = "entry"
       /\ LET kept == SubSeq(ledger, 1, n)
              e    == Entry(DetectAlgo(kept), n, data, LastSelf(kept))
              x    == [e EXCEPT !.extra = TRUE]
          IN  ledger' \in {Append(kept, e), Append(kept, [x EXCEPT !.self = HashOf(DetectAlgo(kept), x)])}
  /\ UNCHANGED torn
\* A field of one line edited without repairing the rest, a line taken out, one
\* put in.  A self_hash stays with its line and lines stay in their order:
\* chain_tip signs over a self_hash in the middle that it does not recompute, and
\* then "signed" would record a chain that no verifier accepts.
Edit ==
  /\ \E i \in 1..Len(ledger) :
       /\ ledger[i].kind = "entry"
       /\ \/ ledger' = [ledger EXCEPT ![i].data = -1]
          \/ ledger' = [ledger EXCEPT ![i].extra = TRUE]
          \/ ledger' = [ledger EXCEPT ![i].idx = @ + 1]
          \/ ledger' = [ledger EXCEPT ![i].prev = GENESIS]
          \/ ledger' = SubSeq(ledger, 1, i - 1) \o SubSeq(ledger, i + 1, Len(ledger))
          \/ \E l \in {Blank, Broken} : ledger' = SubSeq(ledger, 1, i) \o <<l>> \o SubSeq(ledger, i + 1, Len(ledger))
  /\ UNCHANGED <<torn, data>>
\* An older genuine tip, none, one that does not parse, one signed by a key
\* of their own, or a genuine one with its fields or companion changed.
SwapTip ==
  /\ tip' \in issued \cup {NoTip, BadTip, Tip(Len(Entries(ledger)), FirstSelf(Entries(ledger)), LastSelf(Entries(ledger)), now, "own", "own")}
       \cup {[t EXCEPT !.wellformed = FALSE] : t \in issued} \cup {[t EXCEPT !.pq = "none"] : t \in issued}
       \cup {[t EXCEPT !.pq = "malformed"] : t \in issued}
  /\ tip' # tip
  /\ UNCHANGED <<ledger, torn, data>>

Tamper ==
  /\ Tampering /\ lock = "free"
  /\ \/ (Truncate \/ Rechain) /\ tip' \in issued \cup {tip}   \* perhaps with an older tip put back
     \/ Edit /\ UNCHANGED tip
     \/ SwapTip
  /\ UNCHANGED <<lock, signer, reader, now, faults, signed, issued>>

Tick ==
  /\ now < MaxTime /\ now' = now + 1
  /\ UNCHANGED <<ledger, torn, tip, lock, signer, reader, data, tampers, faults, signed, issued>>

Next ==
  \/ \E w \in Writers : AppendLine(w) \/ AppendFails(w) \/ SealTail(w) \/ SealFails(w)
  \/ \E s \in Signers : ReadChain(s) \/ SignTip(s)
  \/ \E r \in Readers : ReadLedger(r) \/ Verify(r)
  \/ Tamper \/ Tick

Spec == Init /\ [][Next]_vars
\* A writer under the lock writes its tip; sign_tip is run again and again
\* ("Call after every append").
FairSpec ==
  /\ Spec
  /\ \A w \in Writers : WF_vars(SealTail(w))
  /\ \A s \in Signers : WF_vars(ReadChain(s)) /\ WF_vars(SignTip(s))

-----------------------------------------------------------------------------
(* With a trusted log key and a required tip, PASS means that the file     *)
(* read is, entry by entry, one for which the log key signed a tip: at     *)
(* not_before or later, with the post-quantum key too when one is trusted, *)
(* and of the expected ledger.  Truncations, rewritten suffixes, foreign   *)
(* and older tips and stripped companions do not pass.                     *)
AcceptedWasSigned == \A r \in Readers, o \in Opts :
  reader[r].at = "read" /\ (o.require \/ o.pq # "") /\ Errors(r, o) = {} =>
    \E s \in signed :
      /\ s.chain = Chain(reader[r].lines)
      /\ s.ts >= o.notBefore
      /\ o.pq # "" => s.pq = o.pq
      /\ o.expect # GENESIS => s.id = o.expect

(* On files nobody tampered with, a verifier with the log key never says   *)
(* that something was rewritten.  It may find a tail that is not sealed    *)
(* yet (a tip that failed, a slow sign_tip that put an older tip back);    *)
(* it calls the ledger truncated only when it grew between its two reads,  *)
(* and the tip foreign only when it was signed over the empty file.        *)
HonestVerdicts == \A r \in Readers, o \in Opts :
  reader[r].at = "read" /\ Untampered /\ o.key = "log" /\ o.pq = "" /\ o.notBefore = -1 /\ o.expect = GENESIS =>
    Errors(r, o) \subseteq {"unsealed_tail", "tip_missing", "empty_ledger"}
      \cup (IF torn THEN {"json_decode"} ELSE {})
      \cup (IF reader[r].lines # LinesRead THEN {"tail_truncated"} ELSE {})
      \cup (IF tip.kind = "tip" /\ tip.entries = 0 THEN {"tip_of_another_ledger"} ELSE {})

(* Without tampering, and with sign_tip run again and again, the tip ends  *)
(* up naming the last entry for good.                                      *)
EventuallySealed ==
  [](Untampered /\ ~torn) =>
    <>[](tip.kind = "tip" /\ tip.entries = Len(Entries(ledger)) /\ tip.last = LastSelf(Entries(ledger)))
=============================================================================
